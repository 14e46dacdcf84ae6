SPECIFICATION FairSpec
CONSTANTS
    Flows = {f1, f2, f3}
    Nobody = Nobody
INVARIANT OneOwner
INVARIANT CloseDrains
INVARIANT QueueInv
PROPERTY PublicationIsExclusive
PROPERTY Serialised
PROPERTY EveryCallEnds
