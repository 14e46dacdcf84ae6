SPECIFICATION FairSpec
CHECK_DEADLOCK FALSE
CONSTANTS
    Ids = {a}
    Callers = {c1, c2}
    Uses = {"served", "handed", "private"}
    MaxOps = 2
INVARIANTS
    SystemInv
    ErasedStaysErased
PROPERTIES
    StoresAreOwned
    EveryCallReturns
    WorkIsDone
