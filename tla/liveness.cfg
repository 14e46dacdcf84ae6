SPECIFICATION FairSpec
CONSTANTS
    Msgs = {m1}
    Calls = {c1}
    Retryable = {c1}
    FaultKinds = {"stage", "load", "settle", "stream", "commit"}
    MaxFaults = 1
    MaxAborts = 1
    MaxCrashes = 1
    MaxStops = 1
    MaxBlocks = 1
INVARIANTS
    ConversationInv
PROPERTIES
    EveryAnswerGiven
    EveryRunEnds
