SPECIFICATION Spec
CONSTANTS
    Msgs = {m1}
    Calls = {c1, c2}
    Retryable = {c1}
    FaultKinds = {"stage", "load", "settle", "stream", "commit"}
    MaxFaults = 1
    MaxAborts = 1
    MaxCrashes = 1
    MaxStops = 2
    MaxBlocks = 1
INVARIANTS
    TypeOK
    CallsAnsweredInPlace
    SettledMeansComplete
    NonRetryableRunsOnce
    AnswerDueIsOwed
PROPERTIES
    KeepsItsPromise
