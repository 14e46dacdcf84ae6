SPECIFICATION Spec
CONSTANTS
    Msgs = {m1, m2}
    Calls = {}
    Retryable = {}
    FaultKinds = {"stage", "load", "settle", "stream", "commit"}
    MaxFaults = 1
    MaxAborts = 1
    MaxCrashes = 1
    MaxStops = 0
    MaxBlocks = 1
INVARIANTS
    QueuedWorkIsOwed
    OwedInv
    AcceptedExactlyOnce
    IdleOwesOnlyOpenCalls
SYMMETRY Symmetry
