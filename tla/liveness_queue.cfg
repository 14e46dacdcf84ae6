SPECIFICATION FairSpec
CONSTANTS
    Msgs = {m1, m2}
    Calls = {}
    Retryable = {}
    FaultKinds = {"stage", "load", "stream", "commit"}
    MaxFaults = 1
    MaxAborts = 1
    MaxCrashes = 0
    MaxStops = 0
    MaxBlocks = 1
PROPERTIES
    EveryMessageTaken
