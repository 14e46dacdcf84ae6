SPECIFICATION FairSpec
CONSTANTS
    Root = root
    Children = {}
    Kinds = {"settled", "drafted", "streamed"}
    MaxEvents = 1
    MaxFaults = 2
    Entry <- AllEntries
    Visible <- Shown
    Origin = Origin
    Capacity = 2
PROPERTIES
    BecomesCurrent
