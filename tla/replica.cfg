SPECIFICATION Spec
CONSTANTS
    Root = root
    Children = {}
    Kinds = {"started", "settled", "drafted", "streamed"}
    MaxEvents = 2
    MaxFaults = 1
    Entry <- AllEntries
    Visible <- Shown
    Origin = Origin
    Capacity = 2
INVARIANTS
    ReplicaInv
    FeedInv
    QuietMeansCurrent
    TrailsItsState
PROPERTIES
    FeedIsFaithful
    NeverGoesBack
