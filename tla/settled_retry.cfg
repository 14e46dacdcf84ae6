SPECIFICATION Spec
CONSTANTS
    Root = root
    Children = {}
    Kinds = {"retrying", "settled"}
    MaxEvents = 2
    MaxFaults = 0
    Entry <- AllEntries
    Visible <- Shown
    Origin = Origin
    Capacity = 2
INVARIANTS
    QuietMeansCurrent
