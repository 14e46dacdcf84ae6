SPECIFICATION Spec
CONSTANTS
    Root = root
    Children = {a, b}
    Kinds = {"settled"}
    MaxEvents = 2
    MaxFaults = 1
    Entry <- AllEntries
    Visible <- Shown
    Origin = Origin
    Capacity = 2
INVARIANTS
    QuietSubagentsCurrent
