SPECIFICATION Spec
CHECK_DEADLOCK FALSE
CONSTANTS
    Ids = {a}
    Callers = {c1, c2}
    Uses = {"mixed"}
    MaxOps = 1
INVARIANT ErasedStaysErased
