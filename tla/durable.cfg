SPECIFICATION FairSpec
CONSTANTS
    c1 = c1
    c2 = c2
    c3 = c3
    a = a
    b = b
    Calls = {c1, c2, c3}
    LockKeys = {a, b}
    LockKeysOf <- Keys
    OperationOf <- Ids
    Operations = {"first", "second"}
    NoOperation = "no operation"
    Stateful = {c1}
    Registrations <- Processes
    CreatedAt <- Clock
    RecoveryBatch = 1
    MaxRowid = 3
    MaxTransactions = 2
    MaxHooks = 2
    MaxEnds = 1
INVARIANTS
    NoRowForgotten
    StateErased
    DurableInv
    TakesLikeTheLoop
PROPERTIES
    NoLeapfrog
    OncePerProcess
    KeepsItsPromise
    EveryCallSettles
