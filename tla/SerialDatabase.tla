--------------------------- MODULE SerialDatabase ---------------------------
(***************************************************************************)
(* What the callers of AgentDatabaseConnection are promised: one flow at a *)
(* time owns the database, from its first statement until what it committed*)
(* has been published; only the owner's writes become durable meanwhile;   *)
(* and closing happens once, when nobody owns it, and for ever.            *)
(***************************************************************************)
CONSTANT Flows

VARIABLES
    owners,   \* the flows that own the database: none, or one
    durable,  \* the durable writes, each with the flow that made it
    closed    \* whether the driver was closed

Init == owners = {} /\ durable = {} /\ closed = FALSE

Acquire(f) ==
    /\ owners = {}
    /\ ~closed
    /\ owners' = {f}
    /\ UNCHANGED <<durable, closed>>

(* A statement on its own, or everything a transaction wrote.               *)
Write(f) ==
    /\ owners = {f}
    /\ ~closed
    /\ \E kind \in {"statement", "transaction"} : durable' = durable \cup {<<f, kind>>}
    /\ UNCHANGED <<owners, closed>>

Release(f) ==
    /\ owners = {f}
    /\ owners' = {}
    /\ UNCHANGED <<durable, closed>>

(* The owner that closes the driver gives it up with that.                  *)
Close(f) ==
    /\ owners = {f}
    /\ ~closed
    /\ owners' = {}
    /\ closed' = TRUE
    /\ UNCHANGED durable

Next == \E f \in Flows : Acquire(f) \/ Write(f) \/ Release(f) \/ Close(f)

Spec == Init /\ [][Next]_<<owners, durable, closed>>
=============================================================================
