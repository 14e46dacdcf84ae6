------------------------- MODULE DatabaseConnection -------------------------
(***************************************************************************)
(* The scheduling boundary of one agent database,                          *)
(* packages/happy-agent-base/sources/AgentDatabaseConnection.ts with the   *)
(* transactions inTx.ts opens through it.                                  *)
(*                                                                         *)
(* A flow is one asynchronous call chain that reaches the connection once: *)
(* a root operation (which may open a transaction inside), a root          *)
(* transaction, or a close.  What the runtime carries along a chain through*)
(* AsyncLocalStorage is explicit: inside is the root operation it belongs  *)
(* to, txn the transaction.  The FIFO is the code's chain of promises: each*)
(* job waits for the release of the job that was the tail when it came.    *)
(*                                                                         *)
(* A flow may start another one that nobody awaits (Fork), by the rule the *)
(* callers keep: outside the operation it is started from.  Bounds: Flows, *)
(* one call of each flow, and one transaction in it (opened).              *)
(***************************************************************************)
EXTENDS Integers

CONSTANTS
    Flows,   \* call chains
    Nobody   \* no flow

ASSUME DatabaseConnectionAssumption == Nobody \notin Flows

VARIABLES
    conn,  \* #state, #available (the tail of the chain) and #closePromise
    flow,  \* each call chain
    db     \* durable writes, and those of the transaction that is open

vars == <<conn, flow, db>>
-----------------------------------------------------------------------------
Holding == {"root", "tx", "publish"}
Owning == Holding \cup {"closing"}

Init ==
    /\ conn = [state |-> "open", tail |-> Nobody, admitted |-> 0, closes |-> 0]
    /\ flow = [f \in Flows |->
          [at |-> "new", wants |-> "none", prev |-> Nobody, ticket |-> 0,
           inside |-> Nobody, txn |-> Nobody, opened |-> FALSE]]
    /\ db = [durable |-> {}, scratch |-> {}]

(* The active flags of the carried root operation and transaction.          *)
RootActive(f) == \E g \in Flows : flow[f].inside = g /\ flow[g].at \in Holding
TxActive(f) == \E g \in Flows : flow[f].txn = g /\ flow[g].at = "tx"

(* #enqueue; ticket and admitted only count.                                *)
Enqueue(f, what, state) ==
    /\ conn' = [conn EXCEPT !.state = state, !.tail = f, !.admitted = @ + 1]
    /\ flow' = [flow EXCEPT
          ![f].at = "waiting", ![f].wants = what, ![f].prev = conn.tail,
          ![f].ticket = conn.admitted + 1]

Become(f, at) == flow' = [flow EXCEPT ![f].at = at]
Refuse(f) == Become(f, "refused") /\ UNCHANGED conn

(* #admit *)
Admit(f, what) ==
    \/ conn.state = "open" /\ Enqueue(f, what, "open")
    \/ conn.state # "open" /\ Refuse(f)

(* operation and transaction on the root facade.                            *)
Call(f, what) ==
    /\ flow[f].at \in {"new", "forked"}
    /\ what \in {"operation", "transaction"}
    /\ IF TxActive(f) THEN Refuse(f)
       ELSE IF RootActive(f)
       THEN /\ flow' = [flow EXCEPT ![f].at = IF what = "operation" THEN "root" ELSE "tx",
                                    ![f].wants = what,
                                    ![f].opened = what = "transaction"]
            /\ UNCHANGED conn
       ELSE Admit(f, what)
    /\ UNCHANGED db

(* operation on the facade of the transaction the flow was started in: it   *)
(* runs in that transaction, and not at all once the body has ended.        *)
CallFacade(f) ==
    /\ flow[f].at = "forked"
    /\ flow[f].txn # Nobody
    /\ \/ ~TxActive(f) /\ Refuse(f) /\ UNCHANGED db
       \/ /\ TxActive(f)
          /\ Become(f, "joined")
          /\ db' = [db EXCEPT !.scratch = {flow[f].txn}]
          /\ UNCHANGED conn

(* Mutant: a job does not wait for the one before it. *)
Unqueued(g) == TRUE

(* Mutant: the slot is given back at the commit, before the publication. *)
ReleasedAtCommit(g) ==
    g = Nobody \/ \E h \in Flows : g = h /\ flow[h].at \in {"done", "publish"}

(* A job runs when the job before it in the chain has been released.        *)
Released(g) == g = Nobody \/ \E h \in Flows : g = h /\ flow[h].at = "done"

Begin(f) ==
    /\ flow[f].at = "waiting"
    /\ Released(flow[f].prev)
    /\ flow' = [flow EXCEPT
          ![f].at = CASE flow[f].wants = "operation" -> "root"
                      [] flow[f].wants = "transaction" -> "tx"
                      [] OTHER -> "closing",
          ![f].inside = IF flow[f].wants = "close" THEN @ ELSE f,
          ![f].opened = flow[f].wants = "transaction"]
    /\ UNCHANGED <<conn, db>>

(* A statement of a root operation commits by itself; in a transaction, with*)
(* the rest of it.  The callbacks of a publication run statements too.      *)
Statement(f) ==
    \/ /\ flow[f].at \in {"root", "publish"}
       /\ db' = [db EXCEPT !.durable = @ \cup {<<f, "statement">>}]
       /\ UNCHANGED <<conn, flow>>
    \/ /\ flow[f].at = "tx"
       /\ db' = [db EXCEPT !.scratch = {f}]
       /\ UNCHANGED <<conn, flow>>

(* Mutant: a step never knows that it owns the slot already. *)
QueuesAgain(f) == FALSE

(* A transaction inside a database-owned step reuses the step's slot.       *)
Reenters(f) == RootActive(f)

OpenTransaction(f) ==
    /\ flow[f].at = "root"
    /\ ~flow[f].opened
    /\ IF Reenters(f)
       THEN flow' = [flow EXCEPT ![f].at = "tx", ![f].opened = TRUE] /\ UNCHANGED conn
       ELSE Admit(f, flow[f].wants)
    /\ UNCHANGED db

Commit(f) ==
    /\ flow[f].at = "tx"
    /\ Become(f, "publish")
    /\ db' = [durable |-> db.durable \cup {<<g, "transaction">> : g \in db.scratch},
              scratch |-> {}]
    /\ UNCHANGED conn

(* Back in the root operation, which may handle a failed transaction, or at *)
(* the end of the job.                                                      *)
Resumed(f) == IF flow[f].wants = "operation" THEN "root" ELSE "done"

Rollback(f) ==
    /\ flow[f].at = "tx"
    /\ Become(f, Resumed(f))
    /\ db' = [db EXCEPT !.scratch = {}]
    /\ UNCHANGED conn

EndPublication(f) ==
    /\ flow[f].at = "publish"
    /\ Become(f, Resumed(f))
    /\ UNCHANGED <<conn, db>>

EndOperation(f) ==
    /\ flow[f].at = "root"
    /\ Become(f, "done")
    /\ UNCHANGED <<conn, db>>

(* Mutant: a flow started in an operation goes on believing that it owns it.*)
CarriesOperation(f) == flow[f].inside

(* outsideAgentDatabaseOperation: a flow nobody awaits leaves the operation *)
(* it is started in, though not the transaction.                            *)
Carried(f) == Nobody

Fork(f, g) ==
    /\ flow[f].at \in Holding
    /\ flow[g].at = "new"
    /\ flow' = [flow EXCEPT
          ![g].at = "forked",
          ![g].inside = Carried(f),
          ![g].txn = IF flow[f].at = "tx" THEN f ELSE Nobody]
    /\ UNCHANGED <<conn, db>>

(* Mutant: every close queues a close of the driver of its own. *)
ClosesAgain == TRUE

(* close: only the first one queues; the others await the same promise.     *)
FirstClose == conn.state = "open"

Close(f) ==
    /\ flow[f].at \in {"new", "forked"}
    /\ \/ /\ TxActive(f) \/ RootActive(f)
          /\ Refuse(f)
       \/ /\ ~TxActive(f) /\ ~RootActive(f)
          /\ IF FirstClose THEN Enqueue(f, "close", "closing")
             ELSE Become(f, "awaiting") /\ UNCHANGED conn
    /\ UNCHANGED db

(* The driver's close may fail: the connection is closed all the same.      *)
CloseDriver(f) ==
    /\ flow[f].at = "closing"
    /\ Become(f, "done")
    /\ conn' = [conn EXCEPT !.state = "closed", !.closes = @ + 1]
    /\ UNCHANGED db

CloseAwaited(f) ==
    /\ flow[f].at = "awaiting"
    /\ conn.state = "closed"
    /\ Become(f, "joined")
    /\ UNCHANGED <<conn, db>>

(* Every call was answered, and the rest is never made.                     *)
Rest ==
    /\ \A f \in Flows : flow[f].at \in {"new", "forked", "done", "joined", "refused"}
    /\ UNCHANGED vars
-----------------------------------------------------------------------------
Work(f) ==
    \/ Begin(f) \/ Commit(f) \/ Rollback(f) \/ EndPublication(f) \/ EndOperation(f)
    \/ CloseDriver(f) \/ CloseAwaited(f)

Arrive(f) ==
    \/ \E what \in {"operation", "transaction"} : Call(f, what)
    \/ CallFacade(f) \/ Close(f) \/ Statement(f) \/ OpenTransaction(f)
    \/ \E g \in Flows : Fork(f, g)

Next == (\E f \in Flows : Work(f) \/ Arrive(f)) \/ Rest

(* The work handed to the connection ends, or fails: it never waits for     *)
(* ever, and a promise that is resolved resumes whoever awaits it.          *)
Fairness ==
    \A f \in Flows :
        /\ WF_vars(Begin(f)) /\ WF_vars(Commit(f) \/ Rollback(f))
        /\ WF_vars(EndPublication(f)) /\ SF_vars(EndOperation(f))
        /\ WF_vars(CloseDriver(f)) /\ WF_vars(CloseAwaited(f))

Spec == Init /\ [][Next]_vars
FairSpec == Spec /\ Fairness
-----------------------------------------------------------------------------
Stages == {"new", "forked", "waiting", "root", "tx", "publish", "closing", "done",
           "joined", "awaiting", "refused"}

TypeOK ==
    /\ conn \in [state : {"open", "closing", "closed"}, tail : Flows \cup {Nobody},
                 admitted : Nat, closes : {0, 1}]
    /\ flow \in [Flows ->
          [at : Stages, wants : {"none", "operation", "transaction", "close"},
           prev : Flows \cup {Nobody}, ticket : Nat, inside : Flows \cup {Nobody},
           txn : Flows \cup {Nobody}, opened : BOOLEAN]]
    /\ db \in [durable : SUBSET (Flows \X {"statement", "transaction"}),
               scratch : SUBSET Flows]

Owns(f) == flow[f].at \in Owning

(* The database has one owner at a time, from a job's first statement until *)
(* what it committed is published or the driver is closed: neither a flow   *)
(* that an operation left behind, nor a close, ever runs beside another.    *)
OneOwner == \A f, g \in Flows : Owns(f) /\ Owns(g) => f = g

(* While a commit is being published, nothing but the publication itself    *)
(* becomes durable: whoever hears of the commit reads what was committed.   *)
PublicationIsExclusive ==
    [][\A f \in Flows : flow[f].at = "publish" =>
          \A w \in db'.durable \ db.durable : w[1] = f]_vars

(* The driver is closed after every job that was admitted before the close  *)
(* has ended, and then nothing waits for the database or writes to it.      *)
CloseDrains ==
    conn.state = "closed" =>
        db.scratch = {} /\ \A f \in Flows : ~Owns(f) /\ flow[f].at # "waiting"

(* The connection serialises what its callers do and closes once: it        *)
(* implements SerialDatabase.                                               *)
Serial == INSTANCE SerialDatabase WITH
    owners <- {f \in Flows : Owns(f)}, durable <- db.durable, closed <- conn.closes > 0

Serialised == Serial!Spec

(* The chain of promises is a queue: tickets are dealt one by one, each job *)
(* follows the one that came before it, a job that has started leaves none  *)
(* behind it that has not ended, and a close is the last one dealt.         *)
Past == Owning \cup {"done"}
Admitted(f) == flow[f].ticket > 0

Dealt ==
    /\ \A f \in Flows :
          /\ Admitted(f) <=> flow[f].at \in Past \cup {"waiting"}
          /\ flow[f].ticket <= conn.admitted
    /\ \A f, g \in Flows : Admitted(f) /\ flow[f].ticket = flow[g].ticket => f = g

Chained ==
    /\ \A f \in Flows : Admitted(f) =>
          IF flow[f].prev = Nobody THEN flow[f].ticket = 1
          ELSE flow[flow[f].prev].ticket = flow[f].ticket - 1 /\ flow[f].ticket > 1
    /\ IF conn.tail = Nobody THEN conn.admitted = 0
       ELSE conn.admitted > 0 /\ flow[conn.tail].ticket = conn.admitted

Ordered ==
    \A f, g \in Flows :
        flow[f].at \in Past /\ Admitted(g) /\ flow[g].ticket < flow[f].ticket =>
            flow[g].at = "done"

Entered ==
    /\ \A f \in Flows :
          /\ flow[f].at \in Holding => flow[f].inside = f
          /\ flow[f].at \in {"new", "forked"} => flow[f].inside = Nobody
          /\ flow[f].at \in Holding => flow[f].wants \in {"operation", "transaction"}
          /\ flow[f].at = "waiting" => flow[f].wants # "none"
          /\ flow[f].at = "closing" => flow[f].wants = "close"
    /\ \A f \in db.scratch : flow[f].at = "tx"

ClosesLast ==
    /\ conn.closes = IF conn.state = "closed" THEN 1 ELSE 0
    /\ conn.state = "closed" => conn.tail # Nobody /\ flow[conn.tail].at = "done"
    /\ \A f \in Flows : Admitted(f) /\ flow[f].wants = "close" =>
          /\ conn.state # "open"
          /\ flow[f].ticket = conn.admitted
          /\ flow[f].at # "done" => conn.state = "closing"

QueueInv == TypeOK /\ Dealt /\ Chained /\ Ordered /\ Entered /\ ClosesLast

(* Whatever was admitted ends, a close that is queued or awaited too: a     *)
(* transaction opened inside an operation does not wait behind itself.      *)
EveryCallEnds ==
    \A f \in Flows :
        flow[f].at \in {"waiting", "awaiting"} ~> flow[f].at \in {"done", "joined"}
=============================================================================
