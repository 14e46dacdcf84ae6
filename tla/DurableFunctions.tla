--------------------------- MODULE DurableFunctions ---------------------------
(***************************************************************************)
(* Durable functions, packages/happy-agent-modules/sources/durableFunctions*)
(* (DurableFunctionsModule.ts over SqliteDurableFunctionsStorage.ts).      *)
(*                                                                         *)
(* A call is one row, written inside its caller's transaction.  The        *)
(* transaction's after-commit callbacks hand it to a dispatcher that lives *)
(* in memory; the next process finds the rows that are left.  Each section *)
(* of the dispatch lock has no await in it, so it is one step.             *)
(*                                                                         *)
(* The database has one owner at a time (module DatabaseConnection): while *)
(* a transaction is open, or its callbacks run, no other database step     *)
(* takes place.  All else goes on: executors, the event loop, a stop, the  *)
(* death of the process.                                                   *)
(*                                                                         *)
(* What a call is made with is a constant of its identity, which is fresh. *)
(* Bounds: Calls, MaxRowid, MaxTransactions, MaxHooks, MaxEnds.            *)
(***************************************************************************)
EXTENDS Integers, Sequences, FiniteSets

CONSTANTS
    Calls,           \* identities of calls
    LockKeys,        \* names of locks
    Operations,      \* operation ids
    LockKeysOf,      \* the keys each call is made with
    OperationOf,     \* the operation id each is made with, or NoOperation
    NoOperation,
    Stateful,        \* calls whose executor stores state of its own
    Registrations,   \* the sets of calls a process may have definitions for
    CreatedAt,       \* the wall clock each read before its transaction; in any
                     \* order, since transactions wait and clocks are set back
    RecoveryBatch,   \* MAX_DURABLE_FUNCTION_RECOVERY_BATCH
    MaxRowid,        \* bound: row ids
    MaxTransactions, \* bound: transactions of callers
    MaxHooks,        \* bound: operations in one transaction
    MaxEnds          \* bound: ends of a process

ASSUME DurableFunctionsAssumption ==
    /\ LockKeysOf \in [Calls -> SUBSET LockKeys]
    /\ OperationOf \in [Calls -> Operations \cup {NoOperation}]
    /\ NoOperation \notin Operations
    /\ Stateful \subseteq Calls
    /\ Registrations \subseteq SUBSET Calls
    /\ CreatedAt \in [Calls -> Nat]
    /\ RecoveryBatch \in Nat \ {0}
    /\ {MaxRowid, MaxTransactions, MaxHooks, MaxEnds} \subseteq Nat

VARIABLES
    \* the database: each call's row ("pending") or what became of it, its
    \* row id, and which calls have stored state
    status, sequence, state,
    \* the transaction that owns the database: its stage, the call whose
    \* completion it is, its after-commit callbacks, what it started from
    tx, owner, hooks, committed, committedState,
    \* the process: its stage, #stopped, the definitions it has, recovery's
    \* page, and whether more pages may follow the cursor
    phase, stopped, registered, page, more, cursor,
    \* the dispatcher: #waiting with the order of its insertions, #running,
    \* #heldLockKeys, the controllers that were aborted
    waiting, ahead, run, heldLockKeys, aborted,
    \* history and budgets: calls this process took, transactions, ends
    taken, transactions, ends

rowVars == <<status, sequence, state>>
txVars == <<tx, owner, hooks, committed, committedState>>
processVars == <<phase, stopped, registered, page, more, cursor>>
dispatchVars == <<waiting, ahead, run, heldLockKeys, aborted, taken>>
budgetVars == <<transactions, ends>>
vars == <<rowVars, txVars, processVars, dispatchVars, budgetVars>>
-----------------------------------------------------------------------------
Fates == {"none", "pending", "succeeded", "failed", "cancelled", "discarded"}
RunStages == {"idle", "launched", "executing", "writing", "returned", "threw",
              "completing", "finishing"}
Hook == [kind : {"enqueue", "cancel"}, call : Calls]
Start0 == [createdAt |-> 0, sequence |-> 0]

Init ==
    /\ status = [c \in Calls |-> "none"] /\ committed = status
    /\ sequence = [c \in Calls |-> 0]
    /\ state = {} /\ committedState = {}
    /\ tx = "none" /\ owner = {} /\ hooks = <<>>
    /\ phase = "down" /\ stopped = FALSE /\ registered = {}
    /\ page = {} /\ more = FALSE /\ cursor = Start0
    /\ waiting = {} /\ ahead = [c \in Calls |-> {}]
    /\ run = [c \in Calls |-> "idle"]
    /\ heldLockKeys = {} /\ aborted = {} /\ taken = {}
    /\ transactions = 0 /\ ends = 0

Pending == {c \in Calls : status[c] = "pending"}
Overlap(c, d) == LockKeysOf[c] \cap LockKeysOf[d] # {}

(* compareCalls: the order of creation, which is also that of listCalls.    *)
Older(c, d) ==
    \/ CreatedAt[c] < CreatedAt[d]
    \/ CreatedAt[c] = CreatedAt[d] /\ sequence[c] < sequence[d]

(* The sort is stable: a tie is broken by the order of insertion in the map.*)
Precedes(c, d, order) == Older(c, d) \/ (~Older(d, c) /\ c \in order[d])
-----------------------------------------------------------------------------
(* The dispatcher.                                                          *)

(* Two dispatchers that go wrong: one reserves nothing for the calls that   *)
(* wait, one looks only at the calls before.                                *)
TakesWhatIsFree(queue, order, held) == {c \in queue : LockKeysOf[c] \cap held = {}}
TakesBesideHolders(queue, order, held) ==
    {c \in queue : \A d \in queue \ {c} : Precedes(d, c, order) => ~Overlap(c, d)}

(* One turn of the loop of #takeRunnable: a call that finds a key held, or  *)
(* reserved for a call before it, reserves its own; another is taken.       *)
Looking(held) == [starts |-> {}, held |-> held, blocked |-> {}]
Look(seen, c) ==
    IF LockKeysOf[c] \cap (seen.held \cup seen.blocked) # {}
    THEN [starts |-> seen.starts, held |-> seen.held,
          blocked |-> seen.blocked \cup LockKeysOf[c]]
    ELSE [starts |-> seen.starts \cup {c}, held |-> seen.held \cup LockKeysOf[c],
          blocked |-> seen.blocked]

(* What the loop of #takeRunnable takes: the calls none of whose keys are   *)
(* held, or wanted by a call before it (which either takes or reserves).    *)
Runnable(queue, order, held) ==
    {c \in queue :
        /\ LockKeysOf[c] \cap held = {}
        /\ \A d \in queue \ {c} : Precedes(d, c, order) => ~Overlap(c, d)}

TakeRunnable(queue, order, held, calls) ==
    LET starts == Runnable(queue, order, held)
        rest == queue \ starts
    IN  /\ waiting' = rest
        /\ ahead' = [c \in Calls |-> IF c \in rest THEN order[c] \cap rest ELSE {}]
        /\ heldLockKeys' = held \cup UNION {LockKeysOf[c] : c \in starts}
        /\ run' = [c \in Calls |-> IF c \in starts THEN "launched" ELSE calls[c]]
        /\ taken' = taken \cup starts

(* The map without call c.                                                  *)
Unwait(c) ==
    /\ waiting' = waiting \ {c}
    /\ ahead' = [d \in Calls |-> IF d = c THEN {} ELSE ahead[d] \ {c}]

(* #enqueue *)
Known(c) == stopped \/ run[c] # "idle" \/ c \in waiting

Enqueue(c) ==
    LET queue == waiting \cup {c}
        order == [ahead EXCEPT ![c] = waiting]
    IN  \/ Known(c) /\ UNCHANGED dispatchVars
        \/ /\ ~Known(c) /\ phase = "dispatching"
           /\ TakeRunnable(queue, order, heldLockKeys, run)
           /\ UNCHANGED aborted
        \/ /\ ~Known(c) /\ phase # "dispatching"
           /\ waiting' = queue /\ ahead' = order
           /\ UNCHANGED <<run, heldLockKeys, aborted, taken>>

(* #cancelDispatch *)
CancelDispatch(c) ==
    /\ Unwait(c)
    /\ aborted' = IF run[c] = "idle" THEN aborted ELSE aborted \cup {c}
    /\ UNCHANGED <<run, heldLockKeys, taken>>

Become(c, stage) == run' = [run EXCEPT ![c] = stage]

(* Whether the lifetime of the call's context has ended.                    *)
Ended(c) == stopped \/ c \in aborted
-----------------------------------------------------------------------------
(* Transactions.  A caller's may hold several operations, of this module    *)
(* and of others.                                                           *)

Open(by) ==
    /\ tx = "none"
    /\ tx' = "open" /\ owner' = by /\ hooks' = <<>>

OpenTransaction ==
    /\ phase # "down" /\ transactions < MaxTransactions
    /\ Open({})
    /\ transactions' = transactions + 1
    /\ UNCHANGED <<rowVars, committed, committedState, processVars, dispatchVars, ends>>

InTransaction == tx = "open" /\ Len(hooks) < MaxHooks

(* A row gets the row id after the greatest there is.                       *)
NextRowid(n) ==
    /\ \A d \in Pending : sequence[d] < n
    /\ n = 1 \/ \E d \in Pending : sequence[d] = n - 1

(* ON CONFLICT (operation_id) DO NOTHING: a second call of an operation     *)
(* changes nothing while the first is pending.                              *)
Conflict(c) ==
    OperationOf[c] # NoOperation /\ \E d \in Pending : OperationOf[d] = OperationOf[c]

(* invoke                                                                   *)
Invoke(c) ==
    /\ InTransaction /\ status[c] = "none" /\ c \in registered
    /\ ~Conflict(c)
    /\ \E n \in 1..MaxRowid :
          /\ NextRowid(n)
          /\ sequence' = [sequence EXCEPT ![c] = n]
    /\ status' = [status EXCEPT ![c] = "pending"]
    /\ hooks' = Append(hooks, [kind |-> "enqueue", call |-> c])
    /\ UNCHANGED <<state, tx, owner, committed, committedState, processVars,
                   dispatchVars, budgetVars>>

(* deleteCallAndState, as the transaction sees the rows.                    *)
DeleteRow(c, fate) ==
    /\ status' = [status EXCEPT ![c] = fate]
    /\ UNCHANGED <<state, sequence>>

Delete(c, fate) ==
    /\ status' = [status EXCEPT ![c] = fate]
    /\ state' = state \ {c}
    /\ UNCHANGED sequence

(* cancel *)
Cancel(c) ==
    /\ InTransaction /\ status[c] = "pending" /\ OperationOf[c] # NoOperation
    /\ Delete(c, "cancelled")
    /\ hooks' = Append(hooks, [kind |-> "cancel", call |-> c])
    /\ UNCHANGED <<tx, owner, committed, committedState, processVars, dispatchVars, budgetVars>>

Commit ==
    /\ tx = "open"
    /\ tx' = "publishing" /\ committed' = status /\ committedState' = state
    /\ UNCHANGED <<rowVars, owner, hooks, processVars, dispatchVars, budgetVars>>

(* The rows as they were before the transaction.                            *)
Restore ==
    /\ status' = committed /\ state' = committedState
    /\ sequence' = [c \in Calls |-> IF committed[c] = "none" THEN 0 ELSE sequence[c]]

(* The executor's part ends with its transaction.                           *)
Release ==
    /\ tx' = "none" /\ owner' = {} /\ hooks' = <<>>
    /\ run' = [c \in Calls |-> IF c \in owner THEN "finishing" ELSE run[c]]
    /\ UNCHANGED <<processVars, waiting, ahead, heldLockKeys, aborted, taken, budgetVars>>

(* A callback, a statement or a success handler threw: all of it is undone, *)
(* and a call whose completion this was keeps its row and its state.        *)
Rollback ==
    /\ tx = "open"
    /\ Release
    /\ Restore
    /\ UNCHANGED <<committed, committedState>>

(* The next after-commit callback.  Before the module was started there is  *)
(* no dispatcher, and the row is left to recovery; otherwise the callback   *)
(* reads the row again and enqueues it.                                     *)
Publish ==
    /\ tx = "publishing" /\ hooks # <<>>
    /\ LET hook == Head(hooks)
           c == hook.call
           off == phase \in {"down", "booted"}
       IN  \/ off /\ UNCHANGED dispatchVars
           \/ /\ ~off /\ hook.kind = "enqueue"
              /\ IF c \in Pending THEN Enqueue(c) ELSE UNCHANGED dispatchVars
           \/ ~off /\ hook.kind = "cancel" /\ CancelDispatch(c)
    /\ hooks' = Tail(hooks)
    /\ UNCHANGED <<rowVars, tx, owner, committed, committedState, processVars, budgetVars>>

EndPublication ==
    /\ tx = "publishing" /\ hooks = <<>>
    /\ Release
    /\ UNCHANGED <<rowVars, committed, committedState>>

(* A transaction of the dispatcher's own, with no callbacks: one step.      *)
Settle(c, fate) ==
    /\ Delete(c, fate)
    /\ committed' = status' /\ committedState' = state'
    /\ UNCHANGED <<tx, owner, hooks>>
-----------------------------------------------------------------------------
(* One execution, #run and #execute.                                        *)

ExecutionStep == UNCHANGED <<processVars, waiting, ahead, heldLockKeys, aborted, taken, budgetVars>>

(* The next turn of the event loop after #launchAll.                        *)
Begin(c) ==
    /\ run[c] = "launched"
    /\ Become(c, IF Ended(c) THEN "finishing" ELSE "executing")
    /\ ExecutionStep /\ UNCHANGED <<rowVars, txVars>>

(* A store operation of the executor: its handle is still usable, and the   *)
(* statement queues for the database.                                       *)
CheckState(c) ==
    /\ run[c] = "executing" /\ c \in Stateful /\ ~Ended(c)
    /\ Become(c, "writing")
    /\ ExecutionStep /\ UNCHANGED <<rowVars, txVars>>

WriteState(c) ==
    /\ run[c] = "writing" /\ tx = "none"
    /\ state' = state \cup {c} /\ committedState' = state'
    /\ Become(c, "executing")
    /\ ExecutionStep
    /\ UNCHANGED <<status, sequence, tx, owner, hooks, committed>>

(* The executor ends by itself; after an abort or a stop nothing is settled.*)
ExecutorEnds(c) ==
    /\ run[c] = "executing"
    /\ \E outcome \in {"returned", "threw"} :
          Become(c, IF Ended(c) THEN "finishing" ELSE outcome)
    /\ ExecutionStep /\ UNCHANGED <<rowVars, txVars>>

(* The completion: the row is gone before the handler runs, in the same     *)
(* transaction, which the handler may use like any caller.                  *)
CompleteUnread(c) ==
    /\ run[c] = "returned" /\ tx = "none"
    /\ Open({c})
    /\ Delete(c, "succeeded")
    /\ Become(c, "completing")
    /\ ExecutionStep /\ UNCHANGED <<committed, committedState>>

Complete(c) ==
    /\ run[c] = "returned" /\ tx = "none" /\ c \in Pending
    /\ Open({c})
    /\ Delete(c, "succeeded")
    /\ Become(c, "completing")
    /\ ExecutionStep /\ UNCHANGED <<committed, committedState>>

CompleteNothing(c) ==
    /\ run[c] = "returned" /\ tx = "none" /\ c \notin Pending
    /\ Become(c, "finishing")
    /\ ExecutionStep /\ UNCHANGED <<rowVars, txVars>>

(* #settleFailure, whose own transaction may fail.                          *)
SettleFailure(c) ==
    /\ run[c] = "threw" /\ tx = "none"
    /\ Become(c, "finishing")
    /\ \/ c \in Pending /\ Settle(c, "failed")
       \/ UNCHANGED <<rowVars, txVars>>
    /\ ExecutionStep

(* #executionFinished *)
FinishAlone(c) ==
    /\ run[c] = "finishing"
    /\ aborted' = aborted \ {c}
    /\ run' = [run EXCEPT ![c] = "idle"]
    /\ heldLockKeys' = heldLockKeys \ LockKeysOf[c]
    /\ UNCHANGED <<waiting, ahead, taken, rowVars, txVars, processVars, budgetVars>>

Finish(c) ==
    LET calls == [run EXCEPT ![c] = "idle"]
        held == heldLockKeys \ LockKeysOf[c]
    IN  /\ run[c] = "finishing"
        /\ aborted' = aborted \ {c}
        /\ \/ stopped /\ run' = calls /\ heldLockKeys' = held
              /\ UNCHANGED <<waiting, ahead, taken>>
           \/ ~stopped /\ TakeRunnable(waiting, ahead, held, calls)
        /\ UNCHANGED <<rowVars, txVars, processVars, budgetVars>>
-----------------------------------------------------------------------------
(* The process.                                                             *)

Boot ==
    /\ phase = "down"
    /\ phase' = "booted"
    /\ \E r \in Registrations : registered' = r
    /\ UNCHANGED <<rowVars, txVars, stopped, page, more, cursor, dispatchVars, budgetVars>>

BeforeStart ==
    /\ phase = "booted"
    /\ phase' = "begun"
    /\ UNCHANGED <<rowVars, txVars, stopped, registered, page, more, cursor, dispatchVars, budgetVars>>

AfterStart ==
    /\ phase = "begun"
    /\ phase' = "recovering"
    /\ more' = TRUE /\ page' = {} /\ cursor' = Start0
    /\ UNCHANGED <<rowVars, txVars, stopped, registered, dispatchVars, budgetVars>>

(* listCalls of one page.  The cursor is the last row's, whatever happens to*)
(* that row.                                                                *)
LaterThanCursor(c) == cursor.createdAt < CreatedAt[c]
AfterCursor(c) ==
    \/ cursor.createdAt < CreatedAt[c]
    \/ cursor.createdAt = CreatedAt[c] /\ cursor.sequence < sequence[c]

NextPage(p) ==
    LET rows == {c \in Pending : AfterCursor(c)}
    IN  /\ p \subseteq rows
        /\ \A c \in p, d \in rows \ p : Older(c, d)
        /\ Cardinality(p) \in 0..RecoveryBatch
        /\ Cardinality(p) < RecoveryBatch => p = rows

ListCalls ==
    /\ phase = "recovering" /\ page = {} /\ more /\ tx = "none"
    /\ \E p \in SUBSET Pending :
          /\ NextPage(p)
          /\ page' = p
          /\ more' = (Cardinality(p) = RecoveryBatch)
          /\ \/ p = {} /\ UNCHANGED cursor
             \/ \E last \in p :
                   /\ \A d \in p \ {last} : Older(d, last)
                   /\ cursor' = [createdAt |-> CreatedAt[last], sequence |-> sequence[last]]
    /\ UNCHANGED <<rowVars, txVars, phase, stopped, registered, dispatchVars, budgetVars>>

(* The next row of the page: discarded in a transaction of its own, or      *)
(* enqueued (without the database) as the page has it.                      *)
NextOfPage(c) == c \in page /\ \A d \in page \ {c} : Older(c, d)

DiscardCall(c) ==
    /\ NextOfPage(c) /\ c \notin registered /\ tx = "none"
    /\ IF c \in Pending THEN Settle(c, "discarded") ELSE UNCHANGED <<rowVars, txVars>>
    /\ page' = page \ {c}
    /\ UNCHANGED <<phase, stopped, registered, more, cursor, dispatchVars, budgetVars>>

RecoverCall(c) ==
    /\ NextOfPage(c) /\ c \in registered
    /\ Enqueue(c)
    /\ page' = page \ {c}
    /\ UNCHANGED <<rowVars, txVars, phase, stopped, registered, more, cursor, budgetVars>>

StartDispatchAmidRecovery ==
    /\ phase = "recovering" /\ ~stopped
    /\ phase' = "dispatching" /\ cursor' = Start0
    /\ TakeRunnable(waiting, ahead, heldLockKeys, run)
    /\ UNCHANGED <<rowVars, txVars, stopped, registered, page, more, aborted, budgetVars>>

StartDispatch ==
    /\ phase = "recovering" /\ page = {} /\ ~more /\ ~stopped
    /\ phase' = "dispatching" /\ cursor' = Start0
    /\ TakeRunnable(waiting, ahead, heldLockKeys, run)
    /\ UNCHANGED <<rowVars, txVars, stopped, registered, page, more, aborted, budgetVars>>

(* stop *)
Stop ==
    /\ phase # "down" /\ ~stopped
    /\ stopped' = TRUE
    /\ waiting' = {} /\ ahead' = [c \in Calls |-> {}]
    /\ aborted' = {c \in Calls : run[c] # "idle"}
    /\ UNCHANGED <<rowVars, txVars, phase, registered, page, more, cursor, run,
                   heldLockKeys, taken, budgetVars>>

(* The process exits or dies; what was not committed is gone.               *)
ProcessEnds ==
    /\ phase # "down" /\ ends < MaxEnds
    /\ ends' = ends + 1
    /\ phase' = "down" /\ stopped' = FALSE /\ registered' = {}
    /\ page' = {} /\ more' = FALSE /\ cursor' = Start0
    /\ tx' = "none" /\ owner' = {} /\ hooks' = <<>>
    /\ Restore
    /\ waiting' = {} /\ ahead' = [c \in Calls |-> {}]
    /\ run' = [c \in Calls |-> "idle"]
    /\ heldLockKeys' = {} /\ aborted' = {} /\ taken' = {}
    /\ UNCHANGED <<committed, committedState, transactions>>
-----------------------------------------------------------------------------
TransactionStep == Commit \/ Rollback \/ Publish \/ EndPublication

CallStep(c) ==
    \/ Begin(c) \/ CheckState(c) \/ WriteState(c) \/ ExecutorEnds(c)
    \/ Complete(c) \/ CompleteNothing(c) \/ SettleFailure(c) \/ Finish(c)

Recovery ==
    \/ Boot \/ BeforeStart \/ AfterStart \/ ListCalls \/ StartDispatch
    \/ \E c \in Calls : DiscardCall(c) \/ RecoverCall(c)

(* Nothing is owed, or only to a next process: the module rests.            *)
Rest ==
    /\ tx = "none" /\ \A c \in Calls : run[c] = "idle"
    /\ stopped \/ phase = "dispatching"
    /\ UNCHANGED vars

Next ==
    \/ OpenTransaction \/ TransactionStep \/ Recovery \/ Stop \/ ProcessEnds \/ Rest
    \/ \E c \in Calls : Invoke(c) \/ Cancel(c) \/ CallStep(c)

Spec == Init /\ [][Next]_vars

Fairness ==
    /\ WF_vars(TransactionStep) /\ WF_vars(Recovery)
    /\ \A c \in Calls : WF_vars(CallStep(c)) /\ SF_vars(ExecutorEnds(c))

FairSpec == Spec /\ Fairness
-----------------------------------------------------------------------------
TypeOK ==
    /\ status \in [Calls -> Fates] /\ committed \in [Calls -> Fates]
    /\ sequence \in [Calls -> Nat]
    /\ state \in SUBSET Calls /\ committedState \in SUBSET Calls
    /\ owner \in SUBSET Calls /\ registered \in SUBSET Calls /\ page \in SUBSET Calls
    /\ waiting \in SUBSET Calls /\ aborted \in SUBSET Calls /\ taken \in SUBSET Calls
    /\ tx \in {"none", "open", "publishing"} /\ hooks \in Seq(Hook)
    /\ phase \in {"down", "booted", "begun", "recovering", "dispatching"}
    /\ stopped \in BOOLEAN /\ more \in BOOLEAN
    /\ cursor \in [createdAt : Nat, sequence : Nat]
    /\ ahead \in [Calls -> SUBSET Calls]
    /\ run \in [Calls -> RunStages]
    /\ heldLockKeys \in SUBSET LockKeys
    /\ transactions \in Nat /\ ends \in Nat
    /\ tx # "open" => status = committed /\ state = committedState
    /\ tx = "none" => owner = {} /\ hooks = <<>>

(* A row is never forgotten: while the dispatcher runs, each committed row  *)
(* waits, runs, was already tried in this process, or is about to be        *)
(* announced by the transaction that made it; while recovery runs, or it is *)
(* on the page in hand or still ahead of the cursor.  (#recoverPending, the *)
(* after-commit callback of invoke and #executionFinished together.)        *)
Announced(c) ==
    tx = "publishing" /\ \E i \in DOMAIN hooks : hooks[i] = [kind |-> "enqueue", call |-> c]
Owed(c) == c \in waiting \/ c \in taken \/ Announced(c)
Listed(c) == c \in page \/ (more /\ AfterCursor(c))

NoRowForgotten ==
    \A c \in Calls : committed[c] = "pending" /\ ~stopped =>
        /\ phase = "recovering" => Owed(c) \/ Listed(c)
        /\ phase = "dispatching" => Owed(c)

(* No call overtakes an older one that waits for one of the same locks,     *)
(* whoever frees them and whichever call the dispatcher is called for.      *)
NoLeapfrog ==
    [][\A c \in taken' \ taken, d \in waiting' : Overlap(c, d) => ~Older(d, c)]_vars

(* A call is run at most once by one process, though the callback of its    *)
(* transaction and recovery may both enqueue it, and recovery from a page   *)
(* read long before: a failed completion is not retried until a restart.    *)
OncePerProcess ==
    [][\A c \in Calls : run[c] # "launched" /\ run'[c] = "launched" => c \notin taken]_vars

(* Stored state goes with its row in the transaction that settles the call; *)
(* only a write that was already queued when the call was cancelled stays   *)
(* behind (README, section 6).                                              *)
StateErased ==
    \A c \in committedState : committed[c] \in {"pending", "cancelled"}

(* The same, as README.md states it: "Completion and cancellation erase the *)
(* entire scope with the call row".                                         *)
StateErasedAlways == \A c \in committedState : committed[c] = "pending"

(* A call whose cancellation was published before its executor began never  *)
(* begins (cancel: "without invoking any handler").                         *)
CancelledNeverBegins ==
    [][\A c \in Calls :
        run[c] = "launched" /\ run'[c] = "executing" /\ committed[c] = "cancelled"
            => tx = "publishing"]_vars

(* What holds all of this together, as the proofs use it.                   *)
Running == {c \in Calls : run[c] # "idle"}

(* #heldLockKeys are the keys of the running calls, which share none; what  *)
(* waits does not run, and is in one order.                                 *)
LocksInv ==
    /\ waiting \cap Running = {}
    /\ \A c, d \in waiting : c # d => c \in ahead[d] \/ d \in ahead[c]
    /\ heldLockKeys = UNION {LockKeysOf[c] : c \in Running}
    /\ \A c, d \in Running : c # d => ~Overlap(c, d)

(* What a process has in hand is of its own definitions, and runs only when *)
(* recovery has ended.                                                      *)
ProcessInv ==
    /\ Running \subseteq taken /\ waiting \cap taken = {}
    /\ phase # "dispatching" => taken = {}
    /\ phase = "down" => tx = "none" /\ waiting = {}
    /\ page # {} => phase = "recovering"
    /\ waiting \cup taken \subseteq registered

(* What a call's row has become, where the dispatcher still counts on it.   *)
Live == {"pending", "cancelled"}
Rewritten(c) ==
    \/ status[c] = committed[c]
    \/ committed[c] = "none" /\ status[c] \in Live
    \/ committed[c] = "pending" /\ status[c] = "cancelled"
    \/ c \in owner
RowsInv ==
    /\ \A c \in taken : committed[c] # "none"
    /\ \A c \in waiting \cup page : committed[c] \in Live
    /\ \A c \in Calls : run[c] \in {"launched", "executing", "writing", "returned", "threw"}
                        => committed[c] \in Live
    /\ \A c \in Calls : c \in owner <=> run[c] = "completing"
    /\ \A c, d \in owner : c = d
    /\ \A c \in owner : status[c] = "succeeded" /\ (tx = "open" => committed[c] = "pending")
    /\ tx = "open" => \A c \in Calls : Rewritten(c)
    /\ \A c \in state : status[c] \in Live
    /\ \A c \in Calls : status[c] # "none" => sequence[c] >= 1

(* A callback hands over a call once, and each new row has its callback.    *)
HooksInv ==
    /\ \A i \in DOMAIN hooks :
          LET c == hooks[i].call
          IN  /\ hooks[i].kind = "enqueue" =>
                    c \in registered \ (waiting \cup taken \cup page) /\ status[c] # "none"
              /\ hooks[i].kind = "cancel" => status[c] = "cancelled"
    /\ \A i, j \in DOMAIN hooks :
          hooks[i].kind = "enqueue" /\ hooks[i] = hooks[j] => i = j
    /\ tx = "open" => \A c \in Calls :
          committed[c] = "none" /\ status[c] = "pending" =>
              \E i \in DOMAIN hooks : hooks[i] = [kind |-> "enqueue", call |-> c]

DurableInv ==
    TypeOK /\ LocksInv /\ ProcessInv /\ RowsInv /\ HooksInv /\ StateErased /\ NoRowForgotten

(* The promise of DurableWork is kept.                                      *)
Work(c) ==
    CASE run[c] \in {"executing", "writing"} -> "running"
      [] run[c] = "returned" \/ (run[c] = "completing" /\ tx = "open") -> "returned"
      [] run[c] = "threw" -> "threw"
      [] OTHER -> "none"

WorkNow == [c \in Calls |-> Work(c)]

Promise == INSTANCE DurableWork WITH status <- committed, work <- WorkNow

KeepsItsPromise == Promise!Spec

(* When processes have ceased to end, each committed call settles at last,  *)
(* unless the module is stopped or the call's completion failed in this     *)
(* process, which leaves it to the next.                                    *)
LeftBehind(c) == c \in taken /\ run[c] = "idle"

EveryCallSettles ==
    <>[](\A c \in Calls : committed[c] = "pending" => stopped \/ LeftBehind(c))
=============================================================================
