----------------------- MODULE DurableFunctions_proofs -----------------------
(***************************************************************************)
(* Proofs about DurableFunctions, for any calls, lock keys, clocks, batch  *)
(* sizes and bounds: DurableInv is inductive, so that no row is forgotten  *)
(* and stored state goes with its row; no call overtakes an older one or   *)
(* runs twice in a process; the module implements DurableWork; and the     *)
(* loop of the dispatcher takes what Runnable says.                        *)
(***************************************************************************)
EXTENDS DurableFunctions, TLAPS, WellFoundedInduction

(* The variables of the dispatcher are of their types. *)
DispatchOK ==
    /\ waiting \in SUBSET Calls /\ aborted \in SUBSET Calls /\ taken \in SUBSET Calls
    /\ ahead \in [Calls -> SUBSET Calls] /\ run \in [Calls -> RunStages]
    /\ heldLockKeys \in SUBSET LockKeys
-----------------------------------------------------------------------------
(* Types. *)

(* Taking runnable calls leaves the dispatcher's variables in their types. *)
LEMMA TakeType ==
    ASSUME NEW queue \in SUBSET Calls, NEW order \in [Calls -> SUBSET Calls],
           NEW held \in SUBSET LockKeys, NEW calls \in [Calls -> RunStages],
           taken \in SUBSET Calls, TakeRunnable(queue, order, held, calls),
           aborted' \in SUBSET Calls
    PROVE  DispatchOK'
  BY DurableFunctionsAssumption DEF TakeRunnable, Runnable, RunStages, DispatchOK

(* So does a call that is enqueued. *)
LEMMA EnqueueType ==
    ASSUME DispatchOK, NEW c \in Calls, Enqueue(c)
    PROVE  DispatchOK'
  <1>1. waiting \cup {c} \in SUBSET Calls
    BY DEF DispatchOK
  <1>2. [ahead EXCEPT ![c] = waiting] \in [Calls -> SUBSET Calls]
    BY DEF DispatchOK
  <1>3. CASE TakeRunnable(waiting \cup {c}, [ahead EXCEPT ![c] = waiting], heldLockKeys, run)
             /\ UNCHANGED aborted
    BY <1>1, <1>2, <1>3, TakeType DEF DispatchOK
  <1>4. CASE UNCHANGED dispatchVars
    BY <1>4 DEF dispatchVars, DispatchOK
  <1>5. CASE /\ waiting' = waiting \cup {c} /\ ahead' = [ahead EXCEPT ![c] = waiting]
             /\ UNCHANGED <<run, heldLockKeys, aborted, taken>>
    BY <1>1, <1>2, <1>5 DEF DispatchOK
  <1> QED
    BY <1>3, <1>4, <1>5 DEF Enqueue

(* Every step preserves the types. *)
LEMMA TypesKept ==
    ASSUME TypeOK, [Next]_vars
    PROVE  TypeOK'
  <1> USE DEF TypeOK, rowVars, txVars, processVars, dispatchVars, budgetVars
  <1>a. DispatchOK
    BY DEF DispatchOK
  <1>b. status \in [Calls -> Fates] /\ committed \in [Calls -> Fates]
    OBVIOUS
  <1>1. CASE OpenTransaction
    BY <1>1 DEF OpenTransaction, Open
  <1>2. ASSUME NEW c \in Calls, Invoke(c) PROVE TypeOK'
    BY <1>2 DEF Invoke, InTransaction, Hook, Fates
  <1>3. ASSUME NEW c \in Calls, Cancel(c) PROVE TypeOK'
    BY <1>3 DEF Cancel, InTransaction, Delete, Hook, Fates
  <1>4. CASE Commit
    BY <1>4 DEF Commit
  <1>4a. CASE EndPublication
    <2>1. run' \in [Calls -> RunStages] /\ hooks' = <<>>
      BY <1>4a DEF EndPublication, Release, RunStages
    <2> QED
      BY <1>4a, <2>1 DEF EndPublication, Release
  <1>5. CASE Rollback
    <2>1. run' \in [Calls -> RunStages] /\ hooks' = <<>>
      BY <1>5 DEF Rollback, Release, RunStages
    <2>2. sequence' \in [Calls -> Nat]
      BY <1>5 DEF Rollback, Restore
    <2>3. status' = committed /\ state' = committedState
      BY <1>5 DEF Rollback, Restore
    <2> QED
      BY <1>5, <1>b, <2>1, <2>2, <2>3 DEF Rollback, Release
  <1>6. CASE Publish
    <2>1. hooks # <<>> /\ Head(hooks) \in Hook /\ Tail(hooks) \in Seq(Hook)
      BY <1>6 DEF Publish
    <2>2. Head(hooks).call \in Calls
      BY <2>1 DEF Hook
    <2>3. DispatchOK'
      <3>1. CASE Enqueue(Head(hooks).call)
        BY <1>a, <2>2, <3>1, EnqueueType
      <3>2. CASE CancelDispatch(Head(hooks).call)
        BY <2>2, <3>2 DEF CancelDispatch, Unwait, DispatchOK
      <3>3. CASE UNCHANGED dispatchVars
        BY <3>3 DEF DispatchOK
      <3> QED
        BY <1>6, <3>1, <3>2, <3>3 DEF Publish
    <2> QED
      BY <1>6, <2>1, <2>3 DEF Publish, DispatchOK
  <1>7. ASSUME NEW c \in Calls, Begin(c) \/ CheckState(c) \/ ExecutorEnds(c) \/ CompleteNothing(c)
        PROVE TypeOK'
    <2>1. run' \in [Calls -> RunStages]
      BY <1>7 DEF Begin, CheckState, ExecutorEnds, CompleteNothing, Become, RunStages
    <2> QED
      BY <1>7, <2>1 DEF Begin, CheckState, ExecutorEnds, CompleteNothing, ExecutionStep
  <1>8. ASSUME NEW c \in Calls, WriteState(c) PROVE TypeOK'
    BY <1>8 DEF WriteState, Become, ExecutionStep, RunStages
  <1>9. ASSUME NEW c \in Calls, Complete(c) PROVE TypeOK'
    BY <1>9 DEF Complete, Open, Delete, Become, ExecutionStep, RunStages, Fates
  <1>10. ASSUME NEW c \in Calls, SettleFailure(c) PROVE TypeOK'
    <2>1. run' \in [Calls -> RunStages]
      BY <1>10 DEF SettleFailure, Become, RunStages
    <2>2. CASE Settle(c, "failed")
      BY <1>10, <1>b, <2>1, <2>2 DEF SettleFailure, ExecutionStep, Settle, Delete, Fates
    <2>3. CASE UNCHANGED <<rowVars, txVars>>
      BY <1>10, <2>1, <2>3 DEF SettleFailure, ExecutionStep
    <2> QED
      BY <1>10, <2>2, <2>3 DEF SettleFailure
  <1>11. ASSUME NEW c \in Calls, Finish(c) PROVE TypeOK'
    <2>1. [run EXCEPT ![c] = "idle"] \in [Calls -> RunStages]
      BY DEF RunStages
    <2>2. heldLockKeys \ LockKeysOf[c] \in SUBSET LockKeys /\ aborted \ {c} \in SUBSET Calls
      OBVIOUS
    <2>3. DispatchOK'
      <3>1. CASE TakeRunnable(waiting, ahead, heldLockKeys \ LockKeysOf[c],
                              [run EXCEPT ![c] = "idle"])
        BY <1>11, <2>1, <2>2, <3>1, TakeType DEF Finish
      <3>2. CASE stopped
        BY <1>11, <2>1, <2>2, <3>2 DEF Finish, DispatchOK
      <3> QED
        BY <1>11, <3>1, <3>2 DEF Finish
    <2> QED
      BY <1>11, <2>3 DEF Finish, DispatchOK
  <1>12. CASE Boot
    <2>1. registered' \in SUBSET Calls
      BY <1>12, DurableFunctionsAssumption DEF Boot
    <2>2. phase' = "booted" /\ UNCHANGED <<rowVars, txVars, stopped, page, more, cursor,
                                          dispatchVars, budgetVars>>
      BY <1>12 DEF Boot
    <2> QED
      BY <2>1, <2>2
  <1>13. CASE BeforeStart \/ AfterStart
    <2>1. cursor' \in [createdAt : Nat, sequence : Nat]
      BY <1>13 DEF BeforeStart, AfterStart, Start0
    <2> QED
      BY <1>13, <2>1 DEF BeforeStart, AfterStart
  <1>14. CASE ListCalls
    <2>1. page' \in SUBSET Calls /\ more' \in BOOLEAN /\ cursor' \in [createdAt : Nat, sequence : Nat]
      BY <1>14, DurableFunctionsAssumption DEF ListCalls, Pending
    <2> QED
      BY <1>14, <2>1 DEF ListCalls
  <1>15. ASSUME NEW c \in Calls, DiscardCall(c) PROVE TypeOK'
    <2>1. CASE Settle(c, "discarded")
      BY <1>15, <1>b, <2>1 DEF DiscardCall, Settle, Delete, Fates
    <2>2. CASE UNCHANGED <<rowVars, txVars>>
      BY <1>15, <2>2 DEF DiscardCall
    <2> QED
      BY <1>15, <2>1, <2>2 DEF DiscardCall
  <1>16. ASSUME NEW c \in Calls, RecoverCall(c) PROVE TypeOK'
    <2>1. DispatchOK'
      BY <1>16, <1>a, EnqueueType DEF RecoverCall
    <2> QED
      BY <1>16, <2>1 DEF RecoverCall, DispatchOK
  <1>17. CASE StartDispatch
    <2>1. DispatchOK'
      BY <1>17, TakeType DEF StartDispatch
    <2> QED
      BY <1>17, <2>1 DEF StartDispatch, DispatchOK, Start0
  <1>18. CASE Stop
    BY <1>18 DEF Stop
  <1>19. CASE ProcessEnds
    <2>1. run' \in [Calls -> RunStages] /\ cursor' \in [createdAt : Nat, sequence : Nat]
      BY <1>19 DEF ProcessEnds, Start0, RunStages
    <2>2. ahead' \in [Calls -> SUBSET Calls] /\ sequence' \in [Calls -> Nat]
      BY <1>19 DEF ProcessEnds, Restore
    <2>3. hooks' \in Seq(Hook) /\ hooks' = <<>> /\ ends' \in Nat
      BY <1>19 DEF ProcessEnds
    <2>4. status' = committed /\ state' = committedState
      BY <1>19 DEF ProcessEnds, Restore
    <2> QED
      BY <1>19, <1>b, <2>1, <2>2, <2>3, <2>4 DEF ProcessEnds
  <1>20. CASE UNCHANGED vars
    BY <1>20 DEF vars
  <1> QED
    BY <1>1, <1>2, <1>3, <1>4, <1>4a, <1>5, <1>6, <1>7, <1>8, <1>9, <1>10, <1>11, <1>12, <1>13,
       <1>14, <1>15, <1>16, <1>17, <1>18, <1>19, <1>20
    DEF Next, TransactionStep, CallStep, Recovery, Rest
-----------------------------------------------------------------------------
(* The dispatcher's queue and locks. *)

(* Whatever their clocks say, two calls of one queue come in some order.   *)
LEMMA SomeOrder ==
    ASSUME NEW order, NEW c \in Calls, NEW d \in Calls, c \in order[d] \/ d \in order[c]
    PROVE  Precedes(c, d, order) \/ Precedes(d, c, order)
  BY DEF Precedes

(* What TakeRunnable does to each call. *)
LEMMA TakeEffect ==
    ASSUME NEW queue \in SUBSET Calls, NEW order, NEW held, NEW calls,
           TakeRunnable(queue, order, held, calls)
    PROVE  /\ waiting' \subseteq queue
           /\ taken' = taken \cup (queue \ waiting')
           /\ \A c \in Calls :
                run'[c] = IF c \in queue \ waiting' THEN "launched" ELSE calls[c]
           /\ queue \ waiting' = Runnable(queue, order, held)
  <1>1. Runnable(queue, order, held) \subseteq queue
    BY DEF Runnable
  <1> QED
    BY <1>1 DEF TakeRunnable

(* Taking calls that may run beside those that do keeps the locks apart:   *)
(* of two calls that want one lock only the first is taken.                *)
LEMMA TakeLocks ==
    ASSUME NEW queue \in SUBSET Calls, NEW order \in [Calls -> SUBSET Calls],
           NEW held \in SUBSET LockKeys, NEW calls \in [Calls -> RunStages],
           \A c \in queue : calls[c] = "idle",
           \A c, d \in queue : c # d => c \in order[d] \/ d \in order[c],
           held = UNION {LockKeysOf[c] : c \in {d \in Calls : calls[d] # "idle"}},
           \A c, d \in Calls : c # d /\ calls[c] # "idle" /\ calls[d] # "idle" => ~Overlap(c, d),
           TakeRunnable(queue, order, held, calls)
    PROVE  LocksInv'
  <1> DEFINE starts == Runnable(queue, order, held)
  <1>1. /\ waiting' = queue \ starts /\ starts \subseteq queue
        /\ heldLockKeys' = held \cup UNION {LockKeysOf[c] : c \in starts}
        /\ \A c \in Calls : run'[c] = IF c \in starts THEN "launched" ELSE calls[c]
        /\ \A c \in waiting' : ahead'[c] = order[c] \cap waiting'
    BY DEF TakeRunnable, Runnable
  <1>2. \A c \in starts : LockKeysOf[c] \cap held = {}
    BY DEF Runnable
  <1>3. \A c, d \in starts : c # d => ~Overlap(c, d)
    <2> SUFFICES ASSUME NEW c \in starts, NEW d \in starts, c # d
                 PROVE  ~Overlap(c, d)
      OBVIOUS
    <2>1. c \in queue /\ d \in queue
      BY <1>1
    <2>2. Precedes(c, d, order) \/ Precedes(d, c, order)
      BY <2>1, SomeOrder
    <2> QED
      BY <2>1, <2>2 DEF Runnable, Overlap
  <1> HIDE DEF starts
  <1>4. Running' = {c \in Calls : calls[c] # "idle"} \cup starts
    BY <1>1 DEF Running
  <1>5. (waiting \cap Running = {})'
    BY <1>1, <1>4
  <1>6. heldLockKeys' = UNION {LockKeysOf[c] : c \in Running'}
    BY <1>1, <1>4
  <1>7. \A c, d \in Running' : c # d => ~Overlap(c, d)
    <2> SUFFICES ASSUME NEW c \in Running', NEW d \in Running', c # d
                 PROVE  ~Overlap(c, d)
      OBVIOUS
    <2>1. \A x \in Running' \ starts : x \in Calls /\ calls[x] # "idle" /\ LockKeysOf[x] \subseteq held
      BY <1>4
    <2>2. CASE c \in starts /\ d \in starts
      BY <1>3, <2>2
    <2>3. CASE c \in starts /\ d \notin starts
      BY <1>2, <2>1, <2>3 DEF Overlap
    <2>4. CASE c \notin starts /\ d \in starts
      BY <1>2, <2>1, <2>4 DEF Overlap
    <2>5. CASE c \notin starts /\ d \notin starts
      BY <2>1, <2>5
    <2> QED
      BY <2>2, <2>3, <2>4, <2>5
  <1>8. \A c, d \in waiting' : c # d => c \in ahead'[d] \/ d \in ahead'[c]
    BY <1>1
  <1> QED
    BY <1>5, <1>6, <1>7, <1>8 DEF LocksInv, Overlap

(* A step after which the same calls run and wait keeps them too.          *)
LEMMA LocksSame ==
    ASSUME LocksInv, UNCHANGED <<waiting, ahead, heldLockKeys>>,
           \A c \in Calls : run'[c] = "idle" <=> run[c] = "idle"
    PROVE  LocksInv'
  <1>1. Running' = Running
    BY DEF Running
  <1> QED
    BY <1>1 DEF LocksInv, Overlap

(* A call that is enqueued comes after those that wait.                    *)
LEMMA EnqueueLocks ==
    ASSUME DispatchOK, LocksInv, NEW c \in Calls, Enqueue(c)
    PROVE  LocksInv'
  <1> DEFINE queue == waiting \cup {c}
  <1> DEFINE order == [ahead EXCEPT ![c] = waiting]
  <1>1. CASE UNCHANGED dispatchVars
    BY <1>1, LocksSame DEF dispatchVars
  <1>2. ASSUME ~Known(c)
        PROVE  /\ queue \in SUBSET Calls /\ order \in [Calls -> SUBSET Calls]
               /\ \A d \in queue : run[d] = "idle"
               /\ \A x, y \in queue : x # y => x \in order[y] \/ y \in order[x]
    BY <1>2 DEF Known, LocksInv, Running, DispatchOK
  <1>3. CASE ~Known(c) /\ TakeRunnable(queue, order, heldLockKeys, run)
    <2>1. /\ heldLockKeys = UNION {LockKeysOf[d] : d \in {x \in Calls : run[x] # "idle"}}
          /\ \A x, y \in Calls : x # y /\ run[x] # "idle" /\ run[y] # "idle" => ~Overlap(x, y)
      BY DEF LocksInv, Running
    <2>2. run \in [Calls -> RunStages] /\ heldLockKeys \in SUBSET LockKeys
      BY DEF DispatchOK
    <2> HIDE DEF queue, order
    <2> QED
      BY <1>2, <1>3, <2>1, <2>2, TakeLocks
  <1>4. CASE ~Known(c) /\ waiting' = queue /\ ahead' = order /\ UNCHANGED <<run, heldLockKeys>>
    <2>1. Running' = Running
      BY <1>4 DEF Running
    <2> QED
      BY <1>2, <1>4, <2>1 DEF LocksInv, Running, Overlap
  <1> QED
    BY <1>1, <1>3, <1>4 DEF Enqueue

(* Every step keeps the running calls' locks apart and the queue in order. *)
LEMMA LocksKept ==
    ASSUME DurableInv, [Next]_vars
    PROVE  LocksInv'
  <1> USE DEF rowVars, txVars, processVars, dispatchVars, budgetVars
  <1>a. TypeOK /\ LocksInv /\ RowsInv
    BY DEF DurableInv
  <1>b. DispatchOK /\ hooks \in Seq(Hook)
    BY <1>a DEF TypeOK, DispatchOK
  <1>1. CASE \/ OpenTransaction \/ Commit \/ Boot \/ BeforeStart \/ AfterStart \/ ListCalls
             \/ \E c \in Calls : Invoke(c) \/ Cancel(c) \/ DiscardCall(c)
    BY <1>1, <1>a, LocksSame
    DEF OpenTransaction, Commit, Boot, BeforeStart, AfterStart, ListCalls, Invoke, Cancel, DiscardCall
  <1>2. CASE Rollback \/ EndPublication
    <2>1. \A c \in Calls : run'[c] = IF c \in owner THEN "finishing" ELSE run[c]
      BY <1>2 DEF Rollback, EndPublication, Release
    <2>2. \A c \in owner : run[c] = "completing"
      BY <1>a DEF RowsInv, TypeOK
    <2>3. UNCHANGED <<waiting, ahead, heldLockKeys>>
      BY <1>2 DEF Rollback, EndPublication, Release
    <2> QED
      BY <1>a, <2>1, <2>2, <2>3, LocksSame
  <1>3. CASE Publish
    <2>1. Head(hooks).call \in Calls
      <3>1. Head(hooks) \in Hook
        BY <1>3, <1>b DEF Publish
      <3> QED
        BY <3>1 DEF Hook
    <2>2. CASE Enqueue(Head(hooks).call)
      BY <1>a, <1>b, <2>1, <2>2, EnqueueLocks
    <2>3. CASE CancelDispatch(Head(hooks).call)
      <3>1. Running' = Running
        BY <2>3 DEF CancelDispatch, Running
      <3> QED
        BY <1>a, <2>3, <3>1 DEF CancelDispatch, Unwait, LocksInv, Overlap, TypeOK
    <2>4. CASE UNCHANGED dispatchVars
      BY <1>a, <2>4, LocksSame
    <2> QED
      BY <1>3, <2>2, <2>3, <2>4 DEF Publish
  <1>4. ASSUME NEW c \in Calls,
               \/ Begin(c) \/ CheckState(c) \/ WriteState(c) \/ ExecutorEnds(c)
               \/ Complete(c) \/ CompleteNothing(c) \/ SettleFailure(c)
        PROVE  LocksInv'
    <2>1. PICK stage \in RunStages \ {"idle"} : Become(c, stage)
      BY <1>4 DEF Begin, CheckState, WriteState, ExecutorEnds, Complete, CompleteNothing,
                  SettleFailure, RunStages
    <2>2. run[c] # "idle"
      BY <1>4 DEF Begin, CheckState, WriteState, ExecutorEnds, Complete, CompleteNothing,
                  SettleFailure
    <2>3. \A d \in Calls : run'[d] = "idle" <=> run[d] = "idle"
      BY <1>b, <2>1, <2>2 DEF Become, DispatchOK
    <2>4. UNCHANGED <<waiting, ahead, heldLockKeys>>
      BY <1>4 DEF Begin, CheckState, WriteState, ExecutorEnds, Complete, CompleteNothing,
                  SettleFailure, ExecutionStep
    <2> QED
      BY <1>a, <2>3, <2>4, LocksSame
  <1>5. ASSUME NEW c \in Calls, Finish(c) PROVE LocksInv'
    <2> DEFINE calls == [run EXCEPT ![c] = "idle"]
    <2> DEFINE held == heldLockKeys \ LockKeysOf[c]
    <2>1. /\ calls \in [Calls -> RunStages] /\ held \in SUBSET LockKeys
          /\ {d \in Calls : calls[d] # "idle"} = Running \ {c}
          /\ \A d \in waiting : calls[d] = "idle"
      BY <1>a, <1>b DEF DispatchOK, LocksInv, Running, RunStages
    <2>2. held = UNION {LockKeysOf[d] : d \in Running \ {c}}
      BY <1>a, <1>5 DEF Finish, LocksInv, Running, Overlap
    <2>3. \A x, y \in Running \ {c} : x # y => ~Overlap(x, y)
      BY <1>a DEF LocksInv
    <2>4. CASE TakeRunnable(waiting, ahead, held, calls)
      <3>1. /\ waiting \in SUBSET Calls /\ ahead \in [Calls -> SUBSET Calls]
            /\ \A x, y \in waiting : x # y => x \in ahead[y] \/ y \in ahead[x]
        BY <1>a, <1>b DEF DispatchOK, LocksInv
      <3>2. \A x, y \in Calls : x # y /\ calls[x] # "idle" /\ calls[y] # "idle" => ~Overlap(x, y)
        <4> HIDE DEF calls
        <4> QED BY <2>1, <2>3
      <3>3. held = UNION {LockKeysOf[d] : d \in {x \in Calls : calls[x] # "idle"}}
        BY <2>1, <2>2
      <3> HIDE DEF calls, held
      <3> QED
        BY <2>1, <2>4, <3>1, <3>2, <3>3, TakeLocks
    <2>5. CASE run' = calls /\ heldLockKeys' = held /\ UNCHANGED <<waiting, ahead>>
      <3>1. Running' = Running \ {c}
        BY <2>1, <2>5 DEF Running
      <3> QED
        BY <1>a, <2>2, <2>3, <2>5, <3>1 DEF LocksInv, Overlap
    <2> QED
      BY <1>5, <2>4, <2>5 DEF Finish
  <1>6. ASSUME NEW c \in Calls, RecoverCall(c) PROVE LocksInv'
    BY <1>a, <1>b, <1>6, EnqueueLocks DEF RecoverCall
  <1>7. CASE StartDispatch
    <2>1. TakeRunnable(waiting, ahead, heldLockKeys, run)
      BY <1>7 DEF StartDispatch
    <2>2. /\ \A c \in waiting : run[c] = "idle"
          /\ \A c, d \in waiting : c # d => c \in ahead[d] \/ d \in ahead[c]
          /\ heldLockKeys = UNION {LockKeysOf[c] : c \in {d \in Calls : run[d] # "idle"}}
          /\ \A c, d \in Calls : c # d /\ run[c] # "idle" /\ run[d] # "idle" => ~Overlap(c, d)
      BY <1>a, <1>b DEF LocksInv, Running, DispatchOK
    <2> QED
      BY <1>b, <2>1, <2>2, TakeLocks, ZenonT(60) DEF DispatchOK
  <1>8. CASE Stop
    <2>1. Running' = Running
      BY <1>8 DEF Stop, Running
    <2> QED
      BY <1>a, <1>8, <2>1 DEF Stop, LocksInv, Overlap
  <1>9. CASE ProcessEnds
    <2>1. Running' = {} /\ waiting' = {} /\ heldLockKeys' = {}
      BY <1>9 DEF ProcessEnds, Running
    <2> QED
      BY <2>1 DEF LocksInv
  <1>10. CASE UNCHANGED vars
    BY <1>a, <1>10, LocksSame DEF vars
  <1> QED
    BY <1>1, <1>2, <1>3, <1>4, <1>5, <1>6, <1>7, <1>8, <1>9, <1>10
    DEF Next, TransactionStep, CallStep, Recovery, Rest
-----------------------------------------------------------------------------
(* What a process has in hand. *)

(* The call of the next callback is a call. *)
LEMMA HeadCall ==
    ASSUME TypeOK, hooks # <<>>
    PROVE  /\ Head(hooks) \in Hook /\ Head(hooks).call \in Calls
           /\ 1 \in DOMAIN hooks /\ Head(hooks) = hooks[1]
  <1>1. hooks \in Seq(Hook)
    BY DEF TypeOK
  <1>2. Head(hooks) \in Hook /\ 1 \in DOMAIN hooks /\ Head(hooks) = hooks[1]
    BY <1>1
  <1> QED
    BY <1>2 DEF Hook

(* A call that is enqueued waits or is taken, and nothing else enters.     *)
LEMMA EnqueueEffect ==
    ASSUME DispatchOK, NEW c \in Calls, Enqueue(c)
    PROVE  /\ taken \subseteq taken' /\ waiting \subseteq waiting' \cup taken'
           /\ waiting' \subseteq waiting \cup {c}
           /\ taken' \subseteq taken \cup waiting \cup {c}
           /\ waiting \cap taken = {} /\ c \notin taken => waiting' \cap taken' = {}
           /\ \A d \in Calls : run'[d] = run[d] \/ (run'[d] = "launched" /\ d \in taken'
                                                     /\ d \in waiting \cup {c})
           /\ phase # "dispatching" => taken' = taken /\ run' = run
           /\ stopped \/ run[c] # "idle" \/ c \in waiting' \cup taken'
  <1> DEFINE queue == waiting \cup {c}
  <1> DEFINE order == [ahead EXCEPT ![c] = waiting]
  <1>1. CASE TakeRunnable(queue, order, heldLockKeys, run) /\ phase = "dispatching"
    <2>1. queue \in SUBSET Calls
      BY DEF DispatchOK
    <2>2. /\ waiting' \subseteq queue /\ taken' = taken \cup (queue \ waiting')
          /\ \A d \in Calls : run'[d] = IF d \in queue \ waiting' THEN "launched" ELSE run[d]
      <3> HIDE DEF queue, order
      <3> QED BY <1>1, <2>1, TakeEffect
    <2> QED
      BY <1>1, <2>2
  <1>2. CASE UNCHANGED dispatchVars /\ Known(c)
    BY <1>2 DEF dispatchVars, Known
  <1>3. CASE waiting' = queue /\ UNCHANGED <<run, taken>>
    BY <1>3
  <1> QED
    BY <1>1, <1>2, <1>3 DEF Enqueue

(* A call that runs was taken, by a dispatcher that recovery had set free. *)
LEMMA RunningCalls ==
    ASSUME DurableInv, NEW c \in Calls, run[c] # "idle"
    PROVE  /\ c \in taken /\ c \in registered /\ c \notin waiting
           /\ phase = "dispatching" /\ page = {}
  BY DEF DurableInv, ProcessInv, LocksInv, Running

(* Every step preserves what is said of the process. *)
LEMMA ProcessKept ==
    ASSUME DurableInv, [Next]_vars
    PROVE  ProcessInv'
  <1> USE DEF rowVars, txVars, processVars, dispatchVars, budgetVars
  <1>a. TypeOK /\ ProcessInv /\ HooksInv /\ RowsInv
    BY DEF DurableInv
  <1>b. DispatchOK
    BY <1>a DEF TypeOK, DispatchOK
  <1>1. CASE OpenTransaction \/ Commit \/ BeforeStart \/ AfterStart
             \/ \E c \in Calls : Invoke(c) \/ Cancel(c)
    BY <1>1, <1>a DEF OpenTransaction, Open, Commit, BeforeStart, AfterStart, Invoke, Cancel,
                      InTransaction, ProcessInv, Running
  <1>2. CASE Boot
    <2>1. taken = {} /\ waiting = {} /\ page = {} /\ Running = {}
      BY <1>a, <1>2 DEF Boot, ProcessInv
    <2> QED
      BY <1>2, <2>1 DEF Boot, ProcessInv, Running
  <1>3. CASE Rollback \/ EndPublication
    <2>1. \A c \in Calls : run'[c] # "idle" => run[c] # "idle"
      BY <1>3, <1>a DEF Rollback, EndPublication, Release, RowsInv
    <2>2. /\ UNCHANGED <<waiting, taken, phase, page, registered>> /\ tx' = "none"
      BY <1>3 DEF Rollback, EndPublication, Release
    <2> QED
      BY <1>a, <2>1, <2>2 DEF ProcessInv, Running
  <1>4. CASE Publish
    <2> DEFINE c == Head(hooks).call
    <2>1. c \in Calls /\ UNCHANGED <<tx, phase, registered, page>> /\ tx = "publishing"
      BY <1>4, <1>a, HeadCall DEF Publish
    <2>2. CASE Enqueue(c) /\ Head(hooks).kind = "enqueue"
      <3>1. c \in registered /\ c \notin taken
        BY <1>4, <1>a, <2>2, HeadCall DEF Publish, HooksInv
      <3> HIDE DEF c
      <3> QED
        BY <1>a, <1>b, <2>1, <2>2, <3>1, EnqueueEffect DEF ProcessInv, Running
    <2>3. CASE CancelDispatch(c)
      BY <1>a, <2>1, <2>3 DEF CancelDispatch, Unwait, ProcessInv, Running
    <2>4. CASE UNCHANGED dispatchVars
      BY <1>a, <2>1, <2>4 DEF ProcessInv, Running
    <2> QED
      BY <1>4, <2>2, <2>3, <2>4 DEF Publish
  <1>5. ASSUME NEW c \in Calls,
               \/ Begin(c) \/ CheckState(c) \/ WriteState(c) \/ ExecutorEnds(c)
               \/ Complete(c) \/ CompleteNothing(c) \/ SettleFailure(c)
        PROVE  ProcessInv'
    <2>1. PICK stage \in RunStages : Become(c, stage)
      BY <1>5 DEF Begin, CheckState, WriteState, ExecutorEnds, Complete, CompleteNothing,
                  SettleFailure, RunStages
    <2>2. run[c] # "idle"
      BY <1>5 DEF Begin, CheckState, WriteState, ExecutorEnds, Complete, CompleteNothing,
                  SettleFailure
    <2>3. \A d \in Calls : run'[d] # "idle" => run[d] # "idle"
      BY <1>b, <2>1, <2>2 DEF Become, DispatchOK
    <2>4. UNCHANGED <<waiting, taken, phase, page, registered>>
      BY <1>5 DEF Begin, CheckState, WriteState, ExecutorEnds, Complete, CompleteNothing,
                  SettleFailure, ExecutionStep
    <2> QED
      BY <1>a, <2>2, <2>3, <2>4, RunningCalls DEF ProcessInv, Running
  <1>6. ASSUME NEW c \in Calls, Finish(c) PROVE ProcessInv'
    <2>1. UNCHANGED <<phase, page, registered, tx>> /\ phase = "dispatching"
      BY <1>6, RunningCalls DEF Finish
    <2> DEFINE calls == [run EXCEPT ![c] = "idle"]
    <2> DEFINE held == heldLockKeys \ LockKeysOf[c]
    <2>2. \A d \in Calls : calls[d] # "idle" => run[d] # "idle"
      BY <1>b DEF DispatchOK
    <2>3. CASE TakeRunnable(waiting, ahead, held, calls)
      <3>1. waiting \in SUBSET Calls
        BY <1>b DEF DispatchOK
      <3> HIDE DEF calls, held
      <3>2. /\ waiting' \subseteq waiting /\ taken' = taken \cup (waiting \ waiting')
            /\ \A d \in Calls :
                 run'[d] = IF d \in waiting \ waiting' THEN "launched" ELSE calls[d]
        BY <2>3, <3>1, TakeEffect
      <3> QED
        BY <1>a, <2>1, <2>2, <3>2 DEF ProcessInv, Running
    <2>4. CASE run' = calls /\ UNCHANGED <<waiting, taken>>
      BY <1>a, <2>1, <2>2, <2>4 DEF ProcessInv, Running
    <2> QED
      BY <1>6, <2>3, <2>4 DEF Finish
  <1>7. CASE ListCalls \/ \E c \in Calls : DiscardCall(c)
    BY <1>7, <1>a DEF ListCalls, DiscardCall, NextOfPage, Settle, ProcessInv, Running
  <1>8. ASSUME NEW c \in Calls, RecoverCall(c) PROVE ProcessInv'
    <2>1. phase = "recovering" /\ c \in registered /\ c \notin taken
      BY <1>a, <1>8 DEF RecoverCall, NextOfPage, ProcessInv
    <2>2. Enqueue(c) /\ UNCHANGED <<phase, registered, tx>> /\ page' = page \ {c}
      BY <1>8 DEF RecoverCall
    <2> QED
      BY <1>a, <1>b, <2>1, <2>2, EnqueueEffect DEF ProcessInv, Running
  <1>9. CASE StartDispatch
    <2>1. waiting \in SUBSET Calls
      BY <1>b DEF DispatchOK
    <2>2. TakeRunnable(waiting, ahead, heldLockKeys, run)
      BY <1>9 DEF StartDispatch
    <2>3. /\ waiting' \subseteq waiting /\ taken' = taken \cup (waiting \ waiting')
          /\ \A d \in Calls : run'[d] = IF d \in waiting \ waiting' THEN "launched" ELSE run[d]
      BY <2>1, <2>2, TakeEffect
    <2> QED
      BY <1>a, <1>9, <2>3 DEF StartDispatch, ProcessInv, Running
  <1>10. CASE Stop
    BY <1>a, <1>10 DEF Stop, ProcessInv, Running
  <1>11. CASE ProcessEnds
    <2>1. Running' = {}
      BY <1>11 DEF ProcessEnds, Running
    <2> QED
      BY <1>11, <2>1 DEF ProcessEnds, ProcessInv
  <1>12. CASE UNCHANGED vars
    BY <1>a, <1>12 DEF vars, ProcessInv, Running
  <1> QED
    BY <1>1, <1>2, <1>3, <1>4, <1>5, <1>6, <1>7, <1>8, <1>9, <1>10, <1>11, <1>12
    DEF Next, TransactionStep, CallStep, Recovery, Rest
-----------------------------------------------------------------------------
(* What became of the rows. *)

(* Outside a transaction the rows are the committed ones; in it a row that *)
(* exists is never unmade.                                                 *)
LEMMA RowFacts ==
    ASSUME DurableInv, NEW c \in Calls
    PROVE  /\ tx # "open" => status[c] = committed[c]
           /\ committed[c] # "none" => status[c] # "none"
           /\ status[c] \in Live => c \notin owner
           /\ status[c] \in Live => committed[c] \in Live \cup {"none"}
  BY DEF DurableInv, TypeOK, RowsInv, Rewritten, Live

(* A step that leaves the rows and the calls in hand as they were, and     *)
(* moves calls only to stages their rows allow, preserves RowsInv.         *)
LEMMA RowsSame ==
    ASSUME RowsInv, UNCHANGED <<status, sequence, state, committed, owner>>,
           tx' = tx \/ tx' # "open",
           \A c \in taken' : committed[c] # "none",
           \A c \in waiting' \cup page' : committed[c] \in Live,
           \A c \in Calls :
              \/ run'[c] = run[c]
              \/ run'[c] # "completing" /\ run[c] # "completing"
                 /\ (run'[c] \in {"idle", "finishing"} \/ committed[c] \in Live)
    PROVE  RowsInv'
  <1>1. \A c \in Calls : run'[c] = "completing" <=> run[c] = "completing"
    OBVIOUS
  <1>2. \A c \in Calls : run'[c] \in {"launched", "executing", "writing", "returned", "threw"}
                         => committed[c] \in Live
    BY DEF RowsInv
  <1> QED
    BY <1>1, <1>2 DEF RowsInv, Rewritten

(* Every step preserves what is said of the rows. *)
LEMMA RowsKept ==
    ASSUME DurableInv, [Next]_vars
    PROVE  RowsInv'
  <1> USE DEF rowVars, txVars, processVars, dispatchVars, budgetVars
  <1>a. TypeOK /\ ProcessInv /\ HooksInv /\ RowsInv /\ StateErased /\ LocksInv
    BY DEF DurableInv
  <1>b. /\ DispatchOK /\ status \in [Calls -> Fates] /\ committed \in [Calls -> Fates]
        /\ sequence \in [Calls -> Nat]
    BY <1>a DEF TypeOK, DispatchOK
  <1>c. \A c \in Calls : committed[c] \in Live => committed[c] # "none"
    BY DEF Live
  <1>d. tx = "none" => owner = {}
    BY <1>a DEF TypeOK
  <1>1. CASE OpenTransaction
    BY <1>1, <1>a, <1>d DEF OpenTransaction, Open, RowsInv, Rewritten, TypeOK
  <1>2. ASSUME NEW c \in Calls, Invoke(c) PROVE RowsInv'
    <2>1. status[c] = "none" /\ committed[c] = "none"
      BY <1>2, RowFacts DEF Invoke
    <2>2. PICK n \in 1..MaxRowid : sequence' = [sequence EXCEPT ![c] = n]
      BY <1>2 DEF Invoke
    <2>3. sequence'[c] >= 1 /\ \A d \in Calls \ {c} : sequence'[d] = sequence[d]
      BY <1>b, <2>2, DurableFunctionsAssumption
    <2>4. status'[c] = "pending" /\ \A d \in Calls \ {c} : status'[d] = status[d]
      BY <1>2, <1>b DEF Invoke
    <2>5. c \notin owner /\ c \notin state
      BY <1>a, <1>2, <2>1 DEF RowsInv, Invoke, InTransaction, Live
    <2>6. UNCHANGED <<state, tx, owner, committed, run, waiting, page, taken>>
      BY <1>2 DEF Invoke
    <2>7. state \in SUBSET Calls /\ owner \in SUBSET Calls
      BY <1>a DEF TypeOK
    <2> QED
      BY <1>a, <2>1, <2>3, <2>4, <2>5, <2>6, <2>7 DEF RowsInv, Rewritten, Live
  <1>3. ASSUME NEW c \in Calls, Cancel(c) PROVE RowsInv'
    <2>1. status[c] = "pending" /\ c \notin owner
      BY <1>3, RowFacts DEF Cancel, Live
    <2>2. status'[c] = "cancelled" /\ \A d \in Calls \ {c} : status'[d] = status[d]
      BY <1>3, <1>b DEF Cancel, Delete
    <2>3. UNCHANGED <<tx, owner, committed, sequence, run, waiting, page, taken>>
          /\ state' = state \ {c}
      BY <1>3 DEF Cancel, Delete
    <2>4. state \in SUBSET Calls /\ owner \in SUBSET Calls
      BY <1>a DEF TypeOK
    <2>5. committed[c] \in {"pending", "none"}
      BY <1>a, <1>3, <2>1 DEF RowsInv, Rewritten, Cancel, InTransaction, Live
    <2> QED
      BY <1>a, <2>1, <2>2, <2>3, <2>4, <2>5 DEF RowsInv, Rewritten, Live
  <1>4. CASE Commit
    <2>1. /\ UNCHANGED <<status, sequence, state, owner, run, waiting, page, taken>>
          /\ committed' = status /\ tx' = "publishing"
      BY <1>4 DEF Commit
    <2>2. ASSUME NEW c \in Calls, c \notin owner
          PROVE  committed[c] \in Live => status[c] \in Live
      BY <1>4, <1>a, <2>2 DEF Commit, RowsInv, Rewritten, Live
    <2>3. \A c \in waiting \cup page : c \notin owner
      BY <1>a, RunningCalls DEF RowsInv, TypeOK
    <2>4. \A c \in taken : status[c] # "none"
      BY <1>a, RowFacts DEF RowsInv, TypeOK
    <2>5. \A c \in Calls : run[c] \in {"launched", "executing", "writing", "returned", "threw"}
                           => c \notin owner /\ committed[c] \in Live
      BY <1>a DEF RowsInv
    <2>6. waiting \in SUBSET Calls /\ page \in SUBSET Calls
      BY <1>a DEF TypeOK
    <2> QED
      BY <1>a, <2>1, <2>2, <2>3, <2>4, <2>5, <2>6 DEF RowsInv
  <1>5. CASE Rollback \/ EndPublication
    <2>1. /\ tx' = "none" /\ owner' = {} /\ UNCHANGED <<committed, waiting, page, taken>>
          /\ \A c \in Calls : run'[c] = IF c \in owner THEN "finishing" ELSE run[c]
      BY <1>5 DEF Rollback, EndPublication, Release
    <2>2. \A c \in Calls : run'[c] # "completing"
      BY <1>a, <2>1 DEF RowsInv
    <2>3. CASE Rollback
      <3>1. status' = committed /\ state' = committedState
        BY <2>3 DEF Rollback, Restore
      <3>2. \A c \in Calls : committed[c] # "none" => sequence'[c] >= 1
        BY <1>a, <2>3, RowFacts DEF Rollback, Restore, RowsInv
      <3>3. \A c \in state' : committed[c] \in Live
        BY <1>a, <3>1 DEF StateErased, Live
      <3> QED
        BY <1>a, <2>1, <2>2, <3>1, <3>2, <3>3 DEF RowsInv
    <2>4. CASE EndPublication
      BY <1>a, <2>1, <2>2, <2>4 DEF RowsInv, EndPublication
    <2> QED
      BY <1>5, <2>3, <2>4
  <1>6. CASE Publish
    <2> DEFINE c == Head(hooks).call
    <2>1. /\ c \in Calls /\ tx = "publishing"
          /\ UNCHANGED <<status, sequence, state, committed, owner, tx, page>>
      BY <1>6, <1>a, HeadCall DEF Publish
    <2>2. CASE Enqueue(c) /\ c \in Pending
      <3>1. committed[c] \in Live
        BY <2>1, <2>2, RowFacts DEF Pending, Live
      <3>2. \A d \in waiting \cup {c} : committed[d] \in Live
        BY <1>a, <3>1 DEF RowsInv
      <3> HIDE DEF c
      <3>3. /\ taken' \subseteq taken \cup waiting \cup {c} /\ waiting' \subseteq waiting \cup {c}
            /\ \A d \in Calls : run'[d] = run[d] \/ (run'[d] = "launched" /\ d \in waiting \cup {c})
        BY <1>b, <2>1, <2>2, EnqueueEffect
      <3>4. \A d \in waiting : run[d] = "idle"
        BY <1>a, <1>b DEF LocksInv, Running, DispatchOK
      <3>5. run[c] # "completing"
        BY <1>a, <2>1, <2>2 DEF RowsInv, Pending
      <3>6. \A d \in taken' : committed[d] # "none"
        BY <1>a, <1>c, <3>2, <3>3, <1>b DEF RowsInv, DispatchOK, Live
      <3>7. \A d \in waiting' \cup page' : committed[d] \in Live
        BY <1>a, <2>1, <3>2, <3>3 DEF RowsInv
      <3>8. \A d \in Calls :
                \/ run'[d] = run[d]
                \/ run'[d] # "completing" /\ run[d] # "completing"
                   /\ (run'[d] \in {"idle", "finishing"} \/ committed[d] \in Live)
        BY <3>2, <3>3, <3>4, <3>5
      <3> QED
        BY <1>a, <2>1, <3>6, <3>7, <3>8, RowsSame
    <2>3. CASE CancelDispatch(c)
      BY <1>a, <2>1, <2>3 DEF CancelDispatch, Unwait, RowsInv, Rewritten
    <2>4. CASE UNCHANGED dispatchVars
      BY <1>a, <2>1, <2>4 DEF RowsInv, Rewritten
    <2> QED
      BY <1>6, <2>2, <2>3, <2>4 DEF Publish
  <1>7. ASSUME NEW c \in Calls,
               Begin(c) \/ CheckState(c) \/ ExecutorEnds(c) \/ CompleteNothing(c)
        PROVE  RowsInv'
    <2>1. PICK stage \in {"executing", "writing", "returned", "threw", "finishing"} :
             Become(c, stage)
      BY <1>7 DEF Begin, CheckState, ExecutorEnds, CompleteNothing
    <2>2. /\ UNCHANGED <<status, sequence, state, committed, owner, tx, waiting, page, taken>>
          /\ run[c] \in {"launched", "executing", "writing", "returned", "threw"}
      BY <1>7 DEF Begin, CheckState, ExecutorEnds, CompleteNothing, ExecutionStep
    <2>3. run'[c] = stage /\ \A d \in Calls \ {c} : run'[d] = run[d]
      BY <1>b, <2>1 DEF Become, DispatchOK
    <2>4. committed[c] \in Live
      BY <1>a, <2>2 DEF RowsInv
    <2> QED
      BY <1>a, <2>1, <2>2, <2>3, <2>4 DEF RowsInv, Rewritten
  <1>8. ASSUME NEW c \in Calls, WriteState(c) PROVE RowsInv'
    <2>1. /\ UNCHANGED <<status, sequence, committed, owner, tx, waiting, page, taken>>
          /\ run[c] = "writing" /\ state' = state \cup {c} /\ tx = "none"
      BY <1>8 DEF WriteState, ExecutionStep
    <2>2. run'[c] = "executing" /\ \A d \in Calls \ {c} : run'[d] = run[d]
      BY <1>8, <1>b DEF WriteState, Become, DispatchOK
    <2>3. committed[c] \in Live /\ status[c] \in Live
      BY <1>a, <2>1, RowFacts DEF RowsInv
    <2> QED
      BY <1>a, <2>1, <2>2, <2>3 DEF RowsInv, Rewritten
  <1>9. ASSUME NEW c \in Calls, Complete(c) PROVE RowsInv'
    <2>1. /\ UNCHANGED <<sequence, committed, waiting, page, taken>>
          /\ tx = "none" /\ tx' = "open" /\ owner' = {c} /\ state' = state \ {c}
          /\ status[c] = "pending"
      BY <1>9 DEF Complete, Open, Delete, ExecutionStep, Pending
    <2>2. run'[c] = "completing" /\ \A d \in Calls \ {c} : run'[d] = run[d]
      BY <1>9, <1>b DEF Complete, Become, DispatchOK
    <2>3. status'[c] = "succeeded" /\ \A d \in Calls \ {c} : status'[d] = status[d]
      BY <1>9, <1>b DEF Complete, Delete
    <2>4. \A d \in Calls : committed[d] = status[d] /\ run[d] # "completing"
      BY <1>a, <1>d, <2>1, RowFacts DEF RowsInv
    <2>5. state \in SUBSET Calls
      BY <1>a DEF TypeOK
    <2> QED
      BY <1>a, <2>1, <2>2, <2>3, <2>4, <2>5 DEF RowsInv, Rewritten
  <1>10. ASSUME NEW c \in Calls, SettleFailure(c) PROVE RowsInv'
    <2>1. /\ UNCHANGED <<sequence, tx, owner, waiting, page, taken>>
          /\ tx = "none" /\ run[c] = "threw"
      BY <1>10 DEF SettleFailure, Settle, Delete, ExecutionStep
    <2>2. run'[c] = "finishing" /\ \A d \in Calls \ {c} : run'[d] = run[d]
      BY <1>10, <1>b DEF SettleFailure, Become, DispatchOK
    <2>3. c \notin waiting /\ c \notin page
      BY <2>1, RunningCalls
    <2>4. CASE Settle(c, "failed")
      <3>1. /\ status'[c] = "failed" /\ \A d \in Calls \ {c} : status'[d] = status[d]
            /\ committed' = status' /\ state' = state \ {c}
        BY <1>b, <2>4 DEF Settle, Delete
      <3>2. \A d \in Calls : committed[d] = status[d]
        BY <2>1, RowFacts
      <3>3. state \in SUBSET Calls /\ DispatchOK /\ page \in SUBSET Calls
        BY <1>a, <1>b DEF TypeOK
      <3>4. committed[c] # "none"
        BY <1>a, <1>c, <2>1 DEF RowsInv
      <3> QED
        BY <1>a, <1>d, <2>1, <2>2, <2>3, <3>1, <3>2, <3>3, <3>4 DEF RowsInv, DispatchOK, Rewritten
    <2>5. CASE UNCHANGED <<rowVars, txVars>>
      BY <1>a, <1>d, <2>1, <2>2, <2>5 DEF RowsInv, Rewritten
    <2> QED
      BY <1>10, <2>4, <2>5 DEF SettleFailure
  <1>11. ASSUME NEW c \in Calls, Finish(c) PROVE RowsInv'
    <2> DEFINE calls == [run EXCEPT ![c] = "idle"]
    <2> DEFINE held == heldLockKeys \ LockKeysOf[c]
    <2>1. /\ UNCHANGED <<status, sequence, state, committed, owner, tx, page>>
          /\ run[c] = "finishing"
      BY <1>11 DEF Finish
    <2>2. calls[c] = "idle" /\ \A d \in Calls \ {c} : calls[d] = run[d]
      BY <1>b DEF DispatchOK
    <2>3. waiting \in SUBSET Calls /\ \A d \in waiting : run[d] = "idle" /\ committed[d] \in Live
      BY <1>a, <1>b DEF DispatchOK, LocksInv, Running, RowsInv
    <2>4. CASE TakeRunnable(waiting, ahead, held, calls)
      <3> HIDE DEF calls, held
      <3>1. /\ waiting' \subseteq waiting /\ taken' = taken \cup (waiting \ waiting')
            /\ \A d \in Calls :
                 run'[d] = IF d \in waiting \ waiting' THEN "launched" ELSE calls[d]
        BY <2>3, <2>4, TakeEffect
      <3>2. \A d \in taken' : committed[d] # "none"
        BY <1>a, <1>c, <2>3, <3>1 DEF RowsInv
      <3>3. \A d \in waiting' \cup page' : committed[d] \in Live
        BY <1>a, <2>1, <2>3, <3>1 DEF RowsInv
      <3>4. \A d \in Calls :
                \/ run'[d] = run[d]
                \/ run'[d] # "completing" /\ run[d] # "completing"
                   /\ (run'[d] \in {"idle", "finishing"} \/ committed[d] \in Live)
        BY <2>1, <2>2, <2>3, <3>1
      <3> QED
        BY <1>a, <2>1, <3>2, <3>3, <3>4, RowsSame
    <2>5. CASE run' = calls /\ UNCHANGED <<waiting, taken>>
      BY <1>a, <2>1, <2>2, <2>5 DEF RowsInv, Rewritten
    <2> QED
      BY <1>11, <2>4, <2>5 DEF Finish
  <1>12. CASE Boot \/ BeforeStart \/ AfterStart \/ Stop
    BY <1>a, <1>12 DEF Boot, BeforeStart, AfterStart, Stop, RowsInv, Rewritten
  <1>13. CASE ListCalls
    <2>1. \A c \in page' : committed[c] \in Live
      BY <1>13, RowFacts DEF ListCalls, Pending, Live
    <2> QED
      BY <1>a, <1>13, <2>1 DEF ListCalls, RowsInv, Rewritten
  <1>14. ASSUME NEW c \in Calls, DiscardCall(c) PROVE RowsInv'
    <2>1. /\ UNCHANGED <<sequence, tx, owner, waiting, taken, run>> /\ page' = page \ {c}
          /\ tx = "none" /\ c \in page /\ c \notin registered
      BY <1>14 DEF DiscardCall, NextOfPage, Settle, Delete
    <2>2. taken = {} /\ c \notin waiting /\ \A d \in Calls : run[d] = "idle"
      BY <1>a, <2>1 DEF ProcessInv, Running
    <2>3. CASE Settle(c, "discarded")
      <3>1. /\ status'[c] = "discarded" /\ \A d \in Calls \ {c} : status'[d] = status[d]
            /\ committed' = status' /\ state' = state \ {c}
        BY <1>b, <2>3 DEF Settle, Delete
      <3>2. \A d \in Calls : committed[d] = status[d]
        BY <2>1, RowFacts
      <3>3. state \in SUBSET Calls /\ DispatchOK /\ page \in SUBSET Calls
        BY <1>a, <1>b DEF TypeOK
      <3>4. committed[c] # "none"
        BY <1>a, <1>c, <2>1, <3>3 DEF RowsInv
      <3> QED
        BY <1>a, <1>d, <2>1, <2>2, <3>1, <3>2, <3>3, <3>4 DEF RowsInv, DispatchOK, Rewritten
    <2>4. CASE UNCHANGED <<rowVars, txVars>>
      BY <1>a, <2>1, <2>4 DEF RowsInv, Rewritten
    <2> QED
      BY <1>14, <2>3, <2>4 DEF DiscardCall
  <1>15. ASSUME NEW c \in Calls, RecoverCall(c) PROVE RowsInv'
    <2>1. /\ UNCHANGED <<status, sequence, state, committed, owner, tx>> /\ page' = page \ {c}
          /\ Enqueue(c) /\ c \in page /\ phase = "recovering"
      BY <1>a, <1>15 DEF RecoverCall, NextOfPage, ProcessInv
    <2>2. taken' = taken /\ run' = run /\ waiting' \subseteq waiting \cup {c}
      BY <1>b, <2>1, EnqueueEffect
    <2> QED
      BY <1>a, <2>1, <2>2 DEF RowsInv, Rewritten
  <1>16. CASE StartDispatch
    <2>1. /\ UNCHANGED <<status, sequence, state, committed, owner, tx, page>>
          /\ TakeRunnable(waiting, ahead, heldLockKeys, run)
      BY <1>16 DEF StartDispatch
    <2>2. waiting \in SUBSET Calls /\ \A d \in waiting : run[d] = "idle" /\ committed[d] \in Live
      BY <1>a, <1>b DEF DispatchOK, LocksInv, Running, RowsInv
    <2>3. /\ waiting' \subseteq waiting /\ taken' = taken \cup (waiting \ waiting')
          /\ \A d \in Calls : run'[d] = IF d \in waiting \ waiting' THEN "launched" ELSE run[d]
      BY <2>1, <2>2, TakeEffect
    <2>4. \A d \in taken' : committed[d] # "none"
      BY <1>a, <1>c, <2>2, <2>3 DEF RowsInv
    <2>5. \A d \in waiting' \cup page' : committed[d] \in Live
      BY <1>a, <2>1, <2>2, <2>3 DEF RowsInv
    <2>6. \A d \in Calls :
              \/ run'[d] = run[d]
              \/ run'[d] # "completing" /\ run[d] # "completing"
                 /\ (run'[d] \in {"idle", "finishing"} \/ committed[d] \in Live)
      BY <2>2, <2>3
    <2> QED
      BY <1>a, <2>1, <2>4, <2>5, <2>6, RowsSame
  <1>17. CASE ProcessEnds
    <2>1. /\ status' = committed /\ state' = committedState /\ committed' = committed
          /\ tx' = "none" /\ owner' = {} /\ waiting' = {} /\ page' = {} /\ taken' = {}
          /\ \A c \in Calls : run'[c] = "idle"
      BY <1>17 DEF ProcessEnds, Restore
    <2>2. \A c \in Calls : committed[c] # "none" => sequence'[c] >= 1
      BY <1>a, <1>17, RowFacts DEF ProcessEnds, Restore, RowsInv
    <2>3. \A c \in state' : committed[c] \in Live
      BY <1>a, <2>1 DEF StateErased, Live
    <2> QED
      BY <2>1, <2>2, <2>3 DEF RowsInv
  <1>18. CASE UNCHANGED vars
    BY <1>a, <1>18 DEF vars, RowsInv, Rewritten
  <1> QED
    BY <1>1, <1>2, <1>3, <1>4, <1>5, <1>6, <1>7, <1>8, <1>9, <1>10, <1>11, <1>12, <1>13, <1>14,
       <1>15, <1>16, <1>17, <1>18
    DEF Next, TransactionStep, CallStep, Recovery, Rest
-----------------------------------------------------------------------------
(* The after-commit callbacks. *)

(* A step that adds no callback, settles none of the rows they speak of    *)
(* and puts no new call into the dispatcher's hands preserves HooksInv.    *)
LEMMA HooksSame ==
    ASSUME HooksInv, UNCHANGED <<hooks, status, committed, registered>>, tx' = tx \/ tx' # "open",
           waiting' \cup taken' \cup page' \subseteq waiting \cup taken \cup page
    PROVE  HooksInv'
  BY DEF HooksInv

(* Without callbacks there is nothing to say, unless rows are new.         *)
LEMMA NoHooks ==
    ASSUME hooks' = <<>>, tx' = "open" => \A c \in Calls : committed'[c] = "none" => status'[c] # "pending"
    PROVE  HooksInv'
  BY DEF HooksInv

(* One more callback, of a call none of the others hands over.             *)
LEMMA OneMoreHook ==
    ASSUME HooksInv, hooks \in Seq(Hook), NEW h \in Hook, hooks' = Append(hooks, h),
           UNCHANGED <<committed, registered, waiting, taken, page, tx>>,
           \A d \in Calls \ {h.call} : status'[d] = status[d],
           \/ /\ h.kind = "enqueue" /\ status[h.call] = "none" /\ status'[h.call] = "pending"
              /\ h.call \in registered \ (waiting \cup taken \cup page)
           \/ h.kind = "cancel" /\ status[h.call] = "pending" /\ status'[h.call] = "cancelled"
    PROVE  HooksInv'
  <1>1. /\ DOMAIN hooks' = 1..(Len(hooks) + 1) /\ hooks'[Len(hooks) + 1] = h
        /\ \A i \in 1..Len(hooks) : hooks'[i] = hooks[i]
        /\ DOMAIN hooks = 1..Len(hooks) /\ Len(hooks) \in Nat
    OBVIOUS
  <1>2. \A i \in 1..Len(hooks) : hooks[i] \in Hook /\ hooks[i].call \in Calls
                                 /\ hooks[i].kind \in {"enqueue", "cancel"}
    <2>1. \A i \in 1..Len(hooks) : hooks[i] \in Hook
      BY <1>1
    <2> QED
      BY <2>1 DEF Hook
  <1>3. h.call \in Calls /\ h.kind \in {"enqueue", "cancel"} /\ h = [kind |-> h.kind, call |-> h.call]
    BY DEF Hook
  <1>4. ASSUME NEW i \in 1..(Len(hooks) + 1)
        PROVE  /\ hooks'[i].kind = "enqueue" =>
                    /\ hooks'[i].call \in registered \ (waiting \cup taken \cup page)
                    /\ status'[hooks'[i].call] # "none"
               /\ hooks'[i].kind = "cancel" => status'[hooks'[i].call] = "cancelled"
    <2>1. CASE i = Len(hooks) + 1
      BY <1>1, <1>3, <2>1
    <2>2. CASE i \in 1..Len(hooks)
      BY <1>1, <1>2, <2>2 DEF HooksInv
    <2> QED
      BY <1>1, <2>1, <2>2
  <1>5. ASSUME NEW i \in 1..(Len(hooks) + 1), NEW j \in 1..(Len(hooks) + 1),
               hooks'[i].kind = "enqueue", hooks'[i] = hooks'[j]
        PROVE  i = j
    <2>1. \A k \in 1..Len(hooks) : hooks[k].kind = "enqueue" => hooks[k] # h
      BY <1>1, <1>2 DEF HooksInv
    <2>2. CASE i \in 1..Len(hooks) /\ j \in 1..Len(hooks)
      BY <1>1, <1>5, <2>2 DEF HooksInv
    <2>3. CASE i = Len(hooks) + 1 /\ j \in 1..Len(hooks)
      BY <1>1, <1>5, <2>1, <2>3
    <2>4. CASE j = Len(hooks) + 1 /\ i \in 1..Len(hooks)
      BY <1>1, <1>5, <2>1, <2>4
    <2> QED
      BY <1>1, <2>2, <2>3, <2>4
  <1>6. ASSUME tx = "open", NEW d \in Calls, committed[d] = "none", status'[d] = "pending"
        PROVE  \E i \in DOMAIN hooks' : hooks'[i] = [kind |-> "enqueue", call |-> d]
    <2>1. CASE d = h.call
      BY <1>1, <1>3, <1>6, <2>1
    <2>2. CASE d # h.call
      <3>1. PICK i \in 1..Len(hooks) : hooks[i] = [kind |-> "enqueue", call |-> d]
        BY <1>1, <1>6, <2>2 DEF HooksInv
      <3> QED
        BY <1>1, <3>1
    <2> QED
      BY <2>1, <2>2
  <1> QED
    BY <1>1, <1>4, <1>5, <1>6 DEF HooksInv

(* Every step preserves what is said of the callbacks. *)
LEMMA HooksKept ==
    ASSUME DurableInv, [Next]_vars
    PROVE  HooksInv'
  <1> USE DEF rowVars, txVars, processVars, dispatchVars, budgetVars
  <1>a. TypeOK /\ ProcessInv /\ HooksInv /\ RowsInv
    BY DEF DurableInv
  <1>b. DispatchOK /\ hooks \in Seq(Hook) /\ (tx = "none" => hooks = <<>>)
        /\ status \in [Calls -> Fates] /\ page \in SUBSET Calls
    BY <1>a DEF TypeOK, DispatchOK
  <1>1. CASE OpenTransaction
    BY <1>1, NoHooks, RowFacts DEF OpenTransaction, Open
  <1>2. ASSUME NEW c \in Calls, Invoke(c) PROVE HooksInv'
    <2>1. committed[c] = "none" /\ status[c] = "none"
      BY <1>2, RowFacts DEF Invoke
    <2>2. c \in registered \ (waiting \cup taken \cup page)
      BY <1>a, <1>2, <2>1 DEF RowsInv, Invoke, Live
    <2>3. [kind |-> "enqueue", call |-> c] \in Hook
      BY DEF Hook
    <2>4. status'[c] = "pending" /\ \A d \in Calls \ {c} : status'[d] = status[d]
      BY <1>b, <1>2 DEF Invoke
    <2>5. hooks' = Append(hooks, [kind |-> "enqueue", call |-> c])
          /\ UNCHANGED <<committed, registered, waiting, taken, page, tx>>
      BY <1>2 DEF Invoke
    <2> DEFINE h == [kind |-> "enqueue", call |-> c]
    <2>6. h \in Hook /\ h.call = c /\ h.kind = "enqueue" /\ hooks' = Append(hooks, h)
      BY <2>3, <2>5
    <2> HIDE DEF h
    <2> QED
      BY <1>a, <1>b, <2>1, <2>2, <2>4, <2>5, <2>6, OneMoreHook
  <1>3. ASSUME NEW c \in Calls, Cancel(c) PROVE HooksInv'
    <2> DEFINE h == [kind |-> "cancel", call |-> c]
    <2>1. h \in Hook /\ h.call = c /\ h.kind = "cancel" /\ hooks' = Append(hooks, h)
      BY <1>3 DEF Cancel, Hook
    <2>2. status[c] = "pending" /\ status'[c] = "cancelled"
          /\ \A d \in Calls \ {c} : status'[d] = status[d]
      BY <1>b, <1>3 DEF Cancel, Delete
    <2>3. UNCHANGED <<committed, registered, waiting, taken, page, tx>>
      BY <1>3 DEF Cancel
    <2> HIDE DEF h
    <2> QED
      BY <1>a, <1>b, <2>1, <2>2, <2>3, OneMoreHook
  <1>4. CASE Commit
    BY <1>a, <1>4 DEF Commit, HooksInv
  <1>5. CASE Rollback \/ EndPublication \/ ProcessEnds
    BY <1>5, NoHooks DEF Rollback, EndPublication, Release, ProcessEnds
  <1>6. CASE Publish
    <2> DEFINE c == Head(hooks).call
    <2>1. /\ c \in Calls /\ tx = "publishing" /\ hooks # <<>> /\ hooks' = Tail(hooks)
          /\ UNCHANGED <<status, committed, tx, page, registered>>
      BY <1>6, <1>a, HeadCall DEF Publish
    <2>2. /\ DOMAIN hooks = 1..Len(hooks) /\ Len(hooks) \in Nat \ {0}
          /\ DOMAIN hooks' = 1..(Len(hooks) - 1)
          /\ \A i \in 1..(Len(hooks) - 1) : hooks'[i] = hooks[i + 1] /\ i + 1 \in DOMAIN hooks
      BY <1>b, <2>1
    <2>3. ASSUME NEW i \in DOMAIN hooks'
          PROVE  hooks'[i] = hooks[i + 1] /\ i + 1 \in DOMAIN hooks /\ 1 \in DOMAIN hooks
      BY <2>2
    <2>4. \A i, j \in DOMAIN hooks' : i + 1 = j + 1 => i = j
      BY <2>2
    <2>5. ASSUME \A d \in (waiting' \cup taken') \ {c} : d \in waiting \cup taken,
                 Head(hooks).kind # "enqueue" => waiting' \cup taken' \subseteq waiting \cup taken
          PROVE  HooksInv'
      <3>1. ASSUME NEW i \in DOMAIN hooks', hooks'[i].kind = "enqueue"
            PROVE  hooks'[i].call \in registered \ (waiting' \cup taken' \cup page)
        <4>1. hooks[i + 1].call \in registered \ (waiting \cup taken \cup page)
          BY <1>a, <2>3, <3>1 DEF HooksInv
        <4>2. CASE hooks[i + 1].call # c \/ Head(hooks).kind # "enqueue"
          BY <2>3, <2>5, <4>1, <4>2
        <4>3. CASE hooks[i + 1].call = c /\ Head(hooks).kind = "enqueue"
          <5>1. hooks[i + 1] \in Hook /\ hooks[1] \in Hook /\ Head(hooks) = hooks[1]
            BY <1>a, <1>b, <2>1, <2>3, HeadCall
          <5>2. hooks[i + 1] = hooks[1]
            BY <2>3, <3>1, <4>3, <5>1 DEF Hook
          <5> QED
            BY <1>a, <2>2, <2>3, <3>1, <5>2 DEF HooksInv
        <4> QED
          BY <4>2, <4>3
      <3>2. \A i \in DOMAIN hooks' :
               /\ hooks'[i].kind = "enqueue" => status[hooks'[i].call] # "none"
               /\ hooks'[i].kind = "cancel" => status[hooks'[i].call] = "cancelled"
        BY <1>a, <2>3 DEF HooksInv
      <3>3. \A i, j \in DOMAIN hooks' :
               hooks'[i].kind = "enqueue" /\ hooks'[i] = hooks'[j] => i = j
        BY <1>a, <2>3, <2>4 DEF HooksInv
      <3> QED
        BY <2>1, <3>1, <3>2, <3>3 DEF HooksInv
    <2>6. CASE Enqueue(c) /\ Head(hooks).kind = "enqueue"
      <3>1. \A d \in (waiting' \cup taken') \ {c} : d \in waiting \cup taken
        <4> HIDE DEF c
        <4> QED BY <1>b, <2>1, <2>6, EnqueueEffect
      <3> QED
        BY <2>5, <2>6, <3>1
    <2>7. CASE CancelDispatch(c) \/ UNCHANGED dispatchVars
      <3>1. waiting' \cup taken' \subseteq waiting \cup taken
        BY <2>7 DEF CancelDispatch, Unwait
      <3> QED
        BY <2>5, <3>1
    <2> QED
      BY <1>6, <2>6, <2>7 DEF Publish
  <1>7. ASSUME NEW c \in Calls,
               Begin(c) \/ CheckState(c) \/ WriteState(c) \/ ExecutorEnds(c) \/ CompleteNothing(c)
        PROVE  HooksInv'
    BY <1>a, <1>7, HooksSame
    DEF Begin, CheckState, WriteState, ExecutorEnds, CompleteNothing, ExecutionStep
  <1>8. ASSUME NEW c \in Calls, Complete(c) PROVE HooksInv'
    <2>1. \A d \in Calls : committed'[d] = "none" => status'[d] # "pending"
      BY <1>b, <1>8, RowFacts DEF Complete, Delete
    <2> QED
      BY <1>8, <2>1, NoHooks DEF Complete, Open
  <1>9. ASSUME NEW c \in Calls, SettleFailure(c) \/ DiscardCall(c) PROVE HooksInv'
    <2>1. hooks' = <<>> /\ tx' = "none"
      BY <1>b, <1>9 DEF SettleFailure, DiscardCall, Settle
    <2> QED
      BY <2>1, NoHooks
  <1>10. ASSUME NEW c \in Calls, Finish(c) PROVE HooksInv'
    <2> DEFINE calls == [run EXCEPT ![c] = "idle"]
    <2> DEFINE held == heldLockKeys \ LockKeysOf[c]
    <2>1. UNCHANGED <<hooks, status, committed, registered, tx, page>>
      BY <1>10 DEF Finish
    <2>2. CASE TakeRunnable(waiting, ahead, held, calls)
      <3>1. waiting \in SUBSET Calls
        BY <1>b DEF DispatchOK
      <3> HIDE DEF calls, held
      <3>2. waiting' \cup taken' \subseteq waiting \cup taken
        BY <2>2, <3>1, TakeEffect
      <3> QED
        BY <1>a, <2>1, <3>2, HooksSame
    <2>3. CASE UNCHANGED <<waiting, taken>>
      BY <1>a, <2>1, <2>3, HooksSame
    <2> QED
      BY <1>10, <2>2, <2>3 DEF Finish
  <1>11. CASE Boot
    <2>1. hooks' = <<>> /\ tx' = "none"
      BY <1>a, <1>b, <1>11 DEF Boot, ProcessInv
    <2> QED
      BY <2>1, NoHooks
  <1>12. CASE BeforeStart \/ AfterStart \/ Stop
    BY <1>a, <1>12, HooksSame DEF BeforeStart, AfterStart, Stop
  <1>13. CASE ListCalls
    <2>1. hooks' = <<>> /\ tx' = "none"
      BY <1>b, <1>13 DEF ListCalls
    <2> QED
      BY <2>1, NoHooks
  <1>14. ASSUME NEW c \in Calls, RecoverCall(c) PROVE HooksInv'
    <2>1. Enqueue(c) /\ c \in page /\ page' = page \ {c}
          /\ UNCHANGED <<hooks, status, committed, registered, tx>>
      BY <1>14 DEF RecoverCall, NextOfPage
    <2>2. waiting' \subseteq waiting \cup {c} /\ taken' \subseteq taken \cup waiting \cup {c}
      BY <1>b, <2>1, EnqueueEffect
    <2> QED
      BY <1>a, <2>1, <2>2, HooksSame
  <1>15. CASE StartDispatch
    <2>1. waiting \in SUBSET Calls /\ TakeRunnable(waiting, ahead, heldLockKeys, run)
      BY <1>b, <1>15 DEF DispatchOK, StartDispatch
    <2>2. waiting' \cup taken' \subseteq waiting \cup taken
      BY <2>1, TakeEffect
    <2> QED
      BY <1>a, <1>15, <2>2, HooksSame DEF StartDispatch
  <1>16. CASE UNCHANGED vars
    BY <1>a, <1>16, HooksSame DEF vars
  <1> QED
    BY <1>1, <1>2, <1>3, <1>4, <1>5, <1>6, <1>7, <1>8, <1>9, <1>10, <1>11, <1>12, <1>13, <1>14,
       <1>15, <1>16
    DEF Next, TransactionStep, CallStep, Recovery, Rest
-----------------------------------------------------------------------------
(* Stored state, and rows that nobody forgets. *)

(* Whatever is committed together leaves no state without a live row.      *)
LEMMA StateKept ==
    ASSUME DurableInv, [Next]_vars
    PROVE  StateErased'
  <1>1. RowsInv' /\ StateErased /\ TypeOK'
    BY RowsKept, TypesKept DEF DurableInv
  <1>2. \/ UNCHANGED <<committed, committedState>>
        \/ committed' = status' /\ committedState' = state'
    BY TypesKept, ZenonT(60)
    DEF DurableInv, Next, TransactionStep, CallStep, Recovery, Rest, vars, rowVars, txVars,
        OpenTransaction, Commit, Rollback, Publish, EndPublication, Boot, BeforeStart, AfterStart,
        ListCalls, StartDispatch, DiscardCall, RecoverCall, Stop, ProcessEnds, Invoke, Cancel,
        Begin, CheckState, WriteState, ExecutorEnds, Complete, CompleteNothing, SettleFailure,
        Finish, Settle, ExecutionStep, TypeOK
  <1> QED
    BY <1>1, <1>2 DEF RowsInv, StateErased, Live

(* A step of the same stage of the same process forgets nothing if calls   *)
(* that are owed stay owed or settle.                                      *)
LEMMA ForgottenSame ==
    ASSUME NoRowForgotten, UNCHANGED <<phase, stopped, page, more, cursor>>,
           \A c \in Calls : committed'[c] = "pending" =>
              /\ committed[c] = "pending" /\ sequence'[c] = sequence[c]
              /\ Owed(c) => Owed(c)'
    PROVE  NoRowForgotten'
  BY DEF NoRowForgotten, Listed, AfterCursor

(* Every step but those that follow forgets no row. *)
LEMMA ForgottenKept ==
    ASSUME DurableInv, [Next]_vars
    PROVE  NoRowForgotten'
  <1> USE DEF rowVars, txVars, processVars, dispatchVars, budgetVars
  <1>a. TypeOK /\ ProcessInv /\ HooksInv /\ RowsInv /\ NoRowForgotten
    BY DEF DurableInv
  <1>b. DispatchOK /\ hooks \in Seq(Hook)
        /\ status \in [Calls -> Fates] /\ page \in SUBSET Calls /\ sequence \in [Calls -> Nat]
        /\ cursor \in [createdAt : Nat, sequence : Nat] /\ CreatedAt \in [Calls -> Nat]
    BY <1>a, DurableFunctionsAssumption DEF TypeOK, DispatchOK
  <1>1. CASE OpenTransaction \/ \E c \in Calls : Complete(c)
    <2>1. /\ tx = "none" /\ tx' = "open"
          /\ UNCHANGED <<committed, sequence, waiting, taken, phase, stopped, page, more, cursor>>
      BY <1>1 DEF OpenTransaction, Complete, Open, Delete, ExecutionStep
    <2> QED
      BY <1>a, <2>1, ForgottenSame DEF Owed, Announced
  <1>2. ASSUME NEW c \in Calls, Invoke(c) \/ Cancel(c) PROVE NoRowForgotten'
    <2>1. /\ tx = "open"
          /\ UNCHANGED <<tx, committed, waiting, taken, phase, stopped, page, more, cursor>>
      BY <1>2 DEF Invoke, Cancel, InTransaction
    <2>2. \A d \in Calls : committed[d] = "pending" => sequence'[d] = sequence[d]
      BY <1>b, <1>2, RowFacts DEF Invoke, Cancel, Delete
    <2> QED
      BY <1>a, <2>1, <2>2, ForgottenSame DEF Owed, Announced
  <1>3. CASE Commit
    <2>1. /\ tx = "open" /\ tx' = "publishing" /\ committed' = status
          /\ UNCHANGED <<sequence, hooks, waiting, taken, phase, stopped, page, more, cursor>>
      BY <1>3 DEF Commit
    <2>2. ASSUME NEW c \in Calls, status[c] = "pending", ~stopped
          PROVE  /\ phase = "recovering" => Owed(c)' \/ Listed(c)'
                 /\ phase = "dispatching" => Owed(c)'
      <3>1. CASE committed[c] = "pending"
        BY <1>a, <2>1, <2>2, <3>1 DEF NoRowForgotten, Owed, Announced, Listed, AfterCursor
      <3>2. CASE committed[c] = "none"
        BY <1>a, <2>1, <2>2, <3>2 DEF HooksInv, Owed, Announced
      <3>3. committed[c] \in {"pending", "none"}
        BY <1>a, <2>1, <2>2, RowFacts DEF RowsInv, Rewritten, Live
      <3> QED
        BY <3>1, <3>2, <3>3
    <2> QED
      BY <2>1, <2>2 DEF NoRowForgotten
  <1>4. CASE Rollback \/ EndPublication
    <2>1. UNCHANGED <<committed, waiting, taken, phase, stopped, page, more, cursor>>
      BY <1>4 DEF Rollback, EndPublication, Release
    <2>2. \A c \in Calls : ~Announced(c)
      BY <1>4 DEF Rollback, EndPublication, Announced
    <2>3. \A c \in Calls : committed[c] = "pending" => sequence'[c] = sequence[c]
      BY <1>4 DEF Rollback, EndPublication, Restore
    <2> QED
      BY <1>a, <2>1, <2>2, <2>3, ForgottenSame DEF Owed
  <1>5. CASE Publish
    <2> DEFINE c == Head(hooks).call
    <2>1. /\ c \in Calls /\ tx = "publishing" /\ hooks # <<>> /\ hooks' = Tail(hooks)
          /\ Head(hooks) = hooks[1] /\ Head(hooks) \in Hook
          /\ UNCHANGED <<committed, sequence, tx, phase, stopped, page, more, cursor>>
      BY <1>5, <1>a, HeadCall DEF Publish
    <2>2. \A d \in Calls : committed[d] = status[d]
      BY <2>1, RowFacts
    <2>3. ASSUME NEW d \in Calls, Announced(d)
          PROVE  Announced(d)' \/ (d = c /\ Head(hooks).kind = "enqueue")
      <3>1. PICK i \in 1..Len(hooks) : hooks[i] = [kind |-> "enqueue", call |-> d]
        BY <1>b, <2>3 DEF Announced
      <3>2. CASE i = 1
        BY <2>1, <3>1, <3>2
      <3>3. CASE i # 1
        <4>1. i - 1 \in DOMAIN hooks' /\ hooks'[i - 1] = hooks[i]
          BY <1>b, <2>1, <3>3
        <4> QED
          BY <2>1, <3>1, <4>1 DEF Announced
      <3> QED
        BY <3>2, <3>3
    <2>4. CASE Enqueue(c) /\ Head(hooks).kind = "enqueue"
      <3>1. waiting \cup taken \subseteq waiting' \cup taken' /\ (stopped \/ c \in waiting' \cup taken')
        <4>1. run[c] # "idle" => c \in taken
          BY <2>1, RunningCalls
        <4> HIDE DEF c
        <4> QED BY <1>b, <2>1, <2>4, <4>1, EnqueueEffect
      <3> HIDE DEF c
      <3>2. CASE stopped
        BY <2>1, <3>2 DEF NoRowForgotten
      <3>3. CASE ~stopped
        BY <1>a, <2>1, <2>3, <3>1, <3>3, ForgottenSame DEF Owed
      <3> QED
        BY <3>2, <3>3
    <2>5. CASE CancelDispatch(c) /\ Head(hooks).kind = "cancel"
      <3>1. committed[c] = "cancelled"
        BY <1>b, <1>a, <2>1, <2>2, <2>5, HeadCall DEF HooksInv
      <3>2. waiting' = waiting \ {c} /\ taken' = taken
        BY <2>5 DEF CancelDispatch, Unwait
      <3> HIDE DEF c
      <3> QED
        BY <1>a, <2>1, <2>3, <2>5, <3>1, <3>2, ForgottenSame DEF Owed
    <2>6. CASE UNCHANGED dispatchVars /\ phase \in {"down", "booted"}
      BY <2>1, <2>6 DEF NoRowForgotten
    <2>7. CASE UNCHANGED dispatchVars /\ Head(hooks).kind = "enqueue" /\ c \notin Pending
      <3>1. committed[c] # "pending"
        BY <2>1, <2>2, <2>7 DEF Pending
      <3> HIDE DEF c
      <3> QED
        BY <1>a, <2>1, <2>3, <2>7, <3>1, ForgottenSame DEF Owed
    <2> QED
      BY <1>5, <2>4, <2>5, <2>6, <2>7 DEF Publish
  <1>6. ASSUME NEW c \in Calls,
               Begin(c) \/ CheckState(c) \/ WriteState(c) \/ ExecutorEnds(c) \/ CompleteNothing(c)
        PROVE  NoRowForgotten'
    BY <1>a, <1>6, ForgottenSame
    DEF Begin, CheckState, WriteState, ExecutorEnds, CompleteNothing, ExecutionStep, Owed, Announced
  <1>7. ASSUME NEW c \in Calls, SettleFailure(c) PROVE NoRowForgotten'
    <2>1. /\ UNCHANGED <<tx, hooks, sequence, waiting, taken, phase, stopped, page, more, cursor>>
          /\ tx = "none"
      BY <1>7 DEF SettleFailure, Settle, Delete, ExecutionStep
    <2>2. \A d \in Calls : committed'[d] = "pending" => committed[d] = "pending"
      BY <1>b, <1>7, <2>1, RowFacts DEF SettleFailure, Settle, Delete
    <2> QED
      BY <1>a, <2>1, <2>2, ForgottenSame DEF Owed, Announced
  <1>8. ASSUME NEW c \in Calls, Finish(c) PROVE NoRowForgotten'
    <2> DEFINE calls == [run EXCEPT ![c] = "idle"]
    <2> DEFINE held == heldLockKeys \ LockKeysOf[c]
    <2>1. UNCHANGED <<tx, hooks, committed, sequence, phase, stopped, page, more, cursor>>
      BY <1>8 DEF Finish
    <2>2. CASE TakeRunnable(waiting, ahead, held, calls)
      <3>1. waiting \in SUBSET Calls
        BY <1>b DEF DispatchOK
      <3> HIDE DEF calls, held
      <3>2. waiting \cup taken \subseteq waiting' \cup taken'
        BY <2>2, <3>1, TakeEffect
      <3> QED
        BY <1>a, <2>1, <3>2, ForgottenSame DEF Owed, Announced
    <2>3. CASE UNCHANGED <<waiting, taken>>
      BY <1>a, <2>1, <2>3, ForgottenSame DEF Owed, Announced
    <2> QED
      BY <1>8, <2>2, <2>3 DEF Finish
  <1>9. CASE Boot \/ BeforeStart \/ ProcessEnds \/ Stop
    BY <1>9 DEF Boot, BeforeStart, ProcessEnds, Stop, NoRowForgotten
  <1>10. CASE AfterStart
    <2>1. \A c \in Calls : committed[c] = "pending" => sequence[c] \in Nat /\ sequence[c] >= 1
      BY <1>a, <1>b, RowFacts DEF RowsInv
    <2>2. cursor' = [createdAt |-> 0, sequence |-> 0] /\ more' /\ phase' = "recovering"
          /\ UNCHANGED <<committed, sequence>>
      BY <1>10 DEF AfterStart, Start0
    <2>3. \A c \in Calls : committed[c] = "pending" => Listed(c)'
      BY <1>b, <2>1, <2>2 DEF Listed, AfterCursor
    <2> QED
      BY <2>2, <2>3 DEF NoRowForgotten
  <1>11. CASE ListCalls
    <2>1. /\ phase = "recovering" /\ page = {} /\ more /\ tx = "none"
          /\ UNCHANGED <<tx, hooks, committed, sequence, waiting, taken, phase, stopped>>
      BY <1>11 DEF ListCalls
    <2>2. PICK p \in SUBSET Pending :
             /\ NextPage(p) /\ page' = p /\ more' = (Cardinality(p) = RecoveryBatch)
             /\ \/ p = {} /\ UNCHANGED cursor
                \/ \E last \in p :
                      /\ \A d \in p \ {last} : Older(d, last)
                      /\ cursor' = [createdAt |-> CreatedAt[last], sequence |-> sequence[last]]
      BY <1>11 DEF ListCalls
    <2>3. \A d \in Calls : committed[d] = status[d]
      BY <2>1, RowFacts
    <2>4. ASSUME NEW c \in Calls, committed[c] = "pending", Listed(c)
          PROVE  Listed(c)'
      <3>1. c \in Pending /\ AfterCursor(c)
        BY <2>1, <2>3, <2>4 DEF Pending, Listed
      <3>2. CASE c \in p
        BY <2>2, <3>2 DEF Listed
      <3>3. CASE c \notin p
        <4>1. more'
          <5>1. Cardinality(p) \in 0..RecoveryBatch /\ ~(Cardinality(p) < RecoveryBatch)
            BY <2>2, <3>1, <3>3 DEF NextPage
          <5>2. \A n \in 0..RecoveryBatch : ~(n < RecoveryBatch) => n = RecoveryBatch
            BY DurableFunctionsAssumption
          <5> QED
            BY <2>2, <5>1, <5>2
        <4>2. CASE p = {} /\ UNCHANGED cursor
          BY <2>1, <3>1, <4>1, <4>2 DEF Listed, AfterCursor
        <4>3. CASE \E last \in p :
                      cursor' = [createdAt |-> CreatedAt[last], sequence |-> sequence[last]]
          <5>1. PICK last \in p :
                   cursor' = [createdAt |-> CreatedAt[last], sequence |-> sequence[last]]
            BY <4>3
          <5>2. Older(last, c)
            BY <2>2, <3>1, <3>3, DurableFunctionsAssumption DEF NextPage
          <5> QED
            BY <2>1, <4>1, <5>1, <5>2 DEF Older, Listed, AfterCursor
        <4> QED
          BY <2>2, <4>2, <4>3
      <3> QED
        BY <3>2, <3>3
    <2> QED
      BY <1>a, <2>1, <2>4 DEF NoRowForgotten, Owed, Announced
  <1>12. ASSUME NEW c \in Calls, DiscardCall(c) PROVE NoRowForgotten'
    <2>1. /\ UNCHANGED <<tx, hooks, sequence, waiting, taken, phase, stopped, more, cursor>>
          /\ tx = "none" /\ page' = page \ {c}
      BY <1>12 DEF DiscardCall, Settle, Delete
    <2>2. /\ committed'[c] # "pending"
          /\ \A d \in Calls : committed'[d] = "pending" => committed[d] = "pending"
      BY <1>b, <1>12, <2>1, RowFacts DEF DiscardCall, Settle, Delete, Pending
    <2> QED
      BY <1>a, <2>1, <2>2 DEF NoRowForgotten, Owed, Announced, Listed, AfterCursor
  <1>13. ASSUME NEW c \in Calls, RecoverCall(c) PROVE NoRowForgotten'
    <2>1. /\ UNCHANGED <<tx, hooks, committed, sequence, phase, stopped, more, cursor>>
          /\ Enqueue(c) /\ page' = page \ {c} /\ phase = "recovering"
      BY <1>a, <1>13 DEF RecoverCall, NextOfPage, ProcessInv
    <2>2. waiting \cup taken \subseteq waiting' \cup taken' /\ (stopped \/ c \in waiting' \cup taken')
      BY <1>b, <2>1, EnqueueEffect, RunningCalls
    <2> QED
      BY <1>a, <2>1, <2>2 DEF NoRowForgotten, Owed, Announced, Listed, AfterCursor
  <1>14. CASE StartDispatch
    <2>1. /\ UNCHANGED <<tx, hooks, committed, stopped>> /\ waiting \in SUBSET Calls
          /\ TakeRunnable(waiting, ahead, heldLockKeys, run)
          /\ phase = "recovering" /\ page = {} /\ ~more /\ phase' = "dispatching"
      BY <1>b, <1>14 DEF StartDispatch, DispatchOK
    <2>2. waiting \cup taken \subseteq waiting' \cup taken'
      BY <2>1, TakeEffect
    <2> QED
      BY <1>a, <2>1, <2>2 DEF NoRowForgotten, Owed, Announced, Listed
  <1>15. CASE UNCHANGED vars
    BY <1>a, <1>15 DEF vars, NoRowForgotten, Owed, Announced, Listed, AfterCursor
  <1> QED
    BY <1>1, <1>2, <1>3, <1>4, <1>5, <1>6, <1>7, <1>8, <1>9, <1>10, <1>11, <1>12, <1>13, <1>14,
       <1>15
    DEF Next, TransactionStep, CallStep, Recovery, Rest

(* In the initial state nothing is in hand. *)
LEMMA InitHolds ==
    Init => DurableInv
  <1> SUFFICES ASSUME Init PROVE DurableInv
    OBVIOUS
  <1> USE DEF Init
  <1>1. TypeOK
    <2>1. /\ status \in [Calls -> Fates] /\ committed \in [Calls -> Fates]
          /\ sequence \in [Calls -> Nat] /\ run \in [Calls -> RunStages]
          /\ ahead \in [Calls -> SUBSET Calls]
      BY DEF Fates, RunStages
    <2>2. hooks \in Seq(Hook) /\ cursor \in [createdAt : Nat, sequence : Nat]
      BY DEF Start0
    <2> QED
      BY <2>1, <2>2 DEF TypeOK
  <1>2. Running = {}
    BY DEF Running
  <1>3. LocksInv /\ ProcessInv
    BY <1>2 DEF LocksInv, ProcessInv
  <1>4. RowsInv /\ HooksInv /\ StateErased /\ NoRowForgotten
    BY DEF RowsInv, HooksInv, StateErased, NoRowForgotten
  <1> QED
    BY <1>1, <1>3, <1>4 DEF DurableInv

(* The invariant of the module, for any calls, locks, clocks and bounds.   *)
THEOREM DurableCorrect == Spec => []DurableInv
  <1>1. DurableInv /\ [Next]_vars => DurableInv'
    BY TypesKept, LocksKept, ProcessKept, RowsKept, HooksKept, StateKept, ForgottenKept
    DEF DurableInv
  <1> QED
    BY <1>1, InitHolds, PTL DEF Spec

(* Every variable stays within its type. *)
THEOREM DurableTypes == Spec => []TypeOK
  <1>1. DurableInv => TypeOK
    BY DEF DurableInv
  <1> QED
    BY <1>1, DurableCorrect, PTL

(* A committed row waits, runs, was tried, is announced or is yet to be    *)
(* listed, through any crash, stop and interleaving of recovery with       *)
(* callers (#recoverPending, invoke's callback and #executionFinished).    *)
THEOREM RowsRemembered == Spec => []NoRowForgotten
  <1>1. DurableInv => NoRowForgotten
    BY DEF DurableInv
  <1> QED
    BY <1>1, DurableCorrect, PTL

(* Only calls that live or were cancelled have stored state.               *)
THEOREM StateGoesWithRow == Spec => []StateErased
  <1>1. DurableInv => StateErased
    BY DEF DurableInv
  <1> QED
    BY <1>1, DurableCorrect, PTL
-----------------------------------------------------------------------------
(* Action properties. *)

(* Calls are taken by TakeRunnable alone, from what waits and, in #enqueue,*)
(* the new call.                                                           *)
LEMMA TakenBy ==
    ASSUME DurableInv, [Next]_vars
    PROVE  \/ taken' \subseteq taken
                /\ \A c \in Calls : run'[c] = "launched" => run[c] = "launched"
           \/ \E queue \in SUBSET Calls : \E order, held, calls :
                /\ TakeRunnable(queue, order, held, calls) /\ queue \cap taken = {}
                /\ UNCHANGED sequence
                /\ \A c \in Calls : calls[c] = "launched" => run[c] = "launched"
  <1> USE DEF rowVars, txVars, processVars, dispatchVars, budgetVars
  <1>a. TypeOK /\ ProcessInv /\ HooksInv /\ DispatchOK
    BY DEF DurableInv, TypeOK, DispatchOK
  <1>b. waiting \in SUBSET Calls /\ waiting \cap taken = {}
    BY <1>a DEF ProcessInv, DispatchOK
  <1>1. CASE \/ OpenTransaction \/ Commit \/ Boot \/ BeforeStart \/ AfterStart \/ ListCalls \/ Stop
             \/ \E c \in Calls : Invoke(c) \/ Cancel(c) \/ DiscardCall(c)
    BY <1>1 DEF OpenTransaction, Commit, Boot, BeforeStart, AfterStart, ListCalls, Invoke, Cancel,
                DiscardCall, Stop
  <1>2. CASE Rollback \/ EndPublication \/ ProcessEnds
    BY <1>2 DEF Rollback, EndPublication, Release, ProcessEnds
  <1>3. ASSUME NEW c \in Calls,
               \/ Begin(c) \/ CheckState(c) \/ WriteState(c) \/ ExecutorEnds(c)
               \/ Complete(c) \/ CompleteNothing(c) \/ SettleFailure(c)
        PROVE  taken' \subseteq taken
               /\ \A d \in Calls : run'[d] = "launched" => run[d] = "launched"
    <2>1. PICK stage \in RunStages \ {"launched"} : Become(c, stage)
      BY <1>3 DEF Begin, CheckState, WriteState, ExecutorEnds, Complete, CompleteNothing,
                  SettleFailure, RunStages
    <2>2. \A d \in Calls : run'[d] = "launched" => run[d] = "launched"
      BY <1>a, <2>1 DEF Become, DispatchOK
    <2> QED
      BY <1>3, <2>2 DEF Begin, CheckState, WriteState, ExecutorEnds, Complete, CompleteNothing,
                  SettleFailure, ExecutionStep
  <1>4. ASSUME NEW c \in Calls, Finish(c)
        PROVE  \/ taken' \subseteq taken
                    /\ \A d \in Calls : run'[d] = "launched" => run[d] = "launched"
               \/ \E order, held, calls :
                    /\ TakeRunnable(waiting, order, held, calls) /\ UNCHANGED sequence
                    /\ \A d \in Calls : calls[d] = "launched" => run[d] = "launched"
    <2> DEFINE calls == [run EXCEPT ![c] = "idle"]
    <2> DEFINE held == heldLockKeys \ LockKeysOf[c]
    <2>1. \A d \in Calls : calls[d] = "launched" => run[d] = "launched"
      BY <1>a DEF DispatchOK
    <2>2. \/ TakeRunnable(waiting, ahead, held, calls) /\ UNCHANGED sequence
          \/ taken' = taken /\ run' = calls
      BY <1>4 DEF Finish
    <2> HIDE DEF calls, held
    <2> QED
      BY <2>1, <2>2
  <1>5. ASSUME NEW c \in Calls, Enqueue(c), c \notin taken, UNCHANGED sequence
        PROVE  \/ taken' \subseteq taken
                    /\ \A d \in Calls : run'[d] = "launched" => run[d] = "launched"
               \/ \E queue \in SUBSET Calls : \E order, held, calls :
                    /\ TakeRunnable(queue, order, held, calls) /\ queue \cap taken = {}
                    /\ UNCHANGED sequence
                    /\ \A d \in Calls : calls[d] = "launched" => run[d] = "launched"
    <2> DEFINE queue == waiting \cup {c}
    <2> DEFINE order == [ahead EXCEPT ![c] = waiting]
    <2>1. queue \in SUBSET Calls /\ queue \cap taken = {}
      BY <1>b, <1>5
    <2>2. TakeRunnable(queue, order, heldLockKeys, run) \/ (taken' = taken /\ run' = run)
      BY <1>5 DEF Enqueue
    <2> HIDE DEF queue, order
    <2> QED
      BY <1>5, <2>1, <2>2
  <1>6. CASE Publish
    <2> DEFINE c == Head(hooks).call
    <2>1. c \in Calls /\ UNCHANGED sequence
      BY <1>6, <1>a, HeadCall DEF Publish
    <2>2. CASE Enqueue(c) /\ Head(hooks).kind = "enqueue"
      <3>1. c \notin taken
        BY <1>6, <1>a, <2>2, HeadCall DEF Publish, HooksInv
      <3> HIDE DEF c
      <3> QED
        BY <1>5, <2>1, <2>2, <3>1
    <2>3. CASE UNCHANGED <<run, taken>>
      BY <2>3
    <2> QED
      BY <1>6, <2>2, <2>3 DEF Publish, CancelDispatch
  <1>7. ASSUME NEW c \in Calls, RecoverCall(c)
        PROVE  Enqueue(c) /\ c \notin taken /\ UNCHANGED sequence
    BY <1>a, <1>7 DEF RecoverCall, NextOfPage, ProcessInv
  <1>8. CASE StartDispatch
    <2>1. TakeRunnable(waiting, ahead, heldLockKeys, run) /\ UNCHANGED sequence
      BY <1>8 DEF StartDispatch
    <2> QED
      BY <1>b, <2>1
  <1>9. CASE UNCHANGED vars
    BY <1>9 DEF vars
  <1> QED
    BY <1>b, <1>1, <1>2, <1>3, <1>4, <1>5, <1>6, <1>7, <1>8, <1>9
    DEF Next, TransactionStep, CallStep, Recovery, Rest

(* No call overtakes an older one that waits for one of the same locks,    *)
(* however many calls, locks and wall clocks there are.                    *)
THEOREM NobodyLeapfrogs == Spec => NoLeapfrog
  <1>1. ASSUME DurableInv, [Next]_vars
        PROVE  \A c \in taken' \ taken, d \in waiting' : Overlap(c, d) => ~Older(d, c)
    <2>1. ASSUME NEW queue \in SUBSET Calls, NEW order, NEW held, NEW calls,
                 TakeRunnable(queue, order, held, calls), NEW c \in taken' \ taken, NEW d \in waiting',
                 Overlap(c, d)
          PROVE  ~Older(d, c)
      <3>1. c \in Runnable(queue, order, held) /\ d \in queue \ {c}
        BY <2>1, TakeEffect
      <3> QED
        BY <2>1, <3>1 DEF Runnable, Precedes, Overlap
    <2> QED
      BY <1>1, <2>1, TakenBy
  <1>2. DurableInv /\ [Next]_vars =>
           [\A c \in taken' \ taken, d \in waiting' : Overlap(c, d) => ~Older(d, c)]_vars
    BY <1>1
  <1> QED
    BY <1>2, DurableCorrect, PTL DEF Spec, NoLeapfrog

(* A process runs a call at most once. *)
THEOREM RunsOnce == Spec => OncePerProcess
  <1>1. ASSUME DurableInv, [Next]_vars, NEW c \in Calls, run[c] # "launched", run'[c] = "launched"
        PROVE  c \notin taken
    <2>1. PICK queue \in SUBSET Calls : \E order, held, calls :
             /\ TakeRunnable(queue, order, held, calls) /\ queue \cap taken = {}
             /\ \A d \in Calls : calls[d] = "launched" => run[d] = "launched"
      BY <1>1, TakenBy
    <2>2. PICK order, held, calls :
             /\ TakeRunnable(queue, order, held, calls)
             /\ \A d \in Calls : calls[d] = "launched" => run[d] = "launched"
      BY <2>1
    <2>3. run'[c] = IF c \in queue \ waiting' THEN "launched" ELSE calls[c]
      BY <2>2, TakeEffect
    <2> QED
      BY <1>1, <2>1, <2>2, <2>3
  <1>2. DurableInv /\ [Next]_vars =>
           [\A c \in Calls : run[c] # "launched" /\ run'[c] = "launched" => c \notin taken]_vars
    BY <1>1
  <1> QED
    BY <1>2, DurableCorrect, PTL DEF Spec, OncePerProcess
-----------------------------------------------------------------------------
(* The module implements DurableWork. *)

(* What a call does for the world, by its stage. *)
LEMMA WorkByStage ==
    ASSUME NEW c \in Calls
    PROVE  /\ WorkNow[c] = Work(c)
           /\ run[c] \in {"executing", "writing"} => Work(c) = "running"
           /\ run[c] = "returned" => Work(c) = "returned"
           /\ run[c] = "completing" /\ tx = "open" => Work(c) = "returned"
           /\ run[c] = "completing" /\ tx # "open" => Work(c) = "none"
           /\ run[c] = "threw" => Work(c) = "threw"
           /\ run[c] \in {"idle", "launched", "finishing"} => Work(c) = "none"
  BY DEF Work, WorkNow

(* A call whose stage says the same before and after works the same. *)
LEMMA WorkSame ==
    ASSUME NEW c \in Calls, run \in [Calls -> RunStages], run' \in [Calls -> RunStages],
           \/ run'[c] = run[c] /\ (run[c] = "completing" => (tx' = "open" <=> tx = "open"))
           \/ /\ run[c] \in {"idle", "launched", "finishing"}
              /\ run'[c] \in {"idle", "launched", "finishing"}
           \/ run[c] \in {"executing", "writing"} /\ run'[c] \in {"executing", "writing"}
    PROVE  Work(c)' = Work(c)
  BY DEF Work

(* If every call works as it did and the same is committed, DurableWork    *)
(* stutters.                                                               *)
LEMMA PromiseStutter ==
    ASSUME UNCHANGED committed, \A c \in Calls : Work(c)' = Work(c)
    PROVE  UNCHANGED Promise!vars
  BY DEF Promise!vars, WorkNow

(* One call works on, and the rest as it did. *)
LEMMA WorkChange ==
    ASSUME NEW c \in Calls, \A d \in Calls \ {c} : Work(d)' = Work(d)
    PROVE  WorkNow' = [WorkNow EXCEPT ![c] = Work(c)']
  BY DEF WorkNow

(* The first states of the two agree. *)
LEMMA PromiseInit ==
    Init => Promise!Init
  BY DEF Init, Promise!Init, WorkNow, Work

(* Each step of the module is a step of DurableWork or none. *)
LEMMA PromiseNext ==
    ASSUME DurableInv, [Next]_vars
    PROVE  [Promise!Next]_(Promise!vars)
  <1> USE DEF rowVars, txVars, processVars, dispatchVars, budgetVars
  <1>a. TypeOK /\ ProcessInv /\ LocksInv /\ RowsInv /\ TypeOK'
    BY TypesKept DEF DurableInv
  <1>b. /\ run \in [Calls -> RunStages] /\ run' \in [Calls -> RunStages]
        /\ committed \in [Calls -> Fates] /\ committed' \in [Calls -> Fates]
        /\ status \in [Calls -> Fates] /\ (tx = "none" => owner = {})
    BY <1>a DEF TypeOK
  <1>1. CASE \/ OpenTransaction \/ Publish \/ Boot \/ BeforeStart \/ AfterStart \/ ListCalls \/ Stop
             \/ StartDispatch \/ \E c \in Calls : Invoke(c) \/ Cancel(c) \/ RecoverCall(c)
    <2>1. UNCHANGED committed /\ (tx' = "open" => tx \in {"none", "open"}) /\ (tx = "open" => tx' = "open")
      BY <1>1 DEF OpenTransaction, Open, Publish, Boot, BeforeStart, AfterStart, ListCalls, Stop,
                  StartDispatch, Invoke, Cancel, RecoverCall
    <2>2. ASSUME NEW d \in Calls
          PROVE  run'[d] = run[d] \/ (run[d] = "idle" /\ run'[d] = "launched")
      <3>1. CASE run' = run
        BY <3>1
      <3>2. CASE StartDispatch
        <4>1. waiting \in SUBSET Calls /\ TakeRunnable(waiting, ahead, heldLockKeys, run)
          BY <1>a, <3>2 DEF TypeOK, StartDispatch
        <4>2. run'[d] = IF d \in waiting \ waiting' THEN "launched" ELSE run[d]
          BY <4>1, TakeEffect
        <4> QED
          BY <1>a, <4>2 DEF LocksInv, Running
      <3>3. ASSUME NEW c \in Calls, Enqueue(c)
            PROVE  run'[d] = run[d] \/ (run[d] = "idle" /\ run'[d] = "launched")
        <4> DEFINE queue == waiting \cup {c}
        <4> DEFINE order == [ahead EXCEPT ![c] = waiting]
        <4>1. CASE ~Known(c) /\ TakeRunnable(queue, order, heldLockKeys, run)
          <5>1. queue \in SUBSET Calls /\ \A x \in queue : run[x] = "idle"
            BY <1>a, <4>1 DEF TypeOK, Known, LocksInv, Running
          <5> HIDE DEF queue, order
          <5>2. run'[d] = IF d \in queue \ waiting' THEN "launched" ELSE run[d]
            BY <4>1, <5>1, TakeEffect
          <5> QED
            BY <5>1, <5>2
        <4>2. CASE run' = run
          BY <4>2
        <4> QED
          BY <3>3, <4>1, <4>2 DEF Enqueue
      <3>4. CASE Publish
        BY <1>a, <3>1, <3>3, <3>4, HeadCall DEF Publish, CancelDispatch
      <3> QED
        BY <1>1, <3>1, <3>2, <3>3, <3>4
        DEF OpenTransaction, Boot, BeforeStart, AfterStart, ListCalls, Stop, Invoke, Cancel, RecoverCall
    <2>3. \A d \in Calls : run[d] = "completing" => tx # "none"
      BY <1>a, <1>b DEF RowsInv
    <2>4. \A d \in Calls : Work(d)' = Work(d)
      BY <1>b, <2>1, <2>2, <2>3, WorkSame
    <2> QED
      BY <2>1, <2>4, PromiseStutter
  <1>2. CASE Commit
    <2>1. committed' = status /\ run' = run /\ tx = "open" /\ tx' = "publishing"
      BY <1>2 DEF Commit
    <2>2. ASSUME NEW c \in owner
          PROVE  /\ committed[c] = "pending" /\ committed'[c] = "succeeded" /\ c \in Calls
                 /\ Work(c) = "returned" /\ Work(c)' = "none"
      <3>1. c \in Calls /\ run[c] = "completing" /\ committed[c] = "pending" /\ status[c] = "succeeded"
        BY <1>a, <2>1 DEF RowsInv, TypeOK
      <3>2. (run[c] = "completing" /\ tx # "open" => Work(c) = "none")'
        BY <3>1 DEF Work
      <3> QED
        BY <2>1, <3>1, <3>2, WorkByStage
    <2>3. ASSUME NEW c \in Calls \ owner
          PROVE  /\ ~Promise!Succeeds(c) /\ Work(c)' = Work(c)
                 /\ \/ committed'[c] = committed[c]
                    \/ committed[c] = "none" /\ committed'[c] \in {"pending", "cancelled"}
                    \/ committed[c] = "pending" /\ committed'[c] = "cancelled"
      <3>1. run[c] # "completing"
        BY <1>a DEF RowsInv
      <3>2. Work(c)' = Work(c)
        BY <1>b, <2>1, <3>1, WorkSame
      <3>3. \/ status[c] = committed[c]
            \/ committed[c] = "none" /\ status[c] \in {"pending", "cancelled"}
            \/ committed[c] = "pending" /\ status[c] = "cancelled"
        BY <1>a, <2>1 DEF RowsInv, Rewritten, Live
      <3> QED
        BY <2>1, <3>2, <3>3 DEF Promise!Succeeds
    <2>4. \A c \in Calls : Promise!Succeeds(c) <=> c \in owner
      BY <2>2, <2>3 DEF Promise!Succeeds
    <2>5. WorkNow' = [c \in Calls |-> IF Promise!Succeeds(c) THEN "none" ELSE WorkNow[c]]
      BY <2>2, <2>3, <2>4, WorkByStage DEF WorkNow
    <2>6. \A c \in owner : WorkNow[c] = "returned"
      BY <2>2, WorkByStage
    <2>7. Promise!Transact
      BY <1>a, <1>b, <2>2, <2>3, <2>4, <2>5, <2>6 DEF Promise!Transact, Promise!Fates, Fates, RowsInv
    <2> QED
      BY <2>7 DEF Promise!Next
  <1>3. CASE Rollback \/ EndPublication
    <2>1. /\ tx' = "none" /\ UNCHANGED committed
          /\ \A c \in Calls : run'[c] = IF c \in owner THEN "finishing" ELSE run[c]
      BY <1>3 DEF Rollback, EndPublication, Release
    <2>2. \A c \in Calls \ owner : run'[c] = run[c] /\ run[c] # "completing"
      BY <1>a, <2>1 DEF RowsInv
    <2>3. \A c \in Calls \ owner : Work(c)' = Work(c)
      BY <1>b, <2>2, WorkSame
    <2>4. CASE owner = {}
      BY <2>1, <2>3, <2>4, PromiseStutter
    <2>5. ASSUME NEW c \in owner
          PROVE  [Promise!Next]_(Promise!vars)
      <3>1. c \in Calls /\ owner = {c} /\ run[c] = "completing" /\ run'[c] = "finishing"
        BY <1>a, <2>1 DEF RowsInv, TypeOK
      <3>2. Work(c)' = "none"
        BY <3>1 DEF Work
      <3>3. WorkNow' = [WorkNow EXCEPT ![c] = "none"]
        BY <2>3, <3>1, <3>2, WorkChange
      <3>4. CASE Work(c) = "none"
        BY <2>1, <2>3, <3>1, <3>2, <3>4, PromiseStutter
      <3>5. CASE Work(c) # "none"
        BY <2>1, <3>1, <3>3, <3>5, WorkByStage DEF Promise!Next, Promise!End
      <3> QED
        BY <3>4, <3>5
    <2> QED
      BY <2>4, <2>5
  <1>4. ASSUME NEW c \in Calls,
               \/ Begin(c) \/ CheckState(c) \/ WriteState(c) \/ ExecutorEnds(c)
               \/ Complete(c) \/ CompleteNothing(c) \/ SettleFailure(c)
        PROVE  [Promise!Next]_(Promise!vars)
    <2>1. PICK stage \in RunStages : Become(c, stage)
      BY <1>4 DEF Begin, CheckState, WriteState, ExecutorEnds, Complete, CompleteNothing,
                  SettleFailure, RunStages
    <2>2. run'[c] = stage /\ \A d \in Calls \ {c} : run'[d] = run[d]
      BY <1>b, <2>1 DEF Become
    <2>3. \A d \in Calls \ {c} : run[d] = "completing" => (tx' = "open" <=> tx = "open")
      BY <1>a, <1>b, <1>4
      DEF Begin, CheckState, WriteState, ExecutorEnds, Complete, CompleteNothing, SettleFailure,
          RowsInv, Settle
    <2>4. \A d \in Calls \ {c} : Work(d)' = Work(d)
      BY <1>b, <2>2, <2>3, WorkSame
    <2>5. WorkNow' = [WorkNow EXCEPT ![c] = Work(c)'] /\ WorkNow[c] = Work(c)
      BY <2>4, WorkChange, WorkByStage
    <2>6. CASE CheckState(c) \/ WriteState(c)
      <3>1. UNCHANGED committed /\ run[c] \in {"executing", "writing"} /\ run'[c] \in {"executing", "writing"}
        BY <1>b, <2>6 DEF CheckState, WriteState, Become
      <3> QED
        BY <1>b, <2>4, <3>1, WorkSame, PromiseStutter
    <2>7. CASE Begin(c)
      <3>1. UNCHANGED committed /\ run[c] = "launched" /\ run'[c] \in {"finishing", "executing"}
        BY <1>b, <2>7 DEF Begin, Become
      <3>2. CASE run'[c] = "finishing"
        BY <1>b, <2>4, <3>1, <3>2, WorkSame, PromiseStutter
      <3>3. CASE run'[c] = "executing"
        <4>1. Work(c) = "none" /\ Work(c)' = "running"
          BY <3>1, <3>3 DEF Work
        <4>2. committed[c] \in {"pending", "cancelled"}
          BY <1>a, <3>1 DEF RowsInv, Live
        <4>3. \A d \in Calls \ {c} : WorkNow[d] = "running" => Promise!Disjoint(c, d)
          <5>1. \A d \in Calls : WorkNow[d] = "running" => run[d] # "idle"
            BY WorkByStage DEF RunStages
          <5> QED
            BY <1>a, <3>1, <5>1 DEF LocksInv, Running, Overlap, Promise!Disjoint
        <4> QED
          BY <2>5, <3>1, <4>1, <4>2, <4>3 DEF Promise!Start, Promise!Next
      <3> QED
        BY <3>1, <3>2, <3>3
    <2>8. CASE ExecutorEnds(c) \/ CompleteNothing(c)
      <3>1. /\ UNCHANGED committed
            /\ \/ run[c] = "executing" /\ run'[c] \in {"finishing", "returned", "threw"}
               \/ run[c] = "returned" /\ run'[c] = "finishing"
        BY <1>b, <2>8 DEF ExecutorEnds, CompleteNothing, Become
      <3>2. \/ Work(c) = "running" /\ Work(c)' \in {"none", "returned", "threw"}
            \/ Work(c) = "returned" /\ Work(c)' = "none"
        BY <3>1 DEF Work
      <3> QED
        BY <2>5, <3>1, <3>2 DEF Promise!End, Promise!Next
    <2>9. CASE Complete(c)
      <3>1. UNCHANGED committed /\ run[c] = "returned" /\ run'[c] = "completing" /\ tx' = "open"
        BY <1>b, <2>9 DEF Complete, Become, Open
      <3>2. Work(c)' = Work(c)
        BY <3>1 DEF Work
      <3> QED
        BY <2>4, <3>1, <3>2, PromiseStutter
    <2>10. CASE SettleFailure(c)
      <3>1. /\ run[c] = "threw" /\ run'[c] = "finishing" /\ tx = "none"
            /\ \/ UNCHANGED committed
               \/ status[c] = "pending" /\ committed' = [status EXCEPT ![c] = "failed"]
        BY <1>b, <2>10 DEF SettleFailure, Become, Settle, Delete, Pending
      <3>2. Work(c) = "threw" /\ Work(c)' = "none"
        BY <3>1 DEF Work
      <3>3. status = committed
        BY <1>a, <3>1 DEF TypeOK
      <3>4. CASE UNCHANGED committed
        BY <2>5, <3>2, <3>4 DEF Promise!End, Promise!Next
      <3>5. CASE status[c] = "pending" /\ committed' = [status EXCEPT ![c] = "failed"]
        BY <2>5, <3>2, <3>3, <3>5 DEF Promise!Fail, Promise!Next
      <3> QED
        BY <3>1, <3>4, <3>5
    <2> QED
      BY <1>4, <2>6, <2>7, <2>8, <2>9, <2>10
  <1>5. ASSUME NEW c \in Calls, Finish(c) PROVE UNCHANGED Promise!vars
    <2> DEFINE calls == [run EXCEPT ![c] = "idle"]
    <2> DEFINE held == heldLockKeys \ LockKeysOf[c]
    <2>1. UNCHANGED <<committed, tx>> /\ run[c] = "finishing"
      BY <1>5 DEF Finish
    <2>2. calls[c] = "idle" /\ \A d \in Calls \ {c} : calls[d] = run[d]
      BY <1>b
    <2>3. waiting \in SUBSET Calls /\ \A d \in waiting : run[d] = "idle"
      BY <1>a DEF LocksInv, Running, TypeOK
    <2>4. \A d \in Calls : \/ run'[d] = calls[d]
                           \/ run'[d] = "launched" /\ d \in waiting
      <3>1. CASE TakeRunnable(waiting, ahead, held, calls)
        <4> HIDE DEF calls, held
        <4>1. \A d \in Calls :
                 run'[d] = IF d \in waiting \ waiting' THEN "launched" ELSE calls[d]
          BY <2>3, <3>1, TakeEffect
        <4> QED
          BY <4>1
      <3>2. CASE run' = calls
        BY <3>2
      <3> QED
        BY <1>5, <3>1, <3>2 DEF Finish
    <2> HIDE DEF calls, held
    <2>5. \A d \in Calls : \/ run'[d] = run[d]
                           \/ /\ run[d] \in {"idle", "launched", "finishing"}
                              /\ run'[d] \in {"idle", "launched", "finishing"}
      BY <2>1, <2>2, <2>3, <2>4
    <2>6. \A d \in Calls : Work(d)' = Work(d)
      BY <1>b, <2>1, <2>5, WorkSame
    <2> QED
      BY <2>1, <2>6, PromiseStutter
  <1>6. ASSUME NEW c \in Calls, DiscardCall(c) PROVE [Promise!Next]_(Promise!vars)
    <2>1. /\ UNCHANGED <<run, tx>> /\ tx = "none" /\ c \in page
          /\ \/ UNCHANGED committed
             \/ status[c] = "pending" /\ committed' = [status EXCEPT ![c] = "discarded"]
      BY <1>6 DEF DiscardCall, NextOfPage, Settle, Delete, Pending
    <2>2. run[c] = "idle" /\ status = committed
      BY <1>a, <2>1 DEF ProcessInv, Running, TypeOK
    <2>3. \A d \in Calls : Work(d)' = Work(d)
      BY <1>b, <2>1, WorkSame
    <2>4. WorkNow' = WorkNow /\ WorkNow[c] = "none"
      BY <2>2, <2>3, WorkByStage DEF WorkNow
    <2>5. CASE UNCHANGED committed
      BY <2>3, <2>5, PromiseStutter
    <2>6. CASE status[c] = "pending" /\ committed' = [status EXCEPT ![c] = "discarded"]
      BY <2>2, <2>4, <2>6 DEF Promise!Discard, Promise!Next
    <2> QED
      BY <2>1, <2>5, <2>6
  <1>7. CASE ProcessEnds
    <2>1. UNCHANGED committed /\ \A c \in Calls : run'[c] = "idle"
      BY <1>7 DEF ProcessEnds
    <2>2. WorkNow' = [c \in Calls |-> "none"]
      BY <2>1 DEF WorkNow, Work
    <2> QED
      BY <2>1, <2>2 DEF Promise!ProcessEnds, Promise!Next
  <1>8. CASE UNCHANGED vars
    <2>1. UNCHANGED <<run, tx, committed>>
      BY <1>8 DEF vars
    <2> QED
      BY <1>b, <2>1, WorkSame, PromiseStutter
  <1> QED
    BY <1>1, <1>2, <1>3, <1>4, <1>5, <1>6, <1>7, <1>8
    DEF Next, TransactionStep, CallStep, Recovery, Rest

(* DurableFunctions keeps the promise of DurableWork: a call settles once, *)
(* runs after its commit with its locks to itself, and takes effect in one *)
(* transaction.                                                            *)
THEOREM DurableFunctionsKeepPromise == Spec => KeepsItsPromise
  BY DurableCorrect, PromiseInit, PromiseNext, PTL DEF Spec, KeepsItsPromise, Promise!Spec
-----------------------------------------------------------------------------
(* The loop of #takeRunnable. *)

(* Calls are in one order: of any two one comes first, and what comes      *)
(* before is before what follows.                                          *)
OneOrder(queue, order) ==
    /\ \A c \in queue : order[c] \subseteq queue \ {c}
    /\ \A c, d \in queue : c # d => (c \in order[d] <=> d \notin order[c])
    /\ \A c, d, e \in queue : c \in order[d] /\ d \in order[e] => c \in order[e]

(* A part of what is in order is in order. *)
LEMMA PartInOrder ==
    ASSUME NEW queue, NEW order, OneOrder(queue, order),
           NEW rest \in SUBSET queue, NEW less,
           \A c \in rest : less[c] = order[c] \cap rest
    PROVE  OneOrder(rest, less)
  BY DEF OneOrder

(* What is taken out of the queue leaves the others in order. *)
LEMMA TakeInOrder ==
    ASSUME NEW queue \in SUBSET Calls, NEW order, NEW held, NEW calls,
           OneOrder(queue, order), TakeRunnable(queue, order, held, calls)
    PROVE  OneOrder(waiting, ahead)'
  <1>1. waiting' \subseteq queue /\ \A c \in waiting' : ahead'[c] = order[c] \cap waiting'
    BY DEF TakeRunnable
  <1> QED
    BY <1>1, PartInOrder

(* A call joins the map behind those that are there. *)
LEMMA EnqueueInOrder ==
    ASSUME DispatchOK, OneOrder(waiting, ahead), NEW c \in Calls, Enqueue(c)
    PROVE  OneOrder(waiting, ahead)'
  <1> DEFINE queue == waiting \cup {c}
             order == [ahead EXCEPT ![c] = waiting]
  <1>1. CASE UNCHANGED dispatchVars
    BY <1>1 DEF dispatchVars, OneOrder
  <1>2. ASSUME ~Known(c) PROVE OneOrder(queue, order)
    <2>1. c \notin waiting
      BY <1>2 DEF Known
    <2>2. order[c] = waiting /\ \A d \in waiting : order[d] = ahead[d]
      BY <2>1 DEF DispatchOK
    <2> HIDE DEF order
    <2> QED
      BY <2>1, <2>2 DEF OneOrder
  <1>3. CASE ~Known(c) /\ TakeRunnable(queue, order, heldLockKeys, run)
    <2>1. queue \in SUBSET Calls
      BY DEF DispatchOK
    <2> HIDE DEF queue, order
    <2> QED
      BY <1>2, <1>3, <2>1, TakeInOrder
  <1>4. CASE ~Known(c) /\ waiting' = queue /\ ahead' = order
    <2> HIDE DEF queue, order
    <2> QED
      BY <1>2, <1>4 DEF OneOrder
  <1> QED
    BY <1>1, <1>3, <1>4 DEF Enqueue

(* Every step keeps the calls that wait in order. *)
LEMMA OrderKept ==
    ASSUME DurableInv, OneOrder(waiting, ahead), [Next]_vars
    PROVE  OneOrder(waiting, ahead)'
  <1> USE DEF rowVars, txVars, processVars, dispatchVars, budgetVars
  <1>b. DispatchOK /\ hooks \in Seq(Hook)
    BY DEF DurableInv, TypeOK, DispatchOK
  <1>c. waiting \in SUBSET Calls
    BY <1>b DEF DispatchOK
  <1>1. CASE UNCHANGED <<waiting, ahead>>
    BY <1>1 DEF OneOrder
  <1>2. CASE \/ OpenTransaction \/ Commit \/ Boot \/ BeforeStart \/ AfterStart \/ ListCalls
             \/ Rollback \/ EndPublication
             \/ \E c \in Calls : Invoke(c) \/ Cancel(c) \/ DiscardCall(c)
    BY <1>1, <1>2
    DEF OpenTransaction, Commit, Boot, BeforeStart, AfterStart, ListCalls, Invoke, Cancel,
        DiscardCall, Rollback, EndPublication, Release
  <1>3. CASE Publish
    <2>1. Head(hooks).call \in Calls
      <3>1. Head(hooks) \in Hook
        BY <1>3, <1>b DEF Publish
      <3> QED
        BY <3>1 DEF Hook
    <2>2. CASE Enqueue(Head(hooks).call)
      BY <1>b, <2>1, <2>2, EnqueueInOrder
    <2>3. CASE CancelDispatch(Head(hooks).call)
      <3> DEFINE c == Head(hooks).call
      <3>1. \/ UNCHANGED <<waiting, ahead>>
            \/ waiting' = waiting \ {c} /\ ahead' = [d \in Calls |-> IF d = c THEN {} ELSE ahead[d] \ {c}]
        BY <2>3 DEF CancelDispatch, Unwait
      <3> HIDE DEF c
      <3>2. ASSUME waiting' = waiting \ {c},
                   ahead' = [d \in Calls |-> IF d = c THEN {} ELSE ahead[d] \ {c}]
            PROVE  OneOrder(waiting, ahead)'
        <4>1. \A d \in waiting' : ahead'[d] = ahead[d] \cap waiting'
          BY <1>c, <3>2 DEF OneOrder
        <4>2. waiting' \in SUBSET waiting
          BY <3>2
        <4> QED
          BY <4>1, <4>2, PartInOrder
      <3> QED
        BY <1>1, <3>1, <3>2
    <2>4. CASE UNCHANGED dispatchVars
      BY <1>1, <2>4
    <2> QED
      BY <1>3, <2>2, <2>3, <2>4 DEF Publish
  <1>4. ASSUME NEW c \in Calls,
               \/ Begin(c) \/ CheckState(c) \/ WriteState(c) \/ ExecutorEnds(c)
               \/ Complete(c) \/ CompleteNothing(c) \/ SettleFailure(c)
        PROVE  OneOrder(waiting, ahead)'
    BY <1>1, <1>4 DEF Begin, CheckState, WriteState, ExecutorEnds, Complete, CompleteNothing,
                      SettleFailure, ExecutionStep
  <1>5. ASSUME NEW c \in Calls, Finish(c) PROVE OneOrder(waiting, ahead)'
    BY <1>1, <1>5, <1>c, TakeInOrder DEF Finish
  <1>6. ASSUME NEW c \in Calls, RecoverCall(c) PROVE OneOrder(waiting, ahead)'
    BY <1>b, <1>6, EnqueueInOrder DEF RecoverCall
  <1>7. CASE StartDispatch
    BY <1>7, <1>c, TakeInOrder DEF StartDispatch
  <1>8. CASE Stop \/ ProcessEnds
    BY <1>8 DEF Stop, ProcessEnds, OneOrder
  <1>9. CASE UNCHANGED vars
    BY <1>1, <1>9 DEF vars
  <1> QED
    BY <1>1, <1>2, <1>3, <1>4, <1>5, <1>6, <1>7, <1>8, <1>9
    DEF Next, TransactionStep, CallStep, Recovery, Rest

(* What waits in one order has one order in which #takeRunnable sorts it:   *)
(* the clocks may tie and disagree with the row ids, and still no two calls *)
(* each come before the other, and no three in a circle.                    *)
Sorts(queue, order) ==
    /\ \A c, d \in queue : c # d => (Precedes(c, d, order) <=> ~Precedes(d, c, order))
    /\ \A c, d, e \in queue : Precedes(c, d, order) /\ Precedes(d, e, order) => Precedes(c, e, order)

LEMMA OrderSorts ==
    ASSUME NEW queue \in SUBSET Calls, NEW order, OneOrder(queue, order),
           sequence \in [Calls -> Nat]
    PROVE  Sorts(queue, order)
  <1>1. \A c \in queue : CreatedAt[c] \in Nat /\ sequence[c] \in Nat
    BY DurableFunctionsAssumption
  <1>2. \A c, d \in queue : c # d => (Precedes(c, d, order) <=> ~Precedes(d, c, order))
    BY <1>1 DEF Precedes, Older, OneOrder
  <1>3. ASSUME NEW c \in queue, NEW d \in queue, NEW e \in queue,
               Precedes(c, d, order), Precedes(d, e, order)
        PROVE  Precedes(c, e, order)
    BY <1>1, <1>3 DEF Precedes, Older, OneOrder
  <1> QED
    BY <1>2, <1>3 DEF Sorts

(* THEOREM: the calls that wait are strictly sorted, whatever the clock     *)
(* said when each was made, and in whatever order recovery and callbacks    *)
(* brought them: the sort of #takeRunnable has one outcome.                 *)
THEOREM WaitingIsSorted == Spec => []Sorts(waiting, ahead)
  <1>1. Init => OneOrder(waiting, ahead)
    BY DEF Init, OneOrder
  <1>2. DurableInv /\ OneOrder(waiting, ahead) /\ [Next]_vars => OneOrder(waiting, ahead)'
    BY OrderKept
  <1>3. DurableInv /\ OneOrder(waiting, ahead) => Sorts(waiting, ahead)
    BY OrderSorts DEF DurableInv, TypeOK
  <1> QED
    BY <1>1, <1>2, <1>3, DurableCorrect, PTL DEF Spec

(* The calls that the loop has looked at, and how they appear in its hands. *)
Looked(sorted, k) == {sorted[i] : i \in 1..k}
Chosen(sorted, held, k) ==
    {sorted[i] : i \in {j \in 1..k :
        /\ LockKeysOf[sorted[j]] \cap held = {}
        /\ \A h \in 1..(j-1) : ~Overlap(sorted[h], sorted[j])}}
Passed(seen, sorted, held, k) ==
    \E started, keys, blocked :
        /\ seen[k] = [starts |-> started, held |-> keys, blocked |-> blocked]
        /\ started = Chosen(sorted, held, k)
        /\ keys \cup blocked = held \cup UNION {LockKeysOf[c] : c \in Looked(sorted, k)}

(* One turn of the loop. *)
LEMMA TurnOfLoop ==
    ASSUME NEW k \in Nat, NEW sorted, NEW held, NEW seen,
           Passed(seen, sorted, held, k), seen[k+1] = Look(seen[k], sorted[k+1])
    PROVE  Passed(seen, sorted, held, k+1)
  <1> DEFINE c == sorted[k+1]
             reserved == held \cup UNION {LockKeysOf[d] : d \in Looked(sorted, k)}
  <1>1. PICK started, keys, blocked :
            /\ seen[k] = [starts |-> started, held |-> keys, blocked |-> blocked]
            /\ started = Chosen(sorted, held, k)
            /\ keys \cup blocked = reserved
    BY DEF Passed
  <1>2. Looked(sorted, k+1) = Looked(sorted, k) \cup {c}
    BY DEF Looked
  <1>3. LockKeysOf[c] \cap reserved = {}
            <=> /\ LockKeysOf[c] \cap held = {}
                /\ \A h \in 1..k : ~Overlap(sorted[h], c)
    BY DEF Looked, Overlap
  <1>4. Chosen(sorted, held, k+1) =
            Chosen(sorted, held, k) \cup (IF LockKeysOf[c] \cap reserved = {} THEN {c} ELSE {})
    <2>1. 1..(k+1) = (1..k) \cup {k+1} /\ (k+1) - 1 = k
      OBVIOUS
    <2> HIDE DEF reserved
    <2> QED
      BY <1>3, <2>1 DEF Chosen
  <1>5. UNION {LockKeysOf[d] : d \in Looked(sorted, k+1)}
            = LockKeysOf[c] \cup UNION {LockKeysOf[d] : d \in Looked(sorted, k)}
    BY <1>2
  <1>6. held \cup UNION {LockKeysOf[d] : d \in Looked(sorted, k+1)} = reserved \cup LockKeysOf[c]
    BY <1>5
  <1> HIDE DEF reserved, c
  <1>7. CASE LockKeysOf[c] \cap reserved # {}
    <2>1. seen[k+1] = [starts |-> started, held |-> keys, blocked |-> blocked \cup LockKeysOf[c]]
      <3>1. seen[k].starts = started /\ seen[k].held = keys /\ seen[k].blocked = blocked
        BY <1>1
      <3>2. LockKeysOf[c] \cap (seen[k].held \cup seen[k].blocked) # {}
        BY <1>1, <1>7, <3>1
      <3> QED
        BY <3>1, <3>2 DEF Look, c
    <2>2. Chosen(sorted, held, k+1) = started
      BY <1>1, <1>4, <1>7
    <2>3. keys \cup (blocked \cup LockKeysOf[c]) = reserved \cup LockKeysOf[c]
      BY <1>1
    <2> QED
      BY <1>6, <2>1, <2>2, <2>3 DEF Passed
  <1>8. CASE LockKeysOf[c] \cap reserved = {}
    <2>1. seen[k+1] = [starts |-> started \cup {c}, held |-> keys \cup LockKeysOf[c],
                       blocked |-> blocked]
      <3>1. seen[k].starts = started /\ seen[k].held = keys /\ seen[k].blocked = blocked
        BY <1>1
      <3>2. LockKeysOf[c] \cap (seen[k].held \cup seen[k].blocked) = {}
        BY <1>1, <1>8, <3>1
      <3> QED
        BY <3>1, <3>2 DEF Look, c
    <2>2. Chosen(sorted, held, k+1) = started \cup {c}
      BY <1>1, <1>4, <1>8
    <2>3. (keys \cup LockKeysOf[c]) \cup blocked = reserved \cup LockKeysOf[c]
      BY <1>1
    <2> QED
      BY <1>6, <2>1, <2>2, <2>3 DEF Passed
  <1> QED
    BY <1>7, <1>8

(* What holds at 0, and at the next number up to n with each, holds at n.  *)
LEMMA UpTo ==
    ASSUME NEW n \in Nat, NEW S, 0 \in S, \A k \in 0..(n-1) : k \in S => k + 1 \in S
    PROVE  n \in S
  <1> DEFINE R == OpToRel(<, Nat)
             Out == (0..n) \ S
  <1>1. IsWellFoundedOn(R, Nat)
    BY NatLessThanWellFounded
  <1>2. \A m, k \in Nat : m < k => <<m, k>> \in R
    BY DEF OpToRel
  <1> HIDE DEF R
  <1>3. SUFFICES ASSUME n \notin S PROVE FALSE
    OBVIOUS
  <1>4. Out # {} /\ Out \in SUBSET Nat
    BY <1>3
  <1>5. PICK m \in Out : \A k \in Out : ~(<<k, m>> \in R)
    <2> HIDE DEF Out
    <2> QED
      BY <1>1, <1>4, WFMin
  <1>6. m # 0 /\ m - 1 \in 0..(n-1) /\ (m - 1) + 1 = m /\ m \in Nat
    BY <1>5
  <1>7. m - 1 \notin S
    BY <1>5, <1>6
  <1>8. m - 1 \in Out /\ <<m - 1, m>> \in R
    BY <1>2, <1>6, <1>7
  <1> QED
    BY <1>5, <1>8

(* THEOREM: for a queue of any length, sorted as WaitingIsSorted allows, the*)
(* loop of #takeRunnable takes exactly what Runnable says, although it looks*)
(* at each call once and remembers only the keys it met.  The instance's run*)
(* compares the two with TakesLikeTheLoop.                                  *)
THEOREM LoopTakesRunnable ==
    ASSUME NEW n \in Nat, NEW sorted, NEW order, NEW held, NEW seen,
           \A i, j \in 1..n : i < j =>
               /\ sorted[i] # sorted[j]
               /\ Precedes(sorted[i], sorted[j], order) /\ ~Precedes(sorted[j], sorted[i], order),
           seen[0] = Looking(held),
           \A k \in 0..(n-1) : seen[k+1] = Look(seen[k], sorted[k+1])
    PROVE  seen[n].starts = Runnable(Looked(sorted, n), order, held)
  <1> DEFINE S == {k \in 0..n : Passed(seen, sorted, held, k)}
  <1>1. 0 \in S
    <2>1. Looked(sorted, 0) = {} /\ Chosen(sorted, held, 0) = {}
      BY DEF Looked, Chosen
    <2>2. seen[0] = [starts |-> {}, held |-> held, blocked |-> {}]
      BY DEF Looking
    <2>3. held \cup {} = held \cup UNION {LockKeysOf[c] : c \in {}}
      OBVIOUS
    <2>4. Passed(seen, sorted, held, 0)
      BY <2>1, <2>2, <2>3 DEF Passed
    <2> QED
      BY <2>4
  <1>2. ASSUME NEW k \in 0..(n-1), k \in S PROVE k + 1 \in S
    <2>1. Passed(seen, sorted, held, k) /\ k \in Nat /\ k + 1 \in 0..n
      BY <1>2
    <2>2. Passed(seen, sorted, held, k+1)
      BY <2>1, TurnOfLoop
    <2> QED
      BY <2>1, <2>2
  <1>3. n \in S
    <2> HIDE DEF S
    <2> QED
      BY <1>1, <1>2, UpTo
  <1>4. seen[n].starts = Chosen(sorted, held, n)
    <2>1. PICK started, keys, blocked :
              /\ seen[n] = [starts |-> started, held |-> keys, blocked |-> blocked]
              /\ started = Chosen(sorted, held, n)
      BY <1>3 DEF Passed
    <2> QED
      BY <2>1
  <1>5. ASSUME NEW i \in 1..n
        PROVE  (\A h \in 1..(i-1) : ~Overlap(sorted[h], sorted[i]))
               <=> (\A d \in Looked(sorted, n) \ {sorted[i]} :
                        Precedes(d, sorted[i], order) => ~Overlap(sorted[i], d))
    <2>1. \A h \in 1..n : Precedes(sorted[h], sorted[i], order) /\ sorted[h] # sorted[i] <=> h < i
      BY <1>5
    <2>2. \A h \in 1..n : Overlap(sorted[h], sorted[i]) <=> Overlap(sorted[i], sorted[h])
      BY DEF Overlap
    <2>3. 1..(i-1) = {h \in 1..n : h < i}
      BY <1>5
    <2> QED
      BY <2>1, <2>2, <2>3 DEF Looked
  <1>6. Chosen(sorted, held, n) = Runnable(Looked(sorted, n), order, held)
    BY <1>5 DEF Chosen, Runnable, Looked
  <1> QED
    BY <1>4, <1>6
=============================================================================
