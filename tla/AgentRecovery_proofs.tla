---------------------------- MODULE AgentRecovery_proofs ----------------------------
(***************************************************************************)
(* What TLAPS proves of the record an AgentBase leaves for its next owner, *)
(* for every value of the constants: an agent that owes nothing has        *)
(* answered its calls (SettledIsComplete); one at rest that owes something *)
(* keeps an open call (IdleKeepsOpenCalls); what a response is due for     *)
(* stands in the record until it is given (AnswerIsOwed), in a state from  *)
(* which the next owner finds it (AnswerIsFound); and the run loop, with   *)
(* all that was proved of it, implements DurableAgent                      *)
(* (AgentKeepsItsPromise).                                                 *)
(*                                                                         *)
(* The first part says, action by action, what a step does to the fields   *)
(* these properties speak of; the rest is proved from that.                *)
(***************************************************************************)
EXTENDS AgentConversation_proofs

-----------------------------------------------------------------------------
(* What a step does                                                         *)

(* A stage is recorded in the store and in the cache, or the write skipped. *)
Writes(stage) == store'.owed = Recorded(stage) /\ mem'.owed.pending = Owing(stage)

(* Parts of the heap and of the store that a step leaves alone: the record  *)
(* itself, the rest of what the instance knows of it, what it holds, and    *)
(* what was said.                                                           *)
RecordKept == store'.owed = store.owed /\ mem'.owed.pending = mem.owed.pending
ClaimsKept ==
    /\ mem'.owed.inherited = mem.owed.inherited /\ mem'.owed.requestOpen = mem.owed.requestOpen
    /\ mem'.owed.recoveryChecked = mem.owed.recoveryChecked
    /\ mem'.owed.resumeRequested = mem.owed.resumeRequested
ViewKept ==
    /\ mem'.held.waiting = mem.held.waiting /\ mem'.held.messages = mem.held.messages
    /\ mem'.held.loaded = mem.held.loaded /\ mem'.held.snapshot = mem.held.snapshot
SaidKept == store'.records = store.records /\ store'.queue = store.queue
DueKept ==
    /\ log'.answerDue = log.answerDue /\ log'.unnamed = log.unnamed
    /\ log'.excused = log.excused /\ log'.unowed = log.unowed
HistoryKept == DueKept /\ log'.faults = log.faults

(* A failure that changes no history but their number.                      *)
Fails == DueKept /\ log.faults \in Nat /\ log'.faults = log.faults + 1

(* Counting a failure changes nothing else.                                 *)
LEMMA FailingDoes ==
  ASSUME TypeOK
  PROVE  /\ log' = Failing => Fails
         /\ UNCHANGED log => HistoryKept
<1> USE DEF TypeOK, LogType
<1>1. log' = Failing => Fails
  BY DEF Failing, Fails, DueKept
<1> QED
  BY <1>1 DEF HistoryKept, DueKept

(* An offer queues an entry and owes the turn that takes it.                *)
LEMMA OfferDoes ==
  ASSUME TypeOK, NEW m \in Msgs, NEW k \in Kinds, NEW via \in {"own", "outer"}, Offer(m, k, via)
  PROVE  /\ pc' = pc /\ log' = log /\ mem'.run = mem.run /\ mem'.turn = mem.turn
         /\ ViewKept /\ ClaimsKept /\ mem'.held.publishing # {}
         /\ store'.records = store.records
         /\ \E e : store'.queue = store.queue \cup {e}
         /\ \/ Writes("inference")
            \/ /\ store'.owed = [store.owed EXCEPT !.stage = "inference"]
               /\ mem'.owed.pending = mem.owed.pending
<1> USE DEF TypeOK, StoreType, MemType, HeldType, RunType, OwedType, TurnType
<1>1. PICK key \in QueueKey(k) :
        LET entry == [kind |-> k, key |-> key, msg |-> m]
        IN  /\ store' = [store EXCEPT
                   !.ids = @ \cup {m},
                   !.queue = @ \cup {entry},
                   !.owed = IF via = "own" THEN Recorded("inference")
                            ELSE [@ EXCEPT !.stage = "inference"]]
            /\ mem' = [mem EXCEPT
                   !.held.publishing = {[entry |-> entry, via |-> via]},
                   !.owed.pending = IF via = "own" THEN Owing("inference") ELSE @]
  BY Zenon DEF Offer
<1>2. mem'.run = mem.run /\ mem'.turn = mem.turn /\ ViewKept
  BY <1>1 DEF ViewKept
<1>3. ClaimsKept /\ mem'.owed.pending = IF via = "own" THEN Owing("inference") ELSE mem.owed.pending
  BY <1>1 DEF ClaimsKept
<1>4. mem'.held.publishing # {}
  BY <1>1
<1>5. /\ store'.records = store.records /\ \E e : store'.queue = store.queue \cup {e}
      /\ store'.owed = IF via = "own" THEN Recorded("inference")
                       ELSE [store.owed EXCEPT !.stage = "inference"]
  BY <1>1
<1>6. pc' = pc /\ log' = log
  BY DEF Offer
<1> QED
  BY <1>2, <1>3, <1>4, <1>5, <1>6 DEF Writes

(* A run that a caller starts claims the flags of the one before.           *)
LEMMA OpeningDoes ==
  ASSUME NEW m \in MemType
  PROVE  /\ Opening(m).held = m.held /\ Opening(m).owed = m.owed /\ Opening(m).turn = m.turn
         /\ Opening(m).run.turnRequested = m.run.turnRequested
         /\ Opening(m).run.aborted = m.run.aborted /\ Opening(m).run.reopened = m.run.reopened
         /\ Opening(m).run.draining = m.run.draining /\ Opening(m).run.closed = m.run.closed
         /\ Opening(m).run.abortDropped = (IF Starts THEN FALSE ELSE m.run.abortDropped)
         /\ Opening(m).run.settleOnly = (IF Starts THEN FALSE ELSE m.run.settleOnly)
BY DEF Opening, NewRun, MemType, RunType

(* Publishing a commit requests a turn, and a run if none is in flight.     *)
LEMMA PublishDoes ==
  ASSUME TypeOK, Publish
  PROVE  \E m \in MemType :
           /\ mem' = Opening(m) /\ pc' = Started /\ store' = store /\ HistoryKept
           /\ mem.held.waiting \subseteq m.held.waiting
           /\ m.held.messages = mem.held.messages /\ m.held.loaded = mem.held.loaded
           /\ m.held.snapshot = mem.held.snapshot
           /\ m.owed = mem.owed /\ m.turn = mem.turn
           /\ m.run = [mem.run EXCEPT !.turnRequested = TRUE]
<1> USE DEF TypeOK
<1>1. PICK p \in mem.held.publishing :
         mem' = Opening([mem EXCEPT !.held.waiting = @ \cup {p.entry},
                                    !.run.turnRequested = TRUE, !.held.publishing = {}])
  BY DEF Publish
<1>2. p.entry \in Entry
  BY MemFields DEF Publication
<1> DEFINE m == [mem EXCEPT !.held.waiting = @ \cup {p.entry},
                            !.run.turnRequested = TRUE, !.held.publishing = {}]
<1>3. m \in MemType
  <2>1. mem.held.waiting \cup {p.entry} \in SUBSET Entry /\ {} \in SUBSET Publication
    BY <1>2, MemFields
  <2>2. [mem EXCEPT !.held.waiting = mem.held.waiting \cup {p.entry}] \in MemType
    BY <2>1, MemUpdate
  <2>3. [[mem EXCEPT !.held.waiting = mem.held.waiting \cup {p.entry}] EXCEPT
            !.run.turnRequested = TRUE] \in MemType
    BY <2>2, MemUpdate
  <2>4. [[[mem EXCEPT !.held.waiting = mem.held.waiting \cup {p.entry}] EXCEPT
            !.run.turnRequested = TRUE] EXCEPT !.held.publishing = {}] \in MemType
    BY <2>1, <2>3, MemUpdate
  <2> QED
    BY <2>4, Zenon
<1>4. /\ mem.held.waiting \subseteq m.held.waiting
      /\ m.held.messages = mem.held.messages /\ m.held.loaded = mem.held.loaded
      /\ m.held.snapshot = mem.held.snapshot
  BY DEF MemType, HeldType
<1>5. m.owed = mem.owed /\ m.turn = mem.turn /\ m.run = [mem.run EXCEPT !.turnRequested = TRUE]
  BY DEF MemType
<1>6. pc' = Started /\ store' = store /\ HistoryKept
  BY DEF Publish, HistoryKept, DueKept, LogType
<1>7. mem' = Opening(m)
  BY <1>1
<1> HIDE DEF m
<1> QED
  BY <1>3, <1>4, <1>5, <1>6, <1>7

(* An outer commit is read back first by an instance at rest.               *)
LEMMA ActivateDoes ==
  ASSUME TypeOK, ActivateCommitted
  PROVE  \E m \in MemType :
           /\ mem' = Opening(m) /\ pc' = Started /\ store' = store /\ HistoryKept
           /\ m.held.waiting = mem.held.waiting
           /\ m.held.messages = mem.held.messages /\ m.held.loaded = mem.held.loaded
           /\ m.held.snapshot = mem.held.snapshot
           /\ m.turn = mem.turn /\ m.run = [mem.run EXCEPT !.turnRequested = TRUE]
           /\ m.owed.inherited = mem.owed.inherited
           /\ m.owed.recoveryChecked = mem.owed.recoveryChecked
           /\ pc # "idle" => m.owed = mem.owed
           /\ pc = "idle" => m.owed.pending = store.owed /\ m.owed.requestOpen = store.owed.open
<1> USE DEF TypeOK
<1>1. PICK p \in mem.held.publishing :
         mem' = Opening([mem EXCEPT
               !.owed.pending = IF pc = "idle" THEN store.owed ELSE @,
               !.owed.requestOpen = IF pc = "idle" THEN store.owed.open ELSE @,
               !.run.turnRequested = TRUE,
               !.held.publishing = {}])
  BY DEF ActivateCommitted
<1> DEFINE m == [mem EXCEPT
               !.owed.pending = IF pc = "idle" THEN store.owed ELSE @,
               !.owed.requestOpen = IF pc = "idle" THEN store.owed.open ELSE @,
               !.run.turnRequested = TRUE,
               !.held.publishing = {}]
<1>2. PICK q, r : /\ q = (IF pc = "idle" THEN store.owed ELSE mem.owed.pending)
                  /\ r = (IF pc = "idle" THEN store.owed.open ELSE mem.owed.requestOpen)
  OBVIOUS
<1>3. q \in OwedRecord /\ r \in BOOLEAN
  BY <1>2, MemFields DEF StoreType, OwedRecord
<1>4. m = [mem EXCEPT !.owed.pending = q, !.owed.requestOpen = r,
                      !.run.turnRequested = TRUE, !.held.publishing = {}]
  BY <1>2 DEF MemType, OwedType
<1>5. m \in MemType
  <2>1. [mem EXCEPT !.owed.pending = q] \in MemType
    BY <1>3, MemUpdate
  <2>2. [[mem EXCEPT !.owed.pending = q] EXCEPT !.owed.requestOpen = r] \in MemType
    BY <1>3, <2>1, MemUpdate
  <2>3. [[[mem EXCEPT !.owed.pending = q] EXCEPT !.owed.requestOpen = r] EXCEPT
            !.run.turnRequested = TRUE] \in MemType
    BY <2>2, MemUpdate
  <2>4. [[[[mem EXCEPT !.owed.pending = q] EXCEPT !.owed.requestOpen = r] EXCEPT
            !.run.turnRequested = TRUE] EXCEPT !.held.publishing = {}] \in MemType
    BY <2>3, MemUpdate
  <2> QED
    BY <1>4, <2>4, Zenon
<1>6. /\ m.held.waiting = mem.held.waiting
      /\ m.held.messages = mem.held.messages /\ m.held.loaded = mem.held.loaded
      /\ m.held.snapshot = mem.held.snapshot
  BY <1>4 DEF MemType, HeldType
<1>7. m.turn = mem.turn /\ m.run = [mem.run EXCEPT !.turnRequested = TRUE]
  BY <1>4 DEF MemType
<1>8. m.owed = [mem.owed EXCEPT !.pending = q, !.requestOpen = r]
  BY <1>4 DEF MemType
<1>9. pc' = Started /\ store' = store /\ HistoryKept
  BY DEF ActivateCommitted, HistoryKept, DueKept, LogType
<1>10. mem' = Opening(m)
  BY <1>1
<1> HIDE DEF m
<1>11. /\ m.owed.inherited = mem.owed.inherited
       /\ m.owed.recoveryChecked = mem.owed.recoveryChecked
       /\ pc # "idle" => m.owed = mem.owed
       /\ pc = "idle" => m.owed.pending = store.owed /\ m.owed.requestOpen = store.owed.open
  BY <1>2, <1>8 DEF MemType, OwedType
<1> QED
  BY <1>5, <1>6, <1>7, <1>9, <1>10, <1>11

(* A commit marked for merging is one still being published.                *)
LEMMA MarkDoes ==
  ASSUME TypeOK, MarkCommitted
  PROVE  /\ pc' = pc /\ store' = store /\ log' = log
         /\ ViewKept /\ mem'.held.publishing # {}
         /\ mem'.run = mem.run /\ mem'.owed = mem.owed /\ mem'.turn = mem.turn
<1>1. PICK p \in mem.held.publishing :
          mem' = [mem EXCEPT !.held.dirty = TRUE,
                             !.held.publishing = {[p EXCEPT !.via = "marked"]}]
  BY DEF MarkCommitted
<1> QED
  BY <1>1 DEF MarkCommitted, ViewKept, TypeOK, MemType, HeldType

(* An abort answers what was due, and drops the turn.                       *)
LEMMA AbortDoes ==
  ASSUME TypeOK, Abort
  PROVE  /\ pc # "idle" /\ pc' = pc /\ store' = store
         /\ log'.answerDue = FALSE /\ log'.unnamed = log.unnamed
         /\ log'.excused = log.excused /\ log'.unowed = log.unowed
         /\ log'.faults = log.faults
         /\ ViewKept /\ mem'.owed = mem.owed /\ mem'.turn = mem.turn
         /\ mem'.run.abortDropped = TRUE
         /\ mem'.run.draining = mem.run.draining /\ mem'.run.closed = mem.run.closed
<1>1. /\ pc # "idle" /\ pc' = pc /\ store' = store
      /\ log' = [Abandoning(log) EXCEPT !.aborts = @ + 1, !.cancelled = TRUE,
                                        !.atAbort = {e.msg : e \in store.queue}]
      /\ mem' = [mem EXCEPT
            !.run.turnRequested = FALSE, !.run.abortDropped = TRUE, !.run.aborted = TRUE,
            !.held.abandoned = @ \cup mem.held.waiting]
  BY DEF Abort
<1>2. /\ log'.answerDue = FALSE /\ log'.unnamed = log.unnamed /\ log'.excused = log.excused
      /\ log'.unowed = log.unowed /\ log'.faults = log.faults
  BY <1>1 DEF Abandoning, TypeOK, LogType
<1>3. ViewKept
  BY <1>1 DEF ViewKept, TypeOK, MemType, HeldType
<1>4. /\ mem'.owed = mem.owed /\ mem'.turn = mem.turn
      /\ mem'.run = [mem.run EXCEPT !.turnRequested = FALSE, !.abortDropped = TRUE,
                                    !.aborted = TRUE]
  BY <1>1 DEF TypeOK, MemType
<1>5. /\ mem'.run.abortDropped = TRUE
      /\ mem'.run.draining = mem.run.draining /\ mem'.run.closed = mem.run.closed
  BY <1>4 DEF TypeOK, MemType, RunType
<1> QED
  BY <1>1, <1>2, <1>3, <1>4, <1>5

(* A drain and a close set their flags.                                     *)
LEMMA StopDoes ==
  ASSUME TypeOK, Drain \/ Close
  PROVE  /\ pc' = pc /\ store' = store /\ HistoryKept
         /\ mem'.held = mem.held /\ mem'.owed = mem.owed /\ mem'.turn = mem.turn
         /\ mem'.run.abortDropped = mem.run.abortDropped
         /\ mem'.run.settleOnly = mem.run.settleOnly
         /\ mem'.run.aborted = mem.run.aborted
         /\ mem.run.draining => mem'.run.draining
         /\ mem'.run.draining \/ mem'.run.closed
<1>1. /\ pc' = pc /\ store' = store /\ HistoryKept
  BY DEF Drain, Close, HistoryKept, DueKept, TypeOK, LogType
<1>2. mem'.held = mem.held /\ mem'.owed = mem.owed /\ mem'.turn = mem.turn
  BY DEF Drain, Close, TypeOK, MemType
<1>3. \/ mem'.run = [mem.run EXCEPT !.draining = TRUE]
      \/ mem'.run = [mem.run EXCEPT !.closed = TRUE, !.toolsAbandoned = ~mem.run.draining]
  BY DEF Drain, Close, TypeOK, MemType
<1>4. mem.run \in RunType
  BY DEF TypeOK, MemType
<1>5. /\ mem'.run.abortDropped = mem.run.abortDropped
      /\ mem'.run.settleOnly = mem.run.settleOnly
      /\ mem'.run.aborted = mem.run.aborted
      /\ mem.run.draining => mem'.run.draining
      /\ mem'.run.draining \/ mem'.run.closed
  BY <1>3, <1>4 DEF RunType
<1> QED
  BY <1>1, <1>2, <1>5

(* The next owner knows what the store says, and that it has to be resumed. *)
LEMMA CrashDoes ==
  ASSUME TypeOK, Crash
  PROVE  /\ pc' = "idle" /\ store' = store /\ HistoryKept /\ mem' = Fresh(store.owed)
BY DEF TypeOK, LogType, Crash, HistoryKept, DueKept

(* A start is a request to resume.                                          *)
LEMMA StartDoes ==
  ASSUME TypeOK, Start
  PROVE  \E m \in MemType :
           /\ mem' = Opening(m) /\ pc' = Started /\ store' = store /\ log' = log
           /\ m.held = mem.held /\ m.run = mem.run /\ m.turn = mem.turn
           /\ m.owed = [mem.owed EXCEPT !.resumeRequested = TRUE]
<1> DEFINE m == [mem EXCEPT !.owed.resumeRequested = TRUE]
<1>1. m \in MemType
  BY MemUpdate DEF TypeOK
<1>2. /\ m.held = mem.held /\ m.run = mem.run /\ m.turn = mem.turn
      /\ m.owed = [mem.owed EXCEPT !.resumeRequested = TRUE]
  BY DEF TypeOK, MemType
<1> QED
  BY <1>1, <1>2 DEF Start
-----------------------------------------------------------------------------
(* A new scope is the same heap, unaborted.                                 *)
LEMMA OpenScopeDoes ==
  ASSUME NEW m \in MemType
  PROVE  /\ OpenScope(m) \in MemType
         /\ OpenScope(m).held = m.held /\ OpenScope(m).owed = m.owed
         /\ OpenScope(m).turn = m.turn /\ OpenScope(m).run.aborted = FALSE
         /\ OpenScope(m).run.turnRequested = m.run.turnRequested
         /\ OpenScope(m).run.abortDropped = m.run.abortDropped
         /\ OpenScope(m).run.settleOnly = m.run.settleOnly
         /\ OpenScope(m).run.reopened = m.run.reopened
         /\ OpenScope(m).run.draining = m.run.draining
         /\ OpenScope(m).run.closed = m.run.closed
<1>1. OpenScope(m) \in MemType
  BY MemUpdate DEF OpenScope
<1>2. /\ OpenScope(m).held = m.held /\ OpenScope(m).owed = m.owed
      /\ OpenScope(m).turn = m.turn /\ OpenScope(m).run = [m.run EXCEPT !.aborted = FALSE]
  BY DEF OpenScope, MemType
<1>3. m.run \in RunType
  BY DEF MemType
<1> QED
  BY <1>1, <1>2, <1>3 DEF RunType

(* A run begins by settling, or opens its first loop.                       *)
LEMMA BeginRunDoes ==
  ASSUME TypeOK, BeginRun
  PROVE  /\ pc = "begin" /\ store' = store /\ log' = log
         /\ \/ /\ mem.owed.pending.stage = "settlement" \/ mem.run.settleOnly
               /\ \/ pc' = "settleLoaded" /\ mem.held.loaded /\ mem' = mem
                  \/ /\ pc' = "load" /\ mem'.held = mem.held /\ mem'.run = mem.run
                     /\ mem'.owed = mem.owed /\ mem'.turn.then = "settle"
            \/ /\ mem.owed.pending.stage # "settlement" /\ ~mem.run.settleOnly
               /\ \/ mem.run.draining /\ pc' = "finally" /\ mem' = mem
                  \/ pc' = "loopStage" /\ mem' = OpenScope(mem)
BY DEF BeginRun, TypeOK, MemType, TurnType

(* Entering a stage writes the pending record, or fails to.                 *)
LEMMA EnterStageDoes ==
  ASSUME TypeOK, NEW from, NEW stage, NEW to, EnterStage(from, stage, to)
  PROVE  /\ pc = from /\ pc' = to /\ SaidKept
         /\ mem'.held = mem.held /\ mem'.run = mem.run /\ mem'.turn = mem.turn /\ ClaimsKept
         /\ (Writes(stage) /\ HistoryKept) \/ (RecordKept /\ Fails)
<1>1. CASE /\ store' = [store EXCEPT !.owed = Recorded(stage)]
           /\ mem' = [mem EXCEPT !.owed.pending = Owing(stage)]
           /\ UNCHANGED log
  <2>1. SaidKept /\ store'.owed = Recorded(stage)
    BY <1>1 DEF SaidKept, TypeOK, StoreType
  <2>2. /\ mem'.held = mem.held /\ mem'.run = mem.run /\ mem'.turn = mem.turn
        /\ ClaimsKept /\ mem'.owed.pending = Owing(stage)
    BY <1>1 DEF ClaimsKept, TypeOK, MemType, OwedType
  <2>3. HistoryKept
    BY <1>1, FailingDoes
  <2>4. pc = from /\ pc' = to
    BY DEF EnterStage
  <2> QED
    BY <2>1, <2>2, <2>3, <2>4 DEF Writes
<1>2. CASE log' = Failing /\ UNCHANGED <<store, mem>>
  BY <1>2, FailingDoes DEF EnterStage, SaidKept, ClaimsKept, RecordKept
<1> QED
  BY <1>1, <1>2 DEF EnterStage

(* A turn opens on a load.                                                  *)
LEMMA BeginTurnDoes ==
  ASSUME TypeOK, NEW m \in MemType, BeginTurn(m)
  PROVE  /\ pc' = "load" /\ HistoryKept
         /\ mem'.held.waiting = m.held.waiting /\ mem'.held.messages = m.held.messages
         /\ mem'.held.loaded = FALSE
         /\ mem'.owed = m.owed /\ mem'.turn.then = "turn" /\ mem'.turn.blocked = FALSE
         /\ mem'.run.abortDropped = m.run.abortDropped
         /\ mem'.run.aborted = m.run.aborted
<1>1. pc' = "load" /\ HistoryKept
  BY DEF BeginTurn, HistoryKept, DueKept, TypeOK, LogType
<1>2. PICK r, a : mem' = [m EXCEPT
          !.run.turnRequested = r, !.held.abandoned = a,
          !.turn.blocked = FALSE, !.held.loaded = FALSE, !.turn.then = "turn"]
  BY DEF BeginTurn, MemType, HeldType, RunType
<1>3. mem'.owed = m.owed /\ mem'.run = [m.run EXCEPT !.turnRequested = r]
  BY <1>2 DEF MemType
<1>4. mem'.held = [m.held EXCEPT !.abandoned = a, !.loaded = FALSE]
  BY <1>2 DEF MemType
<1>5. mem'.turn = [m.turn EXCEPT !.blocked = FALSE, !.then = "turn"]
  BY <1>2 DEF MemType
<1>6. m.held \in HeldType /\ m.turn \in TurnType /\ m.run \in RunType
  BY DEF MemType
<1>7. /\ mem'.held.waiting = m.held.waiting /\ mem'.held.messages = m.held.messages
      /\ mem'.held.loaded = FALSE
  BY <1>4, <1>6 DEF HeldType
<1>8. mem'.turn.then = "turn" /\ mem'.turn.blocked = FALSE
  BY <1>5, <1>6 DEF TurnType
<1>9. mem'.run.abortDropped = m.run.abortDropped /\ mem'.run.aborted = m.run.aborted
  BY <1>3, <1>6 DEF RunType
<1> QED
  BY <1>1, <1>3, <1>7, <1>8, <1>9

(* A load reads the queue, then everything else.                            *)
LEMMA ReadHistoryDoes ==
  ASSUME TypeOK, ReadHistory
  PROVE  /\ pc = "load" /\ pc' = "assign" /\ store' = store /\ log' = log
         /\ mem'.run = mem.run /\ mem'.owed = mem.owed /\ mem'.turn = mem.turn
         /\ mem'.held.waiting = mem.held.waiting /\ mem'.held.messages = mem.held.messages
         /\ mem'.held.loaded = mem.held.loaded /\ mem'.held.snapshot = store.queue
<1>1. /\ mem'.run = mem.run /\ mem'.owed = mem.owed /\ mem'.turn = mem.turn
      /\ mem'.held = [mem.held EXCEPT !.snapshot = store.queue]
  BY DEF ReadHistory, TypeOK, MemType
<1>2. mem.held \in HeldType
  BY DEF TypeOK, MemType
<1>3. /\ mem'.held.waiting = mem.held.waiting /\ mem'.held.messages = mem.held.messages
      /\ mem'.held.loaded = mem.held.loaded /\ mem'.held.snapshot = store.queue
  BY <1>1, <1>2 DEF HeldType
<1> QED
  BY <1>1, <1>3 DEF ReadHistory

LEMMA AssignHistoryDoes ==
  ASSUME TypeOK, AssignHistory
  PROVE  /\ pc = "assign" /\ store' = store /\ log' = log
         /\ pc' = (IF mem.turn.then = "settle" THEN "settleLoaded" ELSE "turnStage")
         /\ mem'.run = mem.run /\ mem'.owed = mem.owed
         /\ mem'.turn.then = mem.turn.then /\ mem'.turn.blocked = mem.turn.blocked
         /\ mem'.held.messages = store.records /\ mem'.held.waiting = mem.held.snapshot
         /\ mem'.held.loaded = TRUE
<1>1. PICK b, r : mem' = [mem EXCEPT
          !.held.messages = store.records, !.held.waiting = mem.held.snapshot,
          !.held.snapshot = {}, !.held.loaded = TRUE, !.held.dirty = FALSE,
          !.turn.batch = b, !.turn.resumed = r]
  BY Zenon DEF AssignHistory
<1>2. /\ mem'.run = mem.run /\ mem'.owed = mem.owed
      /\ mem'.turn = [mem.turn EXCEPT !.batch = b, !.resumed = r]
      /\ mem'.held = [mem.held EXCEPT !.messages = store.records, !.waiting = mem.held.snapshot,
                                      !.snapshot = {}, !.loaded = TRUE, !.dirty = FALSE]
  BY <1>1 DEF TypeOK, MemType
<1>3. mem.held \in HeldType /\ mem.turn \in TurnType
  BY DEF TypeOK, MemType
<1>4. mem'.turn.then = mem.turn.then /\ mem'.turn.blocked = mem.turn.blocked
  BY <1>2, <1>3 DEF TurnType
<1>5. /\ mem'.held.messages = store.records /\ mem'.held.waiting = mem.held.snapshot
      /\ mem'.held.loaded = TRUE
  BY <1>2, <1>3 DEF HeldType
<1> QED
  BY <1>2, <1>4, <1>5 DEF AssignHistory

(* A load that fails ends a settling run, or drops the turn's input.        *)
LEMMA LoadFailsDoes ==
  ASSUME TypeOK, LoadFails
  PROVE  /\ pc \in {"load", "assign"} /\ store' = store /\ log'.faults = log.faults + 1
         /\ log.faults \in Nat /\ log'.unnamed = log.unnamed /\ log'.unowed = log.unowed
         /\ mem'.run = mem.run /\ mem'.owed = mem.owed /\ mem'.turn = mem.turn
         /\ mem'.held.messages = mem.held.messages /\ mem'.held.loaded = mem.held.loaded
         /\ \/ mem.turn.then = "settle" /\ pc' = "finally" /\ Fails
            \/ /\ mem.turn.then # "settle" /\ pc' = "closeLoop" /\ log'.answerDue = FALSE
               /\ log'.excused = log.excused \cup Unanswered(store.records)
<1>1. PICK a : mem' = [mem EXCEPT !.held.snapshot = {}, !.held.abandoned = a]
  <2>2. CASE mem' = [mem EXCEPT !.held.snapshot = {}]
    <3>1. [mem EXCEPT !.held.snapshot = {}]
            = [mem EXCEPT !.held.snapshot = {}, !.held.abandoned = mem.held.abandoned]
      BY DEF TypeOK, MemType, HeldType
    <3> QED
      BY <2>2, <3>1
  <2>3. CASE mem' = [mem EXCEPT !.held.snapshot = {},
                                !.held.abandoned = @ \cup mem.held.waiting]
    BY <2>3
  <2> QED
    BY <2>2, <2>3 DEF LoadFails
<1>2. /\ mem'.run = mem.run /\ mem'.owed = mem.owed /\ mem'.turn = mem.turn
      /\ mem'.held = [mem.held EXCEPT !.snapshot = {}, !.abandoned = a]
  BY <1>1 DEF TypeOK, MemType
<1>3. mem.held \in HeldType
  BY DEF TypeOK, MemType
<1>4. mem'.held.messages = mem.held.messages /\ mem'.held.loaded = mem.held.loaded
  BY <1>2, <1>3 DEF HeldType
<1>5. CASE mem.turn.then = "settle"
  BY <1>2, <1>4, <1>5, FailingDoes DEF LoadFails, Fails, DueKept
<1>6. CASE mem.turn.then # "settle"
  <2>1. /\ log' = [Abandoning(Failing) EXCEPT !.excused = @ \cup Unanswered(store.records)]
        /\ pc' = "closeLoop"
    BY <1>6 DEF LoadFails
  <2>2. /\ log'.answerDue = FALSE /\ log'.excused = log.excused \cup Unanswered(store.records)
        /\ log'.faults = log.faults + 1 /\ log.faults \in Nat
        /\ log'.unnamed = log.unnamed /\ log'.unowed = log.unowed
    BY <2>1 DEF Abandoning, Failing, TypeOK, LogType
  <2> QED
    BY <1>2, <1>4, <1>6, <2>1, <2>2 DEF LoadFails
<1> QED
  BY <1>5, <1>6

(* A turn stops, dispatches what is open, or looks for what it owes.        *)
LEMMA BeginInferenceDoes ==
  ASSUME TypeOK, BeginInference
  PROVE  /\ pc = "resume" /\ store' = store /\ log' = log
         /\ \/ mem.run.draining /\ pc' = "finally" /\ mem' = mem
            \/ /\ mem'.held = mem.held /\ mem'.run = mem.run
               /\ mem'.owed.inherited = mem.owed.inherited
               /\ mem'.owed.pending = mem.owed.pending
               /\ mem'.owed.recoveryChecked = mem.owed.recoveryChecked
               /\ mem'.turn.batch = mem.turn.batch /\ mem'.turn.blocked = mem.turn.blocked
               /\ mem'.turn.then = mem.turn.then
               /\ \/ mem.turn.batch # {} /\ pc' = "dispatch"
                  \/ mem.turn.batch # {} /\ mem.run.aborted /\ pc' = "turnDone"
                  \/ mem.turn.batch = {} /\ pc' = "recover"
<1>1. CASE ~mem.run.draining
  <2>1. PICK r, n : mem' = [mem EXCEPT !.owed.requestOpen = r,
                        !.turn.state = "none", !.turn.stopped = FALSE, !.turn.needs = n]
    BY <1>1, Zenon DEF BeginInference
  <2>2. /\ mem'.held = mem.held /\ mem'.run = mem.run
        /\ mem'.owed = [mem.owed EXCEPT !.requestOpen = r]
        /\ mem'.turn = [mem.turn EXCEPT !.state = "none", !.stopped = FALSE, !.needs = n]
    BY <2>1 DEF TypeOK, MemType
  <2>3. mem.owed \in OwedType /\ mem.turn \in TurnType
    BY DEF TypeOK, MemType
  <2>4. /\ mem'.owed.inherited = mem.owed.inherited
        /\ mem'.owed.pending = mem.owed.pending
        /\ mem'.owed.recoveryChecked = mem.owed.recoveryChecked
    BY <2>2, <2>3 DEF OwedType
  <2>5. /\ mem'.turn.batch = mem.turn.batch /\ mem'.turn.blocked = mem.turn.blocked
        /\ mem'.turn.then = mem.turn.then
    BY <2>2, <2>3 DEF TurnType
  <2> QED
    BY <1>1, <2>2, <2>4, <2>5 DEF BeginInference
<1> QED
  BY <1>1 DEF BeginInference

(* The first turn of an instance also owes what its last run left.          *)
LEMMA RecoverDoes ==
  ASSUME TypeOK, Recover
  PROVE  /\ pc = "recover" /\ pc' = "cycle" /\ store' = store /\ log' = log
         /\ mem'.held = mem.held /\ mem'.run = mem.run
         /\ mem'.owed.pending = mem.owed.pending
         /\ mem'.turn.needs = (mem.turn.needs \/ (Interrupted /\ OwesResponse))
         /\ mem'.turn.then = mem.turn.then /\ mem'.turn.blocked = mem.turn.blocked
<1>1. /\ mem'.held = mem.held /\ mem'.run = mem.run
      /\ mem'.owed = [mem.owed EXCEPT !.recoveryChecked = TRUE]
      /\ mem'.turn = [mem.turn EXCEPT !.needs = @ \/ (Interrupted /\ OwesResponse)]
  BY DEF Recover, TypeOK, MemType
<1>2. mem.owed \in OwedType /\ mem.turn \in TurnType
  BY DEF TypeOK, MemType
<1>3. mem'.owed.pending = mem.owed.pending
  BY <1>1, <1>2 DEF OwedType
<1>4. /\ mem'.turn.needs = (mem.turn.needs \/ (Interrupted /\ OwesResponse))
      /\ mem'.turn.then = mem.turn.then /\ mem'.turn.blocked = mem.turn.blocked
  BY <1>1, <1>2 DEF TurnType
<1> QED
  BY <1>1, <1>3, <1>4 DEF Recover

(* What outer commits queued joins the queue in memory.                     *)
LEMMA RefreshDoes ==
  ASSUME TypeOK, RefreshCommittedQueues
  PROVE  /\ pc = "cycle" /\ pc' = "steering" /\ ~mem.run.draining
         /\ store' = store /\ log' = log
         /\ mem'.run = mem.run /\ mem'.owed = mem.owed /\ mem'.turn = mem.turn
         /\ mem.held.waiting \subseteq mem'.held.waiting
         /\ mem'.held.messages = mem.held.messages /\ mem'.held.loaded = mem.held.loaded
<1>1. CASE mem.held.dirty
  <2>1. /\ mem'.run = mem.run /\ mem'.owed = mem.owed /\ mem'.turn = mem.turn
        /\ mem'.held = [mem.held EXCEPT !.dirty = FALSE, !.waiting = @ \cup store.queue]
    BY <1>1 DEF RefreshCommittedQueues, TypeOK, MemType
  <2>2. mem.held \in HeldType
    BY DEF TypeOK, MemType
  <2>3. /\ mem.held.waiting \subseteq mem'.held.waiting
        /\ mem'.held.messages = mem.held.messages /\ mem'.held.loaded = mem.held.loaded
    BY <2>1, <2>2 DEF HeldType
  <2> QED
    BY <2>1, <2>3 DEF RefreshCommittedQueues
<1> QED
  BY <1>1 DEF RefreshCommittedQueues

(* A message moves from the queue to the conversation, and owes a response. *)
LEMMA ConsumeDoes ==
  ASSUME TypeOK, NEW k \in Kinds, ConsumeQueue(k)
  PROVE  /\ pc = k /\ pc' = "request"
         /\ \E m \in Msgs : /\ store'.records = Append(store.records, User(m))
                            /\ mem'.held.messages = Append(mem.held.messages, User(m))
         /\ Writes("inference") /\ ClaimsKept
         /\ mem'.held.loaded = mem.held.loaded /\ mem'.turn = mem.turn
         /\ mem'.run.aborted = mem.run.aborted
         /\ log'.answerDue = ~mem.run.aborted /\ log'.unnamed = log.unnamed
         /\ log'.excused = log.excused /\ log'.unowed = log.unowed
         /\ log'.faults = log.faults
<1>1. PICK e \in Oldest(Consumable(k)) :
        /\ store' = [store EXCEPT
               !.queue = @ \ {e},
               !.records = Append(@, User(e.msg)),
               !.owed = Recorded("inference")]
        /\ mem' = [mem EXCEPT
               !.held.waiting = @ \ {e},
               !.held.messages = Append(@, User(e.msg)),
               !.owed.pending = Owing("inference"),
               !.run.turnRequested = StillRequested(mem.held.waiting \ {e})]
  BY DEF ConsumeQueue
<1>2. e.msg \in Msgs
  BY DEF Oldest, Consumable, OfKind, TypeOK, StoreType, Entry
<1>3. /\ store'.records = Append(store.records, User(e.msg))
      /\ store'.owed = Recorded("inference")
  BY <1>1 DEF TypeOK, StoreType
<1>4. /\ mem'.held = [mem.held EXCEPT !.waiting = @ \ {e}, !.messages = Append(@, User(e.msg))]
      /\ mem'.owed = [mem.owed EXCEPT !.pending = Owing("inference")]
      /\ mem'.run = [mem.run EXCEPT !.turnRequested = StillRequested(mem.held.waiting \ {e})]
      /\ mem'.turn = mem.turn
  BY <1>1 DEF TypeOK, MemType
<1>5. mem.held \in HeldType /\ mem.owed \in OwedType /\ mem.run \in RunType
  BY DEF TypeOK, MemType
<1>6. /\ mem'.held.messages = Append(mem.held.messages, User(e.msg))
      /\ mem'.held.loaded = mem.held.loaded
  BY <1>4, <1>5 DEF HeldType
<1>7. ClaimsKept /\ mem'.owed.pending = Owing("inference")
  BY <1>4, <1>5 DEF ClaimsKept, OwedType
<1>8. mem'.run.aborted = mem.run.aborted
  BY <1>4, <1>5 DEF RunType
<1>9. /\ log'.answerDue = ~mem.run.aborted /\ log'.unnamed = log.unnamed
      /\ log'.excused = log.excused /\ log'.unowed = log.unowed
      /\ log'.faults = log.faults
  BY DEF ConsumeQueue, TypeOK, LogType
<1> QED
  BY <1>2, <1>3, <1>4, <1>6, <1>7, <1>8, <1>9 DEF ConsumeQueue, Writes

(* A request is recorded with its notice, or goes out unnamed.              *)
LEMMA RequestDoes ==
  ASSUME TypeOK, RequestInference
  PROVE  /\ pc = "request" /\ pc' = "asked" /\ store'.queue = store.queue
         /\ mem'.held.loaded = mem.held.loaded
         /\ mem'.run = mem.run /\ mem'.turn.then = mem.turn.then
         /\ mem'.turn.blocked = mem.turn.blocked /\ mem'.owed.requestOpen = TRUE
         /\ log'.answerDue = log.answerDue /\ log'.excused = log.excused
         /\ log'.unowed = log.unowed
         /\ \/ /\ store'.owed = (IF mem.owed.pending = Requesting THEN store.owed ELSE Requesting)
               /\ mem'.owed.pending = Requesting /\ HistoryKept
               /\ \/ ~EndsWithResponse(mem.held.messages) /\ store'.records = store.records
                  \/ store'.records = Append(store.records, System)
            \/ /\ store' = store /\ RecordKept /\ log'.unnamed = TRUE
               /\ log.faults \in Nat /\ log'.faults = log.faults + 1
<1> DEFINE notice == IF EndsWithResponse(mem.held.messages) THEN <<System>> ELSE <<>>
<1>1. CASE /\ store' = [store EXCEPT
                    !.owed = IF mem.owed.pending = Requesting THEN @ ELSE Requesting,
                    !.records = @ \o notice]
           /\ mem' = [mem EXCEPT
                    !.owed.requestOpen = TRUE, !.owed.pending = Requesting,
                    !.held.messages = @ \o notice, !.turn.partial = <<>>]
           /\ UNCHANGED log
  <2> HIDE DEF notice
  <2>1. /\ store'.owed = (IF mem.owed.pending = Requesting THEN store.owed ELSE Requesting)
        /\ store'.records = store.records \o notice /\ store'.queue = store.queue
    BY <1>1 DEF TypeOK, StoreType
  <2>2. /\ mem'.run = mem.run
        /\ mem'.owed = [mem.owed EXCEPT !.requestOpen = TRUE, !.pending = Requesting]
        /\ mem'.held = [mem.held EXCEPT !.messages = @ \o notice]
        /\ mem'.turn = [mem.turn EXCEPT !.partial = <<>>]
    BY <1>1 DEF TypeOK, MemType
  <2>3. mem.held \in HeldType /\ mem.owed \in OwedType /\ mem.turn \in TurnType
    BY DEF TypeOK, MemType
  <2>4. mem'.held.loaded = mem.held.loaded
    BY <2>2, <2>3 DEF HeldType
  <2>5. mem'.owed.requestOpen = TRUE /\ mem'.owed.pending = Requesting
    BY <2>2, <2>3 DEF OwedType
  <2>6. mem'.turn.then = mem.turn.then /\ mem'.turn.blocked = mem.turn.blocked
    BY <2>2, <2>3 DEF TurnType
  <2>7. \/ ~EndsWithResponse(mem.held.messages) /\ store'.records = store.records
        \/ store'.records = Append(store.records, System)
    BY <2>1, NoticeAppended DEF notice, TypeOK, StoreType
  <2> QED
    BY <1>1, <2>1, <2>2, <2>4, <2>5, <2>6, <2>7, FailingDoes
    DEF RequestInference, HistoryKept, DueKept
<1>2. CASE /\ mem' = [mem EXCEPT !.owed.requestOpen = TRUE, !.turn.partial = <<>>]
           /\ log' = [Failing EXCEPT !.unnamed = TRUE]
           /\ UNCHANGED store
  <2>2. /\ mem'.run = mem.run /\ mem'.held = mem.held
        /\ mem'.owed = [mem.owed EXCEPT !.requestOpen = TRUE]
        /\ mem'.turn = [mem.turn EXCEPT !.partial = <<>>]
    BY <1>2 DEF TypeOK, MemType
  <2>3. mem.owed \in OwedType /\ mem.turn \in TurnType
    BY DEF TypeOK, MemType
  <2>5. mem'.owed.requestOpen = TRUE /\ mem'.owed.pending = mem.owed.pending
    BY <2>2, <2>3 DEF OwedType
  <2>6. mem'.turn.then = mem.turn.then /\ mem'.turn.blocked = mem.turn.blocked
    BY <2>2, <2>3 DEF TurnType
  <2>7. /\ log'.answerDue = log.answerDue /\ log'.excused = log.excused
        /\ log'.unowed = log.unowed /\ log'.unnamed = TRUE
        /\ log.faults \in Nat /\ log'.faults = log.faults + 1
    BY <1>2 DEF Failing, TypeOK, LogType
  <2> QED
    BY <1>2, <2>2, <2>5, <2>6, <2>7 DEF RequestInference, RecordKept
<1> QED
  BY <1>1, <1>2 DEF RequestInference

(* A finished block joins the store alone; a call made over a record that   *)
(* owes no turn is noted.                                                   *)
LEMMA BlockDoes ==
  ASSUME TypeOK, StreamBlock
  PROVE  /\ pc = "stream" /\ pc' = "stream"
         /\ store'.queue = store.queue /\ RecordKept
         /\ mem'.held = mem.held /\ mem'.run = mem.run /\ mem'.owed = mem.owed
         /\ mem'.turn.then = mem.turn.then /\ mem'.turn.blocked = mem.turn.blocked
         /\ log'.answerDue = log.answerDue /\ log'.unnamed = log.unnamed
         /\ log'.excused = log.excused /\ log'.faults = log.faults
         /\ log.unowed \subseteq log'.unowed
         /\ \/ store'.records = Append(store.records, Text)
            \/ \E c \in Calls : /\ store'.records = Append(store.records, Call(c))
                                /\ ~Occurs(Call(c), store.records)
                                /\ ~LateWork => c \in log'.unowed
<1>1. PICK r \in {Text} \cup {Call(c) : c \in Calls} :
        /\ r.type = "call" =>
              /\ ~Occurs(r, store.records)
              /\ \A c \in Calls : ~Occurs(Call(c), mem.turn.partial)
        /\ store' = [store EXCEPT !.records = Append(@, r)]
        /\ mem' = [mem EXCEPT !.turn.partial = Append(@, r)]
        /\ log' = [log EXCEPT !.unowed =
               IF r.type = "call" /\ ~LateWork THEN @ \cup {r.ref} ELSE @]
  BY DEF StreamBlock
<1>2. /\ store'.queue = store.queue /\ store'.owed = store.owed
      /\ store'.records = Append(store.records, r)
  BY <1>1 DEF TypeOK, StoreType
<1>3. /\ mem'.held = mem.held /\ mem'.run = mem.run /\ mem'.owed = mem.owed
      /\ mem'.turn = [mem.turn EXCEPT !.partial = Append(@, r)]
  BY <1>1 DEF TypeOK, MemType
<1>4. mem'.turn.then = mem.turn.then /\ mem'.turn.blocked = mem.turn.blocked
  BY <1>3 DEF TypeOK, MemType, TurnType
<1>5. /\ log'.answerDue = log.answerDue /\ log'.unnamed = log.unnamed
      /\ log'.excused = log.excused /\ log'.faults = log.faults
      /\ log'.unowed = IF r.type = "call" /\ ~LateWork THEN log.unowed \cup {r.ref}
                       ELSE log.unowed
  BY <1>1 DEF TypeOK, LogType
<1>6. ASSUME NEW c \in Calls, r = Call(c)
      PROVE  ~Occurs(Call(c), store.records) /\ (~LateWork => c \in log'.unowed)
  <2>1. r.type = "call" /\ r.ref = c
    BY <1>6 DEF Call
  <2> QED
    BY <1>1, <1>5, <1>6, <2>1
<1>7. pc = "stream" /\ pc' = "stream"
  BY DEF StreamBlock
<1> QED
  BY <1>2, <1>3, <1>4, <1>5, <1>6, <1>7 DEF RecordKept

(* The end of a stream, in whatever state, answers what was due; so does a  *)
(* stream that throws, whose open calls are excused.                        *)
LEMMA StreamEndsDoes ==
  ASSUME TypeOK, NEW state \in Ending, StreamEnds(state)
  PROVE  /\ pc = "stream" /\ pc' = "responded" /\ store' = store
         /\ mem'.held = mem.held /\ mem'.owed.pending = mem.owed.pending
         /\ mem'.turn.then = mem.turn.then /\ mem'.turn.blocked = mem.turn.blocked
         /\ mem'.run.aborted = mem.run.aborted
         /\ log'.answerDue = FALSE
         /\ log'.excused = log.excused /\ log'.unowed = log.unowed
         /\ log'.faults = log.faults
<1>1. PICK t : mem' = [mem EXCEPT !.turn.state = state, !.owed.requestOpen = FALSE,
                                  !.run.turnRequested = t]
  BY DEF StreamEnds, TypeOK, MemType, RunType
<1>2. /\ mem'.held = mem.held /\ mem'.owed = [mem.owed EXCEPT !.requestOpen = FALSE]
      /\ mem'.turn = [mem.turn EXCEPT !.state = state]
      /\ mem'.run = [mem.run EXCEPT !.turnRequested = t]
  BY <1>1 DEF TypeOK, MemType
<1>3. mem.owed \in OwedType /\ mem.turn \in TurnType /\ mem.run \in RunType
  BY DEF TypeOK, MemType
<1>4. mem'.owed.pending = mem.owed.pending
  BY <1>2, <1>3 DEF OwedType
<1>5. mem'.turn.then = mem.turn.then /\ mem'.turn.blocked = mem.turn.blocked
  BY <1>2, <1>3 DEF TurnType
<1>6. mem'.run.aborted = mem.run.aborted
  BY <1>2, <1>3 DEF RunType
<1>7. /\ log'.answerDue = FALSE /\ log'.excused = log.excused /\ log'.unowed = log.unowed
      /\ log'.faults = log.faults
  BY DEF StreamEnds, TypeOK, LogType
<1> QED
  BY <1>2, <1>4, <1>5, <1>6, <1>7 DEF StreamEnds

LEMMA StreamThrowsDoes ==
  ASSUME TypeOK, StreamThrows
  PROVE  /\ pc = "stream" /\ pc' = "settleCalls" /\ store' = store
         /\ mem'.held = mem.held /\ mem'.owed = mem.owed /\ mem'.run = mem.run
         /\ mem'.turn.then = "catch" /\ mem'.turn.blocked = mem.turn.blocked
         /\ log'.answerDue = FALSE /\ log'.unowed = log.unowed
         /\ log'.excused = log.excused \cup Unanswered(store.records)
         /\ log.faults \in Nat /\ log'.faults = log.faults + 1
<1>1. /\ mem'.held = mem.held /\ mem'.owed = mem.owed /\ mem'.run = mem.run
      /\ mem'.turn = [mem.turn EXCEPT !.then = "catch"]
  BY DEF StreamThrows, TypeOK, MemType
<1>2. mem'.turn.then = "catch" /\ mem'.turn.blocked = mem.turn.blocked
  BY <1>1 DEF TypeOK, MemType, TurnType
<1>3. /\ log'.answerDue = FALSE /\ log'.unowed = log.unowed
      /\ log'.excused = log.excused \cup Unanswered(store.records)
      /\ log.faults \in Nat /\ log'.faults = log.faults + 1
  BY DEF StreamThrows, Failing, TypeOK, LogType
<1> QED
  BY <1>1, <1>2, <1>3 DEF StreamThrows

(* A turn that throws settles its calls as a failed one.                    *)
LEMMA TurnThrowsDoes ==
  ASSUME TypeOK, TurnThrows
  PROVE  /\ pc \in {"steering", "send", "commit", "answered", "cycle", "dispatch", "request"}
         /\ pc' = "settleCalls" /\ store' = store /\ Fails
         /\ mem'.held = mem.held /\ mem'.run = mem.run
         /\ mem'.owed.pending = mem.owed.pending
         /\ mem'.turn.then = "catch" /\ mem'.turn.blocked = mem.turn.blocked
<1>1. PICK r : mem' = [mem EXCEPT !.turn.then = "catch", !.owed.requestOpen = r]
  BY DEF TurnThrows, TypeOK, MemType, OwedType
<1>2. /\ mem'.held = mem.held /\ mem'.run = mem.run
      /\ mem'.owed = [mem.owed EXCEPT !.requestOpen = r]
      /\ mem'.turn = [mem.turn EXCEPT !.then = "catch"]
  BY <1>1 DEF TypeOK, MemType
<1>3. mem'.owed.pending = mem.owed.pending
  BY <1>2 DEF TypeOK, MemType, OwedType
<1>4. mem'.turn.then = "catch" /\ mem'.turn.blocked = mem.turn.blocked
  BY <1>2 DEF TypeOK, MemType, TurnType
<1>5. Fails
  BY FailingDoes DEF TurnThrows
<1> QED
  BY <1>2, <1>3, <1>4, <1>5 DEF TurnThrows, Kinds

(* The response joins the conversation, and its calls are the next batch.   *)
LEMMA EndInferenceDoes ==
  ASSUME TypeOK, EndInference
  PROVE  /\ pc = "responded" /\ SaidKept /\ mem'.run = mem.run /\ ClaimsKept
         /\ mem'.held.messages = Said /\ mem'.held.loaded = mem.held.loaded
         /\ mem'.turn.then = "response" /\ mem'.turn.blocked = mem.turn.blocked
         /\ (Writes("inference") /\ HistoryKept) \/ (RecordKept /\ Fails)
         /\ \/ pc' \in {"settleCalls", "cycle"}
            \/ pc' = "finally" /\ mem.run.draining
            \/ pc' = "dispatch" /\ mem'.turn.batch # {}
<1> DEFINE calls == {c \in Calls : Occurs(Call(c), mem.turn.partial)}
           ended == [mem EXCEPT
               !.held.messages = Said, !.turn.partial = <<>>,
               !.turn.needs = FALSE,
               !.turn.batch = calls, !.turn.resumed = FALSE, !.turn.then = "response"]
<1>1. \/ /\ store' = [store EXCEPT !.owed = Recorded("inference")]
         /\ mem' = [ended EXCEPT !.owed.pending = Owing("inference")]
         /\ UNCHANGED log
      \/ mem' = ended /\ log' = Failing /\ UNCHANGED store
  BY DEF EndInference
<1>2. /\ pc = "responded"
      /\ pc' = IF mem.turn.state # "tool_call" THEN "settleCalls"
                 ELSE IF mem.run.draining THEN "finally"
                 ELSE IF calls = {} THEN "cycle" ELSE "dispatch"
  BY DEF EndInference
<1> HIDE DEF calls
<1>3. /\ ended.run = mem.run /\ ended.owed = mem.owed /\ DOMAIN ended = DOMAIN mem
      /\ ended.held = [mem.held EXCEPT !.messages = Said]
      /\ ended.turn = [mem.turn EXCEPT !.partial = <<>>, !.needs = FALSE, !.batch = calls,
                                       !.resumed = FALSE, !.then = "response"]
  BY DEF TypeOK, MemType
<1> HIDE DEF ended
<1>4. DOMAIN mem = {"held", "run", "owed", "turn"}
  BY DEF TypeOK, MemType
<1>5. /\ mem'.run = mem.run /\ mem'.held = ended.held /\ mem'.turn = ended.turn
      /\ \/ mem' = ended
         \/ mem'.owed = [ended.owed EXCEPT !.pending = Owing("inference")]
  BY <1>1, <1>3, <1>4
<1>6. mem.held \in HeldType /\ mem.turn \in TurnType /\ mem.owed \in OwedType
  BY DEF TypeOK, MemType
<1>7. mem'.held.messages = Said /\ mem'.held.loaded = mem.held.loaded
  BY <1>3, <1>5, <1>6 DEF HeldType
<1>8. /\ mem'.turn.then = "response" /\ mem'.turn.blocked = mem.turn.blocked
      /\ mem'.turn.batch = calls
  BY <1>3, <1>5, <1>6 DEF TurnType
<1>9. CASE /\ store' = [store EXCEPT !.owed = Recorded("inference")]
           /\ mem' = [ended EXCEPT !.owed.pending = Owing("inference")]
           /\ UNCHANGED log
  <2>1. mem'.owed = [mem.owed EXCEPT !.pending = Owing("inference")]
    BY <1>3, <1>4, <1>9
  <2>2. ClaimsKept /\ mem'.owed.pending = Owing("inference")
    BY <1>6, <2>1 DEF ClaimsKept, OwedType
  <2>3. SaidKept /\ store'.owed = Recorded("inference")
    BY <1>9 DEF SaidKept, TypeOK, StoreType
  <2>4. HistoryKept
    BY <1>9, FailingDoes
  <2> QED
    BY <1>2, <1>5, <1>7, <1>8, <2>2, <2>3, <2>4 DEF Writes
<1>10. CASE mem' = ended /\ log' = Failing /\ UNCHANGED store
  <2>1. ClaimsKept /\ RecordKept /\ SaidKept /\ Fails
    BY <1>3, <1>10, FailingDoes DEF ClaimsKept, RecordKept, SaidKept
  <2> QED
    BY <1>2, <1>5, <1>7, <1>8, <2>1
<1> QED
  BY <1>1, <1>9, <1>10

(* Owed calls are staged, left to the durable batch, or left by a failure.  *)
LEMMA SettleCallsDoes ==
  ASSUME TypeOK, SettleCalls
  PROVE  /\ pc = "settleCalls" /\ SaidKept
         /\ mem'.held = mem.held /\ mem'.run = mem.run /\ ClaimsKept
         /\ mem'.turn.then = mem.turn.then
         /\ \/ /\ Unanswered(mem.held.messages) = {} /\ RecordKept /\ HistoryKept
               /\ mem'.turn = mem.turn /\ pc' \in {"note", "cycle"}
               /\ Failed => pc' = "note"
            \/ /\ Unanswered(mem.held.messages) # {} /\ RecordKept /\ HistoryKept
               /\ pc' = IF Failed THEN "fail" ELSE "note"
            \/ /\ Unanswered(mem.held.messages) # {} /\ Writes("tools") /\ HistoryKept
               /\ mem'.turn.blocked = mem.turn.blocked /\ pc' = "appendResults"
            \/ /\ RecordKept /\ Fails /\ mem'.turn = mem.turn
               /\ pc' = IF Failed THEN "fail" ELSE "note"
<1> DEFINE owed == Unanswered(mem.held.messages)
           refused == IF mem.turn.then = "catch" THEN "fail" ELSE "note"
<1>0. mem.turn \in TurnType /\ mem.owed \in OwedType
  BY DEF TypeOK, MemType
<1>1. CASE /\ owed = {}
           /\ pc' = IF mem.turn.then = "catch" THEN "note" ELSE AfterResponse
           /\ UNCHANGED <<store, mem, log>>
  BY <1>1, FailingDoes
  DEF SettleCalls, AfterResponse, SaidKept, ClaimsKept, RecordKept, Failed
<1>2. CASE /\ owed # {} /\ mem' = [mem EXCEPT !.turn.blocked = TRUE]
           /\ pc' = refused /\ UNCHANGED <<store, log>>
  <2>1. /\ mem'.held = mem.held /\ mem'.run = mem.run /\ mem'.owed = mem.owed
        /\ mem'.turn = [mem.turn EXCEPT !.blocked = TRUE]
    BY <1>2 DEF TypeOK, MemType
  <2>2. mem'.turn.then = mem.turn.then
    BY <1>0, <2>1 DEF TurnType
  <2> QED
    BY <1>2, <2>1, <2>2, FailingDoes
    DEF SettleCalls, SaidKept, ClaimsKept, RecordKept, Failed
<1>3. CASE /\ owed # {}
           /\ store' = [store EXCEPT
                    !.tools = @ \cup {Entered(c, TRUE) : c \in owed},
                    !.owed = Recorded("tools")]
           /\ mem' = [mem EXCEPT !.owed.pending = Owing("tools"), !.turn.batch = owed]
           /\ pc' = "appendResults"
           /\ UNCHANGED log
  <2> HIDE DEF owed, refused
  <2>1. /\ mem'.held = mem.held /\ mem'.run = mem.run
        /\ mem'.owed = [mem.owed EXCEPT !.pending = Owing("tools")]
        /\ mem'.turn = [mem.turn EXCEPT !.batch = owed]
    BY <1>3 DEF TypeOK, MemType
  <2>2. mem'.turn.then = mem.turn.then /\ mem'.turn.blocked = mem.turn.blocked
    BY <1>0, <2>1 DEF TurnType
  <2>3. ClaimsKept /\ mem'.owed.pending = Owing("tools")
    BY <1>0, <2>1 DEF ClaimsKept, OwedType
  <2>4. SaidKept /\ store'.owed = Recorded("tools")
    BY <1>3 DEF SaidKept, TypeOK, StoreType
  <2>5. HistoryKept /\ pc = "settleCalls"
    BY <1>3, FailingDoes DEF SettleCalls
  <2>6. Unanswered(mem.held.messages) # {}
    BY <1>3 DEF owed
  <2> QED
    BY <1>3, <2>1, <2>2, <2>3, <2>4, <2>5, <2>6 DEF Writes
<1>4. CASE log' = Failing /\ pc' = refused /\ UNCHANGED <<store, mem>>
  BY <1>4, FailingDoes DEF SettleCalls, SaidKept, ClaimsKept, RecordKept, Failed
<1> QED
  BY <1>1, <1>2, <1>3, <1>4 DEF SettleCalls

(* A staged result joins the conversation, or stays with its entry.         *)
LEMMA ResultsDo ==
  ASSUME TypeOK, AppendResults
  PROVE  /\ pc = "appendResults" /\ store'.queue = store.queue
         /\ mem'.run = mem.run /\ ClaimsKept
         /\ mem'.held.loaded = mem.held.loaded
         /\ mem'.turn.then = mem.turn.then
         /\ \/ /\ \E c \in mem.turn.batch :
                     /\ store'.records = Append(store.records, Result(c))
                     /\ mem'.held.messages = Append(mem.held.messages, Result(c))
               /\ Writes("inference") /\ HistoryKept
               /\ mem'.turn = mem.turn /\ pc' \in {"note", "cycle"}
               /\ Failed => pc' = "note"
            \/ /\ store' = store /\ RecordKept /\ Fails /\ mem'.held = mem.held
               /\ pc' = IF Failed THEN "fail" ELSE "note"
<1>0. mem.turn \in TurnType /\ mem.owed \in OwedType /\ mem.held \in HeldType
  BY DEF TypeOK, MemType
<1>1. ASSUME NEW c \in mem.turn.batch,
             store' = [store EXCEPT
                 !.records = Append(@, Result(c)),
                 !.tools = WithoutEntry(c),
                 !.owed = Recorded("inference")],
             mem' = [mem EXCEPT
                 !.held.messages = Append(@, Result(c)),
                 !.owed.pending = Owing("inference")],
             pc' = IF mem.turn.then = "catch" THEN "note" ELSE AfterResponse,
             UNCHANGED log
      PROVE  /\ store'.queue = store.queue
             /\ mem'.run = mem.run /\ ClaimsKept
             /\ mem'.held.loaded = mem.held.loaded
             /\ store'.records = Append(store.records, Result(c))
             /\ mem'.held.messages = Append(mem.held.messages, Result(c))
             /\ Writes("inference") /\ HistoryKept
             /\ mem'.turn = mem.turn /\ pc' \in {"note", "cycle"}
             /\ Failed => pc' = "note"
  <2>1. /\ store'.queue = store.queue /\ store'.owed = Recorded("inference")
        /\ store'.records = Append(store.records, Result(c))
    BY <1>1 DEF TypeOK, StoreType
  <2>2. /\ mem'.run = mem.run /\ mem'.turn = mem.turn
        /\ mem'.owed = [mem.owed EXCEPT !.pending = Owing("inference")]
        /\ mem'.held = [mem.held EXCEPT !.messages = Append(@, Result(c))]
    BY <1>1 DEF TypeOK, MemType
  <2>3. ClaimsKept /\ mem'.owed.pending = Owing("inference")
    BY <1>0, <2>2 DEF ClaimsKept, OwedType
  <2>4. /\ mem'.held.messages = Append(mem.held.messages, Result(c))
        /\ mem'.held.loaded = mem.held.loaded
    BY <1>0, <2>2 DEF HeldType
  <2>5. HistoryKept
    BY <1>1, FailingDoes
  <2>6. pc' \in {"note", "cycle"} /\ (Failed => pc' = "note")
    BY <1>1 DEF AfterResponse, Failed
  <2> QED
    BY <2>1, <2>2, <2>3, <2>4, <2>5, <2>6 DEF Writes
<1>2. CASE /\ log' = Failing
           /\ mem' = [mem EXCEPT !.turn.blocked = TRUE]
           /\ pc' = IF mem.turn.then = "catch" THEN "fail" ELSE "note"
           /\ UNCHANGED store
  <2>1. /\ mem'.held = mem.held /\ mem'.run = mem.run /\ mem'.owed = mem.owed
        /\ mem'.turn = [mem.turn EXCEPT !.blocked = TRUE]
    BY <1>2 DEF TypeOK, MemType
  <2>2. mem'.turn.then = mem.turn.then
    BY <1>0, <2>1 DEF TurnType
  <2> QED
    BY <1>2, <2>1, <2>2, FailingDoes DEF AppendResults, ClaimsKept, RecordKept, Failed
<1>3. pc = "appendResults"
  BY DEF AppendResults
<1>4. CASE \E c \in mem.turn.batch :
           /\ store' = [store EXCEPT
                 !.records = Append(@, Result(c)),
                 !.tools = WithoutEntry(c),
                 !.owed = Recorded("inference")]
           /\ mem' = [mem EXCEPT
                 !.held.messages = Append(@, Result(c)),
                 !.owed.pending = Owing("inference")]
           /\ pc' = IF mem.turn.then = "catch" THEN "note" ELSE AfterResponse
           /\ UNCHANGED log
  BY <1>1, <1>3, <1>4
<1> QED
  BY <1>2, <1>4 DEF AppendResults

(* A batch enters its stage; a resumed one may fail to.                     *)
LEMMA DispatchDoes ==
  ASSUME TypeOK, Dispatch
  PROVE  /\ pc = "dispatch" /\ pc' = "execute" /\ SaidKept
         /\ mem'.held = mem.held /\ mem'.run = mem.run /\ mem'.turn = mem.turn /\ ClaimsKept
         /\ \/ Writes("tools") /\ HistoryKept
            \/ /\ RecordKept /\ log'.answerDue = log.answerDue
               /\ log'.excused = log.excused /\ log'.unowed = log.unowed
               /\ log'.unnamed = (log.unnamed \/ ~LateWork)
               /\ log.faults \in Nat /\ log'.faults = log.faults + 1
<1>1. CASE /\ store' = [store EXCEPT
                !.tools = IF mem.turn.resumed THEN @
                          ELSE @ \cup {Entered(c, FALSE) : c \in mem.turn.batch},
                !.owed = Recorded("tools")]
           /\ mem' = [mem EXCEPT !.owed.pending = Owing("tools")]
           /\ UNCHANGED log
  <2>1. SaidKept /\ store'.owed = Recorded("tools")
    BY <1>1 DEF SaidKept, TypeOK, StoreType
  <2>2. /\ mem'.held = mem.held /\ mem'.run = mem.run /\ mem'.turn = mem.turn
        /\ mem'.owed = [mem.owed EXCEPT !.pending = Owing("tools")]
    BY <1>1 DEF TypeOK, MemType
  <2>3. ClaimsKept /\ mem'.owed.pending = Owing("tools")
    BY <2>2 DEF ClaimsKept, TypeOK, MemType, OwedType
  <2>4. HistoryKept /\ pc = "dispatch" /\ pc' = "execute"
    BY <1>1, FailingDoes DEF Dispatch
  <2> QED
    BY <2>1, <2>2, <2>3, <2>4 DEF Writes
<1>2. CASE /\ log' = [Failing EXCEPT !.unnamed = @ \/ ~LateWork] /\ UNCHANGED <<store, mem>>
  <2>1. /\ log'.answerDue = log.answerDue
        /\ log'.excused = log.excused /\ log'.unowed = log.unowed
        /\ log'.unnamed = (log.unnamed \/ ~LateWork)
        /\ log.faults \in Nat /\ log'.faults = log.faults + 1
    BY <1>2 DEF Failing, TypeOK, LogType
  <2> QED
    BY <1>2, <2>1 DEF Dispatch, SaidKept, ClaimsKept, RecordKept
<1> QED
  BY <1>1, <1>2 DEF Dispatch

(* While the batch executes, no record and nothing said changes; what a stop*)
(* cuts short ends its turn or leaves the run.                              *)
LEMMA RunningDoes ==
  ASSUME TypeOK, Execute \/ ToolCommitsEarly \/ ToolSettles \/ ToolReloads
  PROVE  /\ SaidKept /\ store'.owed = store.owed /\ HistoryKept
         /\ mem'.held = mem.held /\ mem'.run = mem.run /\ mem'.owed = mem.owed
         /\ mem'.turn.batch = mem.turn.batch /\ mem'.turn.then = mem.turn.then
         /\ mem'.turn.blocked = mem.turn.blocked
         /\ \/ pc = "execute" /\ pc' \in {"running", "commit"}
            \/ pc = "running" /\ pc' \in {"running", "commit"}
            \/ pc = "running" /\ mem.run.draining /\ pc' = "finally"
            \/ pc = "running" /\ ~mem.run.draining /\ pc' = BatchCutShort
<1>0. mem.turn \in TurnType
  BY DEF TypeOK, MemType
<1>1. CASE Execute
  <2>1. \/ mem' = mem
        \/ \E s : mem' = [mem EXCEPT !.turn.stopped = s]
    BY <1>1, Zenon DEF Execute
  <2>2. /\ mem'.held = mem.held /\ mem'.run = mem.run /\ mem'.owed = mem.owed
        /\ \/ mem'.turn = mem.turn
           \/ \E s : mem'.turn = [mem.turn EXCEPT !.stopped = s]
    BY <2>1 DEF TypeOK, MemType
  <2>3. /\ mem'.turn.batch = mem.turn.batch /\ mem'.turn.then = mem.turn.then
        /\ mem'.turn.blocked = mem.turn.blocked
    BY <1>0, <2>2 DEF TurnType
  <2>4. log' = log \/ \E c \in mem.turn.batch : log' = [log EXCEPT !.ran[c] = @ + 1]
    BY <1>1 DEF Execute
  <2>5. HistoryKept
    BY <2>4 DEF HistoryKept, DueKept, TypeOK, LogType
  <2>6. pc = "execute" /\ pc' \in {"running", "commit"} /\ store' = store
    BY <1>1 DEF Execute
  <2> QED
    BY <2>2, <2>3, <2>5, <2>6 DEF SaidKept
<1>2. CASE ToolCommitsEarly
  <2>1. SaidKept /\ store'.owed = store.owed
    BY <1>2 DEF ToolCommitsEarly, SaidKept, TypeOK, StoreType
  <2> QED
    BY <1>2, <2>1, FailingDoes DEF ToolCommitsEarly
<1>3. CASE ToolSettles
  <2>1. \E s : mem' = [mem EXCEPT !.turn.stopped = s]
    BY <1>3, Zenon DEF ToolSettles
  <2>2. /\ mem'.held = mem.held /\ mem'.run = mem.run /\ mem'.owed = mem.owed
        /\ \E s : mem'.turn = [mem.turn EXCEPT !.stopped = s]
    BY <2>1 DEF TypeOK, MemType
  <2>3. /\ mem'.turn.batch = mem.turn.batch /\ mem'.turn.then = mem.turn.then
        /\ mem'.turn.blocked = mem.turn.blocked
    BY <1>0, <2>2 DEF TurnType
  <2> QED
    BY <1>3, <2>2, <2>3, FailingDoes DEF ToolSettles, SaidKept
<1>4. CASE ToolReloads
  BY <1>4, FailingDoes DEF ToolReloads, SaidKept
<1> QED
  BY <1>1, <1>2, <1>3, <1>4

(* A result joins the conversation and makes an answer due.                 *)
LEMMA CommitDoes ==
  ASSUME TypeOK, CommitResult
  PROVE  /\ pc = "commit" /\ pc' = "answered" /\ store'.queue = store.queue /\ RecordKept
         /\ \E c \in mem.turn.batch : store'.records = Append(store.records, Result(c))
         /\ mem'.held.loaded = mem.held.loaded
         /\ mem'.run = mem.run /\ mem'.owed = mem.owed /\ mem'.turn = mem.turn
         /\ log'.answerDue = (~mem.run.aborted /\ ~mem.turn.stopped)
         /\ log'.unnamed = log.unnamed /\ log'.excused = log.excused
         /\ log'.unowed = log.unowed /\ log'.faults = log.faults
<1>1. PICK c \in mem.turn.batch :
        /\ store' = [store EXCEPT
              !.records = Append(@, Result(c)),
              !.tools = WithoutEntry(c)]
        /\ mem' = [mem EXCEPT !.held.messages = Append(@, Result(c))]
  BY DEF CommitResult
<1>2. /\ store'.queue = store.queue /\ store'.owed = store.owed
      /\ store'.records = Append(store.records, Result(c))
  BY <1>1 DEF TypeOK, StoreType
<1>3. /\ mem'.run = mem.run /\ mem'.owed = mem.owed /\ mem'.turn = mem.turn
      /\ mem'.held = [mem.held EXCEPT !.messages = Append(@, Result(c))]
  BY <1>1 DEF TypeOK, MemType
<1>4. mem'.held.loaded = mem.held.loaded
  BY <1>3 DEF TypeOK, MemType, HeldType
<1>5. /\ log'.answerDue = (~mem.run.aborted /\ ~mem.turn.stopped)
      /\ log'.unnamed = log.unnamed /\ log'.excused = log.excused
      /\ log'.unowed = log.unowed /\ log'.faults = log.faults
  BY DEF CommitResult, TypeOK, LogType
<1> QED
  BY <1>2, <1>3, <1>4, <1>5 DEF CommitResult, RecordKept

(* The batch is over: its results are owed an inference.                    *)
LEMMA EndBatchDoes ==
  ASSUME TypeOK, EndBatch
  PROVE  /\ pc = "answered" /\ SaidKept /\ Writes("inference") /\ HistoryKept
         /\ mem'.held = mem.held /\ mem'.run = mem.run /\ ClaimsKept
         /\ mem'.turn.needs = TRUE /\ mem'.turn.then = mem.turn.then
         /\ mem'.turn.blocked = mem.turn.blocked
         /\ pc' = IF mem.run.draining THEN "finally"
                  ELSE IF mem.turn.stopped THEN BatchCutShort
                  ELSE IF mem.owed.recoveryChecked THEN "cycle" ELSE "recover"
<1>1. SaidKept /\ store'.owed = Recorded("inference")
  BY DEF EndBatch, SaidKept, TypeOK, StoreType
<1>2. /\ mem'.held = mem.held /\ mem'.run = mem.run
      /\ mem'.owed = [mem.owed EXCEPT !.pending = Owing("inference")]
      /\ mem'.turn = [mem.turn EXCEPT !.needs = TRUE, !.batch = {}]
  BY DEF EndBatch, TypeOK, MemType
<1>3. mem.owed \in OwedType /\ mem.turn \in TurnType
  BY DEF TypeOK, MemType
<1>4. ClaimsKept /\ mem'.owed.pending = Owing("inference")
  BY <1>2, <1>3 DEF ClaimsKept, OwedType
<1>5. /\ mem'.turn.needs = TRUE /\ mem'.turn.then = mem.turn.then
      /\ mem'.turn.blocked = mem.turn.blocked
  BY <1>2, <1>3 DEF TurnType
<1> QED
  BY <1>1, <1>2, <1>4, <1>5, FailingDoes DEF EndBatch, Writes

(* A failure is noted, or its own failure swallowed.                        *)
LEMMA NoteDoes ==
  ASSUME TypeOK, AppendFailure
  PROVE  /\ pc = "note" /\ NotesFailure /\ pc' = IF Failed THEN "fail" ELSE "turnDone"
         /\ store'.queue = store.queue /\ RecordKept
         /\ mem'.held.loaded = mem.held.loaded
         /\ mem'.run = mem.run /\ mem'.owed = mem.owed /\ mem'.turn = mem.turn
         /\ \/ /\ store'.records = Append(store.records, System)
               /\ mem'.held.messages = Append(mem.held.messages, System) /\ HistoryKept
            \/ store' = store /\ mem' = mem /\ Fails
<1>1. CASE /\ store' = [store EXCEPT !.records = Append(@, System)]
           /\ mem' = [mem EXCEPT !.held.messages = Append(@, System)]
           /\ UNCHANGED log
  <2>1. /\ store'.queue = store.queue /\ store'.owed = store.owed
        /\ store'.records = Append(store.records, System)
    BY <1>1 DEF TypeOK, StoreType
  <2>2. /\ mem'.run = mem.run /\ mem'.owed = mem.owed /\ mem'.turn = mem.turn
        /\ mem'.held = [mem.held EXCEPT !.messages = Append(@, System)]
    BY <1>1 DEF TypeOK, MemType
  <2>3. /\ mem'.held.messages = Append(mem.held.messages, System)
        /\ mem'.held.loaded = mem.held.loaded
    BY <2>2 DEF TypeOK, MemType, HeldType
  <2>4. HistoryKept
    BY <1>1, FailingDoes
  <2> QED
    BY <2>1, <2>2, <2>3, <2>4 DEF AppendFailure, RecordKept, Failed
<1>2. CASE log' = Failing /\ UNCHANGED <<store, mem>>
  BY <1>2, FailingDoes DEF AppendFailure, RecordKept, Failed
<1> QED
  BY <1>1, <1>2 DEF AppendFailure

(* A failed turn answers the input it was to take.                          *)
LEMMA FailTurnDoes ==
  ASSUME TypeOK, FailTurn
  PROVE  /\ pc = "fail" /\ pc' = "turnDone" /\ store' = store
         /\ mem'.held.messages = mem.held.messages /\ mem'.held.loaded = mem.held.loaded
         /\ mem'.owed = mem.owed /\ mem'.turn = mem.turn
         /\ mem'.run.aborted = mem.run.aborted
         /\ log'.answerDue = FALSE
         /\ log'.excused = log.excused /\ log'.unowed = log.unowed
         /\ log'.faults = log.faults
<1>1. /\ mem'.owed = mem.owed /\ mem'.turn = mem.turn
      /\ mem'.held = [mem.held EXCEPT !.abandoned = @ \cup mem.held.waiting]
      /\ mem'.run = [mem.run EXCEPT !.turnRequested = StillRequested(mem.held.waiting)]
  BY DEF FailTurn, TypeOK, MemType
<1>2. mem'.held.messages = mem.held.messages /\ mem'.held.loaded = mem.held.loaded
  BY <1>1 DEF TypeOK, MemType, HeldType
<1>3. mem'.run.aborted = mem.run.aborted
  BY <1>1 DEF TypeOK, MemType, RunType
<1>4. /\ log'.answerDue = FALSE /\ log'.excused = log.excused /\ log'.unowed = log.unowed
      /\ log'.faults = log.faults
  BY DEF FailTurn, Abandoning, TypeOK, LogType
<1> QED
  BY <1>1, <1>2, <1>3, <1>4 DEF FailTurn

(* The settle decision, and the settlement.                                 *)
LEMMA SettlingDoes ==
  ASSUME TypeOK, EnterSettlement
  PROVE  /\ pc = "enterSettlement" /\ pc' = "settle" /\ SaidKept /\ ClaimsKept
         /\ mem'.held = mem.held /\ mem'.run = mem.run /\ mem'.turn = mem.turn
         /\ \/ /\ store'.owed = Owing("settlement")
               /\ mem'.owed.pending = Owing("settlement") /\ HistoryKept
            \/ RecordKept /\ HistoryKept
            \/ RecordKept /\ Fails
<1>1. CASE /\ store' = [store EXCEPT !.owed = Owing("settlement")]
           /\ mem' = [mem EXCEPT !.owed.pending = Owing("settlement")]
           /\ UNCHANGED log
  <2>1. SaidKept /\ store'.owed = Owing("settlement")
    BY <1>1 DEF SaidKept, TypeOK, StoreType
  <2>2. /\ mem'.held = mem.held /\ mem'.run = mem.run /\ mem'.turn = mem.turn
        /\ mem'.owed = [mem.owed EXCEPT !.pending = Owing("settlement")]
    BY <1>1 DEF TypeOK, MemType
  <2>3. ClaimsKept /\ mem'.owed.pending = Owing("settlement")
    BY <2>2 DEF ClaimsKept, TypeOK, MemType, OwedType
  <2>4. HistoryKept
    BY <1>1, FailingDoes
  <2> QED
    BY <2>1, <2>2, <2>3, <2>4 DEF EnterSettlement
<1>2. CASE UNCHANGED <<store, mem>> /\ (log' = Failing \/ UNCHANGED log)
  BY <1>2, FailingDoes DEF EnterSettlement, SaidKept, ClaimsKept, RecordKept
<1> QED
  BY <1>1, <1>2 DEF EnterSettlement

LEMMA SettleDoes ==
  ASSUME TypeOK, Settle
  PROVE  /\ pc = "settle" /\ pc' = "finally" /\ SaidKept
         /\ mem'.held = mem.held /\ mem'.turn = mem.turn
         /\ mem'.run.aborted = mem.run.aborted
         /\ \/ /\ store'.owed = SettledRecord /\ mem'.owed.pending = SettledRecord
               /\ mem'.run.reopened = LateWork /\ HistoryKept
            \/ RecordKept /\ Fails
<1>1. CASE /\ store' = [store EXCEPT !.owed = SettledRecord]
           /\ mem' = [mem EXCEPT !.owed.pending = SettledRecord, !.owed.requestOpen = FALSE,
                                 !.run.reopened = LateWork]
           /\ UNCHANGED log
  <2>1. SaidKept /\ store'.owed = SettledRecord
    BY <1>1 DEF SaidKept, TypeOK, StoreType
  <2>2. /\ mem'.held = mem.held /\ mem'.turn = mem.turn
        /\ mem'.owed = [mem.owed EXCEPT !.pending = SettledRecord, !.requestOpen = FALSE]
        /\ mem'.run = [mem.run EXCEPT !.reopened = LateWork]
    BY <1>1 DEF TypeOK, MemType
  <2>3. mem'.owed.pending = SettledRecord
    BY <2>2 DEF TypeOK, MemType, OwedType
  <2>4. mem'.run.aborted = mem.run.aborted /\ mem'.run.reopened = LateWork
    BY <2>2 DEF TypeOK, MemType, RunType
  <2>5. HistoryKept
    BY <1>1, FailingDoes
  <2> QED
    BY <2>1, <2>2, <2>3, <2>4, <2>5 DEF Settle
<1>2. CASE UNCHANGED <<store, mem>> /\ log' = Failing
  BY <1>2, FailingDoes DEF Settle, SaidKept, RecordKept
<1> QED
  BY <1>1, <1>2 DEF Settle

(* A run opened by the one before it claims its flags as well.              *)
LEMMA NewRunDoes ==
  ASSUME NEW o \in MemType, NEW s
  PROVE  /\ NewRun(o, s).held = o.held /\ NewRun(o, s).owed = o.owed
         /\ NewRun(o, s).turn = o.turn
         /\ NewRun(o, s).run.aborted = o.run.aborted
         /\ NewRun(o, s).run.draining = o.run.draining
         /\ NewRun(o, s).run.closed = o.run.closed
         /\ NewRun(o, s).run.abortDropped = FALSE /\ NewRun(o, s).run.settleOnly = s
<1>1. o.run \in RunType
  BY DEF MemType
<1>2. /\ NewRun(o, s).held = o.held /\ NewRun(o, s).owed = o.owed
      /\ NewRun(o, s).turn = o.turn
      /\ NewRun(o, s).run = [o.run EXCEPT !.abortDropped = FALSE, !.settleOnly = s]
  BY DEF NewRun, MemType
<1> QED
  BY <1>1, <1>2 DEF RunType

(* The run is over, or another one begins.                                  *)
LEMMA FinallyDoes ==
  ASSUME TypeOK, Finally
  PROVE  /\ pc = "finally" /\ store' = store /\ HistoryKept
         /\ mem'.held = mem.held /\ mem'.owed = mem.owed /\ mem'.turn = mem.turn
         /\ mem'.run.aborted = mem.run.aborted /\ mem'.run.draining = mem.run.draining
         /\ mem'.run.closed = mem.run.closed
         /\ \/ /\ pc' = "begin" /\ mem'.run.abortDropped = FALSE
               /\ mem'.run.settleOnly => RecordOutlivesAbort
            \/ /\ pc' = "idle" /\ mem'.run.abortDropped = mem.run.abortDropped
               /\ \/ mem.run.closed \/ mem.run.draining
                  \/ ~mem.run.turnRequested /\ ~RecordOutlivesAbort /\ ~RecordReopened
<1> DEFINE m == [mem EXCEPT !.run.reopened = FALSE]
           n == [m EXCEPT !.run.turnRequested = TRUE]
<1>1. \/ mem' = NewRun(m, FALSE) /\ pc' = "begin"
      \/ mem' = NewRun(m, TRUE) /\ pc' = "begin" /\ RecordOutlivesAbort
      \/ mem' = NewRun(n, FALSE) /\ pc' = "begin"
      \/ /\ mem' = [m EXCEPT !.run.settleOnly = FALSE] /\ pc' = "idle"
         /\ \/ mem.run.closed \/ mem.run.draining
            \/ ~mem.run.turnRequested /\ ~RecordOutlivesAbort /\ ~RecordReopened
  BY DEF Finally
<1>2. m \in MemType /\ n \in MemType
  BY MemUpdate DEF TypeOK
<1>3. /\ m.held = mem.held /\ m.owed = mem.owed /\ m.turn = mem.turn
      /\ n.held = mem.held /\ n.owed = mem.owed /\ n.turn = mem.turn
  BY DEF TypeOK, MemType
<1>4. /\ m.run.aborted = mem.run.aborted /\ m.run.draining = mem.run.draining
      /\ m.run.closed = mem.run.closed /\ m.run.abortDropped = mem.run.abortDropped
      /\ n.run.aborted = mem.run.aborted /\ n.run.draining = mem.run.draining
      /\ n.run.closed = mem.run.closed
  BY DEF TypeOK, MemType, RunType
<1> HIDE DEF m, n
<1>7. pc = "finally" /\ store' = store /\ HistoryKept
  BY DEF Finally, HistoryKept, DueKept, TypeOK, LogType
<1>8. ASSUME NEW o \in {m, n}, NEW s \in BOOLEAN, mem' = NewRun(o, s), pc' = "begin",
             s => RecordOutlivesAbort
      PROVE  /\ mem'.held = mem.held /\ mem'.owed = mem.owed /\ mem'.turn = mem.turn
             /\ mem'.run.aborted = mem.run.aborted /\ mem'.run.draining = mem.run.draining
             /\ mem'.run.closed = mem.run.closed
             /\ pc' = "begin" /\ mem'.run.abortDropped = FALSE
             /\ mem'.run.settleOnly => RecordOutlivesAbort
  <2>1. o \in MemType
    BY <1>2, <1>8
  <2>2. /\ NewRun(o, s).held = o.held /\ NewRun(o, s).owed = o.owed
        /\ NewRun(o, s).turn = o.turn
        /\ NewRun(o, s).run.aborted = o.run.aborted
        /\ NewRun(o, s).run.draining = o.run.draining
        /\ NewRun(o, s).run.closed = o.run.closed
        /\ NewRun(o, s).run.abortDropped = FALSE /\ NewRun(o, s).run.settleOnly = s
    BY <2>1, NewRunDoes
  <2>3. /\ mem'.held = o.held /\ mem'.owed = o.owed /\ mem'.turn = o.turn
        /\ mem'.run.aborted = o.run.aborted /\ mem'.run.draining = o.run.draining
        /\ mem'.run.closed = o.run.closed /\ mem'.run.settleOnly = s
        /\ mem'.run.abortDropped = FALSE
    BY <1>8, <2>2
  <2>4. /\ o.held = mem.held /\ o.owed = mem.owed /\ o.turn = mem.turn
        /\ o.run.aborted = mem.run.aborted /\ o.run.draining = mem.run.draining
        /\ o.run.closed = mem.run.closed
    BY <1>3, <1>4
  <2> QED
    BY <1>8, <2>3, <2>4
<1>9. CASE mem' = NewRun(m, FALSE) /\ pc' = "begin"
  BY <1>7, <1>8, <1>9
<1>10. CASE mem' = NewRun(m, TRUE) /\ pc' = "begin" /\ RecordOutlivesAbort
  BY <1>7, <1>8, <1>10
<1>11. CASE mem' = NewRun(n, FALSE) /\ pc' = "begin"
  BY <1>7, <1>8, <1>11
<1>12. CASE /\ mem' = [m EXCEPT !.run.settleOnly = FALSE] /\ pc' = "idle"
            /\ \/ mem.run.closed \/ mem.run.draining
               \/ ~mem.run.turnRequested /\ ~RecordOutlivesAbort /\ ~RecordReopened
  <2>1. /\ mem'.held = m.held /\ mem'.owed = m.owed /\ mem'.turn = m.turn
        /\ mem'.run = [m.run EXCEPT !.settleOnly = FALSE]
    BY <1>2, <1>12 DEF MemType
  <2>2. m.run \in RunType
    BY <1>2 DEF MemType
  <2>3. /\ mem'.run.aborted = m.run.aborted /\ mem'.run.draining = m.run.draining
        /\ mem'.run.closed = m.run.closed /\ mem'.run.abortDropped = m.run.abortDropped
    BY <2>1, <2>2 DEF RunType
  <2> QED
    BY <1>3, <1>4, <1>7, <1>12, <2>1, <2>3
<1> QED
  BY <1>1, <1>9, <1>10, <1>11, <1>12

-----------------------------------------------------------------------------
(* SettledMeansComplete                                                     *)

(* Where a run has the conversation in memory.                              *)
LoadedAt ==
    {"settleLoaded", "turnStage", "resume", "recover", "cycle", "steering", "send", "request",
     "asked", "stream", "responded", "settleCalls", "appendResults", "dispatch", "execute",
     "running", "commit", "answered", "note", "fail", "turnDone", "turnClosed"}
LoadedInv == pc \in LoadedAt => mem.held.loaded

Excusable == Unanswered(store.records) \subseteq log.excused

(* Once loaded, it is the durable one, unless a failed stream left calls in *)
(* the store that memory never saw.                                         *)
KnowsOrExcused ==
    mem.held.loaded /\ pc \notin {"stream", "responded"} =>
        \/ mem.held.messages = store.records
        \/ Unanswered(mem.held.messages) = {} /\ Excusable

(* A loop closes without it only after a failed load, and a run settles only*)
(* what is answered or excused.                                             *)
SettlesExcused ==
    /\ pc \in {"closeLoop", "loopClosed"} /\ ~mem.held.loaded => Excusable
    /\ pc \in {"enterSettlement", "settle"} => Excusable

CompleteInv == LoadedInv /\ KnowsOrExcused /\ SettlesExcused /\ SettledMeansComplete

(* A step after which the store owes nothing only if it owed nothing before *)
(* it.                                                                      *)
StaysOwed == store'.owed.stage = "none" => store.owed.stage = "none"

LEMMA WritingOwes ==
  ASSUME OwedInv, NEW stage \in WorkStages, Writes(stage)
  PROVE  StaysOwed
BY RecordedOwesWork DEF StaysOwed, Writes, OwedInv, WorkStages

LEMMA KeepingOwes ==
  ASSUME store'.owed = store.owed
  PROVE  StaysOwed
BY DEF StaysOwed

(* Excuses are never taken back.                                            *)
Forgiving == log.excused \subseteq log'.excused /\ log.unowed \subseteq log'.unowed

LEMMA HistoryForgives ==
  ASSUME TypeOK, HistoryKept \/ Fails
  PROVE  Forgiving
BY DEF HistoryKept, Fails, DueKept, Forgiving

(* An agent that settled stays complete while no call is made.              *)
LEMMA SettledKeeps ==
  ASSUME SettledMeansComplete, StaysOwed, Forgiving,
         Unanswered(store'.records) \subseteq Unanswered(store.records)
  PROVE  SettledMeansComplete'
BY DEF SettledMeansComplete, StaysOwed, Forgiving

(* A step that says nothing, keeps the conversation in memory, and neither  *)
(* ends a stream nor closes a loop.                                         *)
Calm ==
    /\ StaysOwed /\ Forgiving /\ store'.records = store.records
    /\ mem'.held.messages = mem.held.messages /\ mem'.held.loaded = mem.held.loaded
    /\ \/ pc' = pc
       \/ /\ pc' \notin {"closeLoop", "loopClosed", "enterSettlement", "settle"}
          /\ pc \in {"stream", "responded"} => pc' \in {"stream", "responded"}
          /\ pc' \in LoadedAt => pc \in LoadedAt \/ mem.held.loaded

LEMMA CalmKeeps ==
  ASSUME CompleteInv, Calm
  PROVE  CompleteInv'
<1>1. SettledMeansComplete'
  BY SettledKeeps DEF Calm, CompleteInv
<1>2. Excusable => Excusable'
  BY DEF Calm, Excusable, Forgiving
<1>3. LoadedInv'
  BY DEF Calm, CompleteInv, LoadedInv
<1>4. KnowsOrExcused'
  BY <1>2 DEF Calm, CompleteInv, KnowsOrExcused
<1>5. SettlesExcused'
  BY <1>2 DEF Calm, CompleteInv, SettlesExcused
<1> QED
  BY <1>1, <1>3, <1>4, <1>5 DEF CompleteInv

(* What callers do is calm; a crash forgets the conversation.               *)
LEMMA CallersComplete ==
  ASSUME TypeOK, OwedInv, CompleteInv, Callers \/ Publishing \/ Crash \/ Start
  PROVE  CompleteInv'
<1>s. Started = pc \/ (Started = "begin" /\ pc = "idle")
  BY DEF Started, Starts
<1>b. "begin" \notin LoadedAt
  BY DEF LoadedAt
<1>1. ASSUME NEW m \in Msgs, NEW k \in Kinds, NEW via \in {"own", "outer"}, Offer(m, k, via)
      PROVE  Calm
  <2>1. StaysOwed
    <3>1. CASE Writes("inference")
      BY <3>1, WritingOwes DEF WorkStages
    <3>2. CASE store'.owed = [store.owed EXCEPT !.stage = "inference"]
      BY <3>2 DEF StaysOwed, TypeOK, StoreType, OwedRecord
    <3> QED
      BY <1>1, <3>1, <3>2, OfferDoes
  <2> QED
    BY <1>1, <2>1, OfferDoes DEF Calm, ViewKept, Forgiving
<1>2. CASE Publish \/ ActivateCommitted \/ Start
  <2>1. /\ store' = store /\ pc' = Started /\ Forgiving
        /\ mem'.held.messages = mem.held.messages /\ mem'.held.loaded = mem.held.loaded
    <3>1. CASE Publish
      BY <3>1, PublishDoes, OpeningDoes, HistoryForgives
    <3>2. CASE ActivateCommitted
      BY <3>2, ActivateDoes, OpeningDoes, HistoryForgives
    <3>3. CASE Start
      BY <3>3, StartDoes, OpeningDoes DEF Forgiving
    <3> QED
      BY <1>2, <3>1, <3>2, <3>3
  <2>2. StaysOwed
    BY <2>1, KeepingOwes
  <2> QED
    BY <1>s, <1>b, <2>1, <2>2, CalmKeeps DEF Calm
<1>3. CASE MarkCommitted
  <2>1. Calm
    BY <1>3, MarkDoes, KeepingOwes DEF Calm, ViewKept, Forgiving
  <2> QED
    BY <2>1, CalmKeeps
<1>4. CASE Abort
  <2>1. Calm
    BY <1>4, AbortDoes, KeepingOwes DEF Calm, ViewKept, Forgiving
  <2> QED
    BY <2>1, CalmKeeps
<1>5. CASE Drain \/ Close
  <2>1. Calm
    BY <1>5, StopDoes, KeepingOwes, HistoryForgives DEF Calm
  <2> QED
    BY <2>1, CalmKeeps
<1>6. CASE Crash
  <2>1. pc' = "idle" /\ store' = store /\ Forgiving /\ mem'.held.loaded = FALSE
    BY <1>6, CrashDoes, HistoryForgives DEF Fresh
  <2>2. SettledMeansComplete'
    BY <2>1, KeepingOwes, SettledKeeps DEF CompleteInv
  <2> QED
    BY <2>1, <2>2 DEF CompleteInv, LoadedInv, LoadedAt, KnowsOrExcused, SettlesExcused
<1> QED
  BY <1>1, <1>2, <1>3, <1>4, <1>5, <1>6, CalmKeeps DEF Callers, Publishing

(* A turn opens without a conversation.                                     *)
LEMMA BeginTurnComplete ==
  ASSUME TypeOK, CompleteInv, NEW m \in MemType, BeginTurn(m), store' = store
  PROVE  CompleteInv'
<1>1. pc' = "load" /\ mem'.held.loaded = FALSE /\ Forgiving
  BY BeginTurnDoes, HistoryForgives
<1>2. SettledMeansComplete'
  BY <1>1, KeepingOwes, SettledKeeps DEF CompleteInv
<1> QED
  BY <1>1, <1>2 DEF CompleteInv, LoadedInv, LoadedAt, KnowsOrExcused, SettlesExcused

(* Memory that shows no open call shows that the store's are excused.       *)
LEMMA NothingOpen ==
  ASSUME CompleteInv, pc \notin {"stream", "responded"}, mem.held.loaded,
         Unanswered(mem.held.messages) = {}
  PROVE  Excusable
<1>1. CASE mem.held.messages = store.records
  BY <1>1 DEF Excusable
<1> QED
  BY <1>1 DEF CompleteInv, KnowsOrExcused

LEMMA OpeningComplete ==
  ASSUME TypeOK, OwedInv, CompleteInv, OpeningStep \/ LoadStep
  PROVE  CompleteInv'
<1>0. mem \in MemType
  BY DEF TypeOK
<1>1. CASE BeginRun
  <2>1. /\ store' = store /\ log' = log /\ mem'.held = mem.held /\ pc = "begin"
        /\ pc' \in {"load", "finally", "loopStage", "settleLoaded"}
        /\ pc' = "settleLoaded" => mem.held.loaded
    BY <1>0, <1>1, BeginRunDoes, OpenScopeDoes
  <2>2. Calm
    BY <2>1, KeepingOwes DEF Calm, Forgiving, LoadedAt
  <2> QED
    BY <2>2, CalmKeeps
<1>2. CASE SettleLoaded
  <2>1. store' = store /\ log' = log /\ pc = "settleLoaded" /\ mem'.held = mem.held
    BY <1>0, <1>2, OpenScopeDoes DEF SettleLoaded
  <2>2. mem.held.loaded
    BY <2>1 DEF CompleteInv, LoadedInv, LoadedAt
  <2>3. CASE pc' \in {"finally", "loopStage"}
    <3>1. Calm
      BY <2>1, <2>3, KeepingOwes DEF Calm, Forgiving, LoadedAt
    <3> QED
      BY <3>1, CalmKeeps
  <2>4. CASE Unanswered(mem.held.messages) = {} /\ pc' \in {"enterSettlement", "settle"}
    <3>1. Excusable
      BY <2>1, <2>2, <2>4, NothingOpen
    <3>2. Excusable' /\ SettledMeansComplete'
      BY <2>1, <3>1 DEF CompleteInv, Excusable, SettledMeansComplete
    <3> QED
      BY <2>1, <2>4, <3>2 DEF CompleteInv, LoadedInv, LoadedAt, KnowsOrExcused, SettlesExcused
  <2> QED
    BY <1>2, <2>3, <2>4 DEF SettleLoaded
<1>3. CASE LoopStage \/ TurnStage
  <2>1. Calm
    <3>1. PICK from, to :
            /\ EnterStage(from, "inference", to)
            /\ <<from, to>> \in {<<"loopStage", "openTurn">>, <<"turnStage", "resume">>}
      BY <1>3 DEF LoopStage, TurnStage
    <3>2. /\ pc = from /\ pc' = to /\ store'.records = store.records /\ mem'.held = mem.held
          /\ (Writes("inference") /\ HistoryKept) \/ (RecordKept /\ Fails)
      BY <3>1, EnterStageDoes DEF SaidKept
    <3>3. StaysOwed
      BY <3>2, WritingOwes, KeepingOwes DEF WorkStages, RecordKept
    <3>4. Forgiving
      BY <3>2, HistoryForgives
    <3> QED
      BY <3>1, <3>2, <3>3, <3>4 DEF Calm, LoadedAt
  <2> QED
    BY <2>1, CalmKeeps
<1>4. CASE OpenTurn
  <2>1. CASE pc' = "finally" /\ UNCHANGED <<store, mem, log>>
    <3>1. Calm
      BY <1>4, <2>1, KeepingOwes DEF OpenTurn, Calm, Forgiving, LoadedAt
    <3> QED
      BY <3>1, CalmKeeps
  <2> QED
    BY <1>0, <1>4, <2>1, BeginTurnComplete DEF OpenTurn
<1>5. CASE ReadHistory
  <2>1. Calm
    BY <1>5, ReadHistoryDoes, KeepingOwes DEF Calm, Forgiving, LoadedAt
  <2> QED
    BY <2>1, CalmKeeps
<1>6. CASE AssignHistory
  <2>1. /\ store' = store /\ log' = log /\ pc' \in {"settleLoaded", "turnStage"}
        /\ mem'.held.messages = store.records /\ mem'.held.loaded = TRUE
    BY <1>6, AssignHistoryDoes
  <2>2. SettledMeansComplete'
    BY <2>1 DEF CompleteInv, SettledMeansComplete
  <2> QED
    BY <2>1, <2>2 DEF CompleteInv, LoadedInv, KnowsOrExcused, SettlesExcused
<1>7. CASE LoadFails
  <2>1. CASE mem.turn.then = "settle"
    <3>1. /\ store' = store /\ pc' = "finally" /\ pc \in {"load", "assign"} /\ Fails
          /\ mem'.held.messages = mem.held.messages /\ mem'.held.loaded = mem.held.loaded
      BY <1>7, <2>1, LoadFailsDoes
    <3>2. Calm
      BY <3>1, KeepingOwes, HistoryForgives DEF Calm, LoadedAt
    <3> QED
      BY <3>2, CalmKeeps
  <2>2. CASE mem.turn.then # "settle"
    <3>1. /\ store' = store /\ pc' = "closeLoop" /\ pc \in {"load", "assign"} /\ Forgiving
          /\ mem'.held.messages = mem.held.messages /\ mem'.held.loaded = mem.held.loaded
          /\ Excusable'
      BY <1>7, <2>2, LoadFailsDoes DEF Forgiving, Excusable
    <3>2. SettledMeansComplete'
      BY <3>1, KeepingOwes, SettledKeeps DEF CompleteInv
    <3>3. KnowsOrExcused'
      BY <3>1 DEF CompleteInv, KnowsOrExcused
    <3> QED
      BY <3>1, <3>2, <3>3 DEF CompleteInv, LoadedInv, LoadedAt, SettlesExcused
  <2> QED
    BY <2>1, <2>2
<1> QED
  BY <1>1, <1>2, <1>3, <1>4, <1>5, <1>6, <1>7 DEF OpeningStep, LoadStep

(* What is not a call opens none.                                           *)
LEMMA NothingOpens ==
  ASSUME NEW s \in Seq(Record), NEW x \in Record, \A c \in Calls : x # Call(c)
  PROVE  Unanswered(Append(s, x)) \subseteq Unanswered(s)
<1>1. CASE \E c \in Calls : x = Result(c)
  BY <1>1, OpenAfter
<1>2. CASE \A c \in Calls : x # Result(c)
  BY <1>2, OpenAfter
<1> QED
  BY <1>1, <1>2

(* Where the live conversation is the durable one, there is no more to show.*)
LEMMA LiveComplete ==
  ASSUME ConversationInv', pc' \in Batching \cup Asking \cup {"answered"},
         mem'.held.loaded = mem.held.loaded, CompleteInv, pc \in LoadedAt,
         SettledMeansComplete'
  PROVE  CompleteInv'
<1>1. mem'.held.messages = store'.records
  BY DEF ConversationInv, LiveContextMatchesStore
<1>2. mem'.held.loaded
  BY DEF CompleteInv, LoadedInv
<1> QED
  BY <1>1, <1>2 DEF CompleteInv, LoadedInv, KnowsOrExcused, SettlesExcused, Batching, Asking

LEMMA CycleComplete ==
  ASSUME TypeOK, OwedInv, ConversationInv', CompleteInv, CycleStep
  PROVE  CompleteInv'
<1>r. store.records \in Seq(Record)
  BY DEF TypeOK, StoreType
<1>1. CASE BeginInference \/ Recover \/ RefreshCommittedQueues
  <2>1. /\ store' = store /\ log' = log /\ pc \in {"resume", "recover", "cycle"}
        /\ mem'.held.messages = mem.held.messages /\ mem'.held.loaded = mem.held.loaded
        /\ pc' \in {"finally", "dispatch", "turnDone", "recover", "cycle", "steering"}
    <3>1. CASE BeginInference
      BY <3>1, BeginInferenceDoes
    <3>2. CASE Recover
      BY <3>2, RecoverDoes
    <3>3. CASE RefreshCommittedQueues
      BY <3>3, RefreshDoes
    <3> QED
      BY <1>1, <3>1, <3>2, <3>3
  <2>2. Calm
    BY <2>1, KeepingOwes DEF Calm, Forgiving, LoadedAt
  <2> QED
    BY <2>2, CalmKeeps
<1>2. CASE StopCycle \/ NothingQueued \/ LeaveRequest \/ OpenStream
  <2>1. /\ UNCHANGED <<store, mem, log>>
        /\ pc \in {"cycle", "steering", "send", "request", "asked"}
        /\ pc' \in {"finally", "note", "request", "send", "cycle", "stream"}
    BY <1>2 DEF StopCycle, NothingQueued, LeaveRequest, OpenStream, Kinds
  <2>2. Calm
    BY <2>1, KeepingOwes DEF Calm, Forgiving, LoadedAt
  <2> QED
    BY <2>2, CalmKeeps
<1>3. ASSUME NEW k \in Kinds, ConsumeQueue(k) PROVE CompleteInv'
  <2>1. PICK m \in Msgs : store'.records = Append(store.records, User(m))
    BY <1>3, ConsumeDoes
  <2>2. /\ pc = k /\ pc' = "request" /\ Writes("inference") /\ Forgiving
        /\ mem'.held.loaded = mem.held.loaded
    BY <1>3, ConsumeDoes DEF Forgiving
  <2>3. StaysOwed
    BY <2>2, WritingOwes DEF WorkStages
  <2>4. Unanswered(store'.records) \subseteq Unanswered(store.records)
    BY <1>r, <2>1, NothingOpens, RecordTypes, RecordsDiffer
  <2>5. SettledMeansComplete'
    BY <2>2, <2>3, <2>4, SettledKeeps DEF CompleteInv
  <2> QED
    BY <2>2, <2>5, LiveComplete DEF Asking, LoadedAt, Kinds
<1>4. CASE RequestInference
  <2>1. /\ pc = "request" /\ pc' = "asked" /\ mem'.held.loaded = mem.held.loaded
        /\ Forgiving
    BY <1>4, RequestDoes DEF Forgiving
  <2>2. StaysOwed
    <3>1. CASE store'.owed = store.owed
      BY <3>1, KeepingOwes
    <3>2. CASE store'.owed = Requesting
      BY <3>2 DEF StaysOwed, Requesting
    <3> QED
      BY <1>4, <3>1, <3>2, RequestDoes
  <2>3. Unanswered(store'.records) \subseteq Unanswered(store.records)
    <3>1. CASE store'.records = store.records
      BY <3>1
    <3>2. CASE store'.records = Append(store.records, System)
      BY <1>r, <3>2, NothingOpens, RecordTypes, RecordsDiffer
    <3> QED
      BY <1>4, <3>1, <3>2, RequestDoes
  <2>4. SettledMeansComplete'
    BY <2>1, <2>2, <2>3, SettledKeeps DEF CompleteInv
  <2> QED
    BY <2>1, <2>4, LiveComplete DEF Asking, LoadedAt
<1> QED
  BY <1>1, <1>2, <1>3, <1>4 DEF CycleStep

LEMMA ResponseComplete ==
  ASSUME TypeOK, OwedInv, ConversationInv, ConversationInv', CompleteInv, ResponseStep
  PROVE  CompleteInv'
<1>r. store.records \in Seq(Record) /\ mem.held.messages \in Seq(Record)
  BY MemFields DEF TypeOK, StoreType
<1>1. CASE StreamBlock
  <2>1. /\ pc = "stream" /\ pc' = "stream" /\ mem'.held = mem.held /\ RecordKept /\ Forgiving
    BY <1>1, BlockDoes DEF Forgiving
  <2>2. SettledMeansComplete'
    <3>1. SUFFICES ASSUME store'.owed.stage = "none"
                   PROVE  Unanswered(store'.records) \subseteq log'.excused \cup log'.unowed
      BY DEF SettledMeansComplete
    <3>2. ~LateWork /\ Unanswered(store.records) \subseteq log'.excused \cup log'.unowed
      BY <2>1, <3>1 DEF RecordKept, LateWork, CompleteInv, SettledMeansComplete, Forgiving
    <3>3. CASE store'.records = Append(store.records, Text)
      <4>1. Unanswered(store'.records) \subseteq Unanswered(store.records)
        BY <1>r, <3>3, NothingOpens, RecordTypes, RecordsDiffer
      <4> QED
        BY <3>2, <4>1
    <3>4. ASSUME NEW c \in Calls, store'.records = Append(store.records, Call(c)),
                 c \in log'.unowed
          PROVE  Unanswered(store'.records) \subseteq log'.excused \cup log'.unowed
      <4>1. \A d \in Calls :
              /\ Occurs(Call(d), store'.records) => Occurs(Call(d), store.records) \/ d = c
              /\ Occurs(Result(d), store.records) => Occurs(Result(d), store'.records)
        BY <1>r, <3>4, Appended, RecordTypes, RecordsDiffer
      <4>2. Unanswered(store'.records) \subseteq Unanswered(store.records) \cup {c}
        BY <4>1 DEF Unanswered
      <4> QED
        BY <3>2, <3>4, <4>2
    <3> QED
      BY <1>1, <3>2, <3>3, <3>4, BlockDoes
  <2> QED
    BY <2>1, <2>2 DEF CompleteInv, LoadedInv, KnowsOrExcused, SettlesExcused
<1>2. ASSUME NEW state \in Ending, StreamEnds(state) PROVE CompleteInv'
  <2>1. Calm
    BY <1>2, StreamEndsDoes, KeepingOwes DEF Calm, Forgiving, LoadedAt
  <2> QED
    BY <2>1, CalmKeeps
<1>3. CASE StreamThrows
  <2>1. /\ pc = "stream" /\ pc' = "settleCalls" /\ store' = store /\ mem'.held = mem.held
        /\ Forgiving /\ Excusable'
    BY <1>3, StreamThrowsDoes DEF Forgiving, Excusable
  <2>2. Unanswered(mem.held.messages) = {}
    BY <2>1 DEF ConversationInv, KnownCallsInv
  <2>3. SettledMeansComplete'
    BY <2>1, KeepingOwes, SettledKeeps DEF CompleteInv
  <2> QED
    BY <2>1, <2>2, <2>3 DEF CompleteInv, LoadedInv, LoadedAt, KnowsOrExcused, SettlesExcused
<1>4. CASE TurnThrows
  <2>1. Calm
    BY <1>4, TurnThrowsDoes, KeepingOwes, HistoryForgives DEF Calm, LoadedAt
  <2> QED
    BY <2>1, CalmKeeps
<1>5. CASE EndInference
  <2>1. /\ pc = "responded" /\ store'.records = store.records /\ mem'.held.messages = Said
        /\ mem'.held.loaded = mem.held.loaded
        /\ pc' \in {"settleCalls", "cycle", "finally", "dispatch"}
        /\ (Writes("inference") /\ HistoryKept) \/ (RecordKept /\ Fails)
    BY <1>5, EndInferenceDoes DEF SaidKept
  <2>2. store.records = Said
    BY <2>1 DEF ConversationInv, KnownCallsInv, Said
  <2>3. StaysOwed
    BY <2>1, WritingOwes, KeepingOwes DEF WorkStages, RecordKept
  <2>4. Forgiving
    BY <2>1, HistoryForgives
  <2>5. SettledMeansComplete'
    BY <2>1, <2>3, <2>4, SettledKeeps DEF CompleteInv
  <2> QED
    BY <2>1, <2>2, <2>5 DEF CompleteInv, LoadedInv, LoadedAt, KnowsOrExcused, SettlesExcused
<1>6. CASE SettleCalls
  <2>1. /\ pc = "settleCalls" /\ store'.records = store.records /\ mem'.held = mem.held
        /\ pc' \in {"note", "cycle", "fail", "appendResults"}
        /\ \/ Writes("tools") /\ HistoryKept
           \/ RecordKept /\ (HistoryKept \/ Fails)
    BY <1>6, SettleCallsDoes DEF SaidKept
  <2>2. StaysOwed
    BY <2>1, WritingOwes, KeepingOwes DEF WorkStages, RecordKept
  <2>3. Forgiving
    BY <2>1, HistoryForgives
  <2>4. Calm
    BY <2>1, <2>2, <2>3 DEF Calm, LoadedAt
  <2> QED
    BY <2>4, CalmKeeps
<1>7. CASE AppendResults
  <2>1. CASE /\ store' = store /\ RecordKept /\ Fails /\ mem'.held = mem.held
             /\ pc' = IF Failed THEN "fail" ELSE "note"
    <3>1. pc = "appendResults"
      BY <1>7, ResultsDo
    <3>2. Calm
      BY <2>1, <3>1, KeepingOwes, HistoryForgives DEF Calm, LoadedAt
    <3> QED
      BY <3>2, CalmKeeps
  <2>2. ASSUME NEW c \in mem.turn.batch,
               store'.records = Append(store.records, Result(c)),
               mem'.held.messages = Append(mem.held.messages, Result(c)),
               Writes("inference"), HistoryKept, pc' \in {"note", "cycle"}
        PROVE  CompleteInv'
    <3>1. c \in Calls
      BY MemFields DEF TypeOK
    <3>2. /\ Unanswered(store'.records) \subseteq Unanswered(store.records)
          /\ Unanswered(mem'.held.messages) \subseteq Unanswered(mem.held.messages)
      BY <1>r, <2>2, <3>1, NothingOpens, RecordTypes, RecordsDiffer
    <3>3. StaysOwed /\ Forgiving
      BY <2>2, WritingOwes, HistoryForgives DEF WorkStages
    <3>4. SettledMeansComplete'
      BY <3>2, <3>3, SettledKeeps DEF CompleteInv
    <3>5. pc = "appendResults" /\ mem'.held.loaded = mem.held.loaded
      BY <1>7, ResultsDo
    <3>6. mem.held.loaded
      BY <3>5 DEF CompleteInv, LoadedInv, LoadedAt
    <3>7. KnowsOrExcused'
      <4>1. CASE mem.held.messages = store.records
        BY <2>2, <4>1 DEF KnowsOrExcused
      <4>2. CASE Unanswered(mem.held.messages) = {} /\ Excusable
        BY <3>2, <3>3, <4>2 DEF KnowsOrExcused, Excusable, Forgiving
      <4> QED
        BY <3>5, <3>6, <4>1, <4>2 DEF CompleteInv, KnowsOrExcused
    <3> QED
      BY <2>2, <3>4, <3>5, <3>6, <3>7 DEF CompleteInv, LoadedInv, SettlesExcused
  <2> QED
    BY <1>7, <2>1, <2>2, ResultsDo
<1> QED
  BY <1>1, <1>2, <1>3, <1>4, <1>5, <1>6, <1>7 DEF ResponseStep

LEMMA ToolComplete ==
  ASSUME TypeOK, OwedInv, ConversationInv', CompleteInv, ToolStep
  PROVE  CompleteInv'
<1>1. CASE Dispatch
  <2>1. /\ pc = "dispatch" /\ pc' = "execute" /\ store'.records = store.records
        /\ mem'.held = mem.held /\ Forgiving
        /\ Writes("tools") \/ RecordKept
    BY <1>1, DispatchDoes, HistoryForgives DEF SaidKept, Forgiving
  <2>2. StaysOwed
    BY <2>1, WritingOwes, KeepingOwes DEF WorkStages, RecordKept
  <2>3. Calm
    BY <2>1, <2>2 DEF Calm, LoadedAt
  <2> QED
    BY <2>3, CalmKeeps
<1>2. CASE Execute \/ ToolCommitsEarly \/ ToolSettles \/ ToolReloads
  <2>1. /\ pc \in {"execute", "running"} /\ store'.records = store.records
        /\ store'.owed = store.owed /\ mem'.held = mem.held /\ Forgiving
        /\ pc' \in {"running", "commit", "finally", "note", "turnDone"}
    BY <1>2, RunningDoes, HistoryForgives DEF SaidKept, BatchCutShort
  <2>2. Calm
    BY <2>1, KeepingOwes DEF Calm, LoadedAt
  <2> QED
    BY <2>2, CalmKeeps
<1>3. CASE CommitResult
  <2>1. PICK c \in mem.turn.batch : store'.records = Append(store.records, Result(c))
    BY <1>3, CommitDoes
  <2>2. c \in Calls /\ store.records \in Seq(Record)
    BY MemFields DEF TypeOK, StoreType
  <2>3. Unanswered(store'.records) \subseteq Unanswered(store.records)
    BY <2>1, <2>2, NothingOpens, RecordTypes, RecordsDiffer
  <2>4. /\ pc = "commit" /\ pc' = "answered" /\ mem'.held.loaded = mem.held.loaded
        /\ store'.owed = store.owed /\ Forgiving
    BY <1>3, CommitDoes DEF Forgiving, RecordKept
  <2>5. SettledMeansComplete'
    BY <2>3, <2>4, KeepingOwes, SettledKeeps DEF CompleteInv
  <2> QED
    BY <2>4, <2>5, LiveComplete DEF LoadedAt
<1>4. CASE EndBatch
  <2>1. /\ pc = "answered" /\ pc' \in {"finally", "note", "turnDone", "cycle", "recover"}
        /\ store'.records = store.records /\ mem'.held = mem.held /\ Forgiving
        /\ Writes("inference")
    BY <1>4, EndBatchDoes, HistoryForgives DEF SaidKept, BatchCutShort
  <2>2. StaysOwed
    BY <2>1, WritingOwes DEF WorkStages
  <2>3. Calm
    BY <2>1, <2>2 DEF Calm, LoadedAt
  <2> QED
    BY <2>3, CalmKeeps
<1> QED
  BY <1>1, <1>2, <1>3, <1>4 DEF ToolStep

LEMMA ClosingComplete ==
  ASSUME TypeOK, OwedInv, CompleteInv, ClosingStep
  PROVE  CompleteInv'
<1>0. mem \in MemType /\ store.records \in Seq(Record) /\ mem.held.messages \in Seq(Record)
  BY MemFields DEF TypeOK, StoreType
<1>1. CASE AppendFailure
  <2>1. /\ pc = "note" /\ pc' \in {"fail", "turnDone"} /\ store'.owed = store.owed
        /\ mem'.held.loaded = mem.held.loaded
    BY <1>1, NoteDoes DEF RecordKept
  <2>2. CASE store' = store /\ mem' = mem /\ Fails
    <3>1. Calm
      BY <2>1, <2>2, KeepingOwes, HistoryForgives DEF Calm, LoadedAt
    <3> QED
      BY <3>1, CalmKeeps
  <2>3. CASE /\ store'.records = Append(store.records, System)
             /\ mem'.held.messages = Append(mem.held.messages, System) /\ HistoryKept
    <3>1. /\ Unanswered(store'.records) \subseteq Unanswered(store.records)
          /\ Unanswered(mem'.held.messages) \subseteq Unanswered(mem.held.messages)
      BY <1>0, <2>3, NothingOpens, RecordTypes, RecordsDiffer
    <3>2. StaysOwed /\ Forgiving
      BY <2>1, <2>3, KeepingOwes, HistoryForgives
    <3>3. SettledMeansComplete'
      BY <3>1, <3>2, SettledKeeps DEF CompleteInv
    <3>4. mem.held.loaded
      BY <2>1 DEF CompleteInv, LoadedInv, LoadedAt
    <3>5. KnowsOrExcused'
      <4>1. CASE mem.held.messages = store.records
        BY <2>3, <4>1 DEF KnowsOrExcused
      <4>2. CASE Unanswered(mem.held.messages) = {} /\ Excusable
        BY <3>1, <3>2, <4>2 DEF KnowsOrExcused, Excusable, Forgiving
      <4> QED
        BY <2>1, <3>4, <4>1, <4>2 DEF CompleteInv, KnowsOrExcused
    <3> QED
      BY <2>1, <3>3, <3>4, <3>5 DEF CompleteInv, LoadedInv, SettlesExcused
  <2> QED
    BY <1>1, <2>2, <2>3, NoteDoes
<1>2. CASE NothingToNote \/ LeaveRun
  <2>1. /\ UNCHANGED <<store, mem, log>> /\ pc \in {"note", "turnDone"}
        /\ pc' \in {"turnDone", "finally"}
    BY <1>2 DEF NothingToNote, LeaveRun
  <2>2. Calm
    BY <2>1, KeepingOwes DEF Calm, Forgiving, LoadedAt
  <2> QED
    BY <2>2, CalmKeeps
<1>3. CASE FailTurn
  <2>1. Calm
    BY <1>3, FailTurnDoes, KeepingOwes DEF Calm, Forgiving, LoadedAt
  <2> QED
    BY <2>1, CalmKeeps
<1>4. CASE CloseTurn \/ CloseLoop
  <2>1. PICK from, to :
          /\ EnterStage(from, "inference", to)
          /\ <<from, to>> \in {<<"turnDone", "turnClosed">>, <<"closeLoop", "loopClosed">>}
    BY <1>4 DEF CloseTurn, CloseLoop
  <2>2. /\ pc = from /\ pc' = to /\ store'.records = store.records /\ mem'.held = mem.held
        /\ (Writes("inference") /\ HistoryKept) \/ (RecordKept /\ Fails)
    BY <2>1, EnterStageDoes DEF SaidKept
  <2>3. StaysOwed
    BY <2>2, WritingOwes, KeepingOwes DEF WorkStages, RecordKept
  <2>4. Forgiving
    BY <2>2, HistoryForgives
  <2>5. CASE pc = "turnDone"
    <3>1. Calm
      BY <2>1, <2>2, <2>3, <2>4, <2>5 DEF Calm, LoadedAt
    <3> QED
      BY <3>1, CalmKeeps
  <2>6. CASE pc = "closeLoop"
    <3>1. pc' = "loopClosed"
      BY <2>1, <2>2, <2>6
    <3>2. SettledMeansComplete'
      BY <2>2, <2>3, <2>4, SettledKeeps DEF CompleteInv
    <3>3. Excusable => Excusable'
      BY <2>2, <2>4 DEF Excusable, Forgiving
    <3>4. KnowsOrExcused'
      BY <2>2, <2>6, <3>3 DEF CompleteInv, KnowsOrExcused
    <3>5. SettlesExcused'
      BY <2>2, <2>6, <3>1, <3>3 DEF CompleteInv, SettlesExcused
    <3> QED
      BY <3>1, <3>2, <3>4, <3>5 DEF CompleteInv, LoadedInv, LoadedAt
  <2> QED
    BY <2>1, <2>2, <2>5, <2>6
<1>5. CASE NextTurn
  <2>1. pc = "turnClosed" /\ store' = store
    BY <1>5 DEF NextTurn
  <2>2. mem.held.loaded
    BY <2>1 DEF CompleteInv, LoadedInv, LoadedAt
  <2>3. CASE pc' \in {"finally", "closeLoop"} /\ UNCHANGED <<mem, log>>
    <3>1. SettledMeansComplete'
      BY <2>1, <2>3 DEF CompleteInv, SettledMeansComplete
    <3>2. KnowsOrExcused'
      BY <2>1, <2>3 DEF CompleteInv, KnowsOrExcused, Excusable
    <3> QED
      BY <2>2, <2>3, <3>1, <3>2 DEF CompleteInv, LoadedInv, SettlesExcused
  <2>4. CASE BeginTurn(OpenScope(mem))
    BY <1>0, <2>1, <2>4, OpenScopeDoes, BeginTurnComplete
  <2> QED
    BY <1>5, <2>3, <2>4 DEF NextTurn
<1>6. CASE NextLoop
  <2>1. /\ pc = "loopClosed" /\ store' = store /\ log' = log /\ mem'.held = mem.held
        /\ pc' \in {"finally", "loopStage", "enterSettlement"}
        /\ pc' = "enterSettlement" => ~HasOpenToolCalls
    BY <1>0, <1>6, OpenScopeDoes DEF NextLoop
  <2>2. SettledMeansComplete' /\ KnowsOrExcused'
    BY <2>1 DEF CompleteInv, SettledMeansComplete, KnowsOrExcused, Excusable
  <2>3. ASSUME pc' = "enterSettlement" PROVE Excusable'
    <3>1. CASE ~mem.held.loaded
      BY <2>1, <3>1 DEF CompleteInv, SettlesExcused, Excusable
    <3>2. CASE mem.held.loaded
      <4>1. Unanswered(mem.held.messages) = {}
        BY <2>1, <2>3, <3>2 DEF HasOpenToolCalls
      <4>2. Excusable
        BY <2>1, <3>2, <4>1, NothingOpen
      <4> QED
        BY <2>1, <4>2 DEF Excusable
    <3> QED
      BY <3>1, <3>2
  <2> QED
    BY <2>1, <2>2, <2>3 DEF CompleteInv, LoadedInv, LoadedAt, SettlesExcused
<1>7. CASE EnterSettlement
  <2>1. /\ pc = "enterSettlement" /\ pc' = "settle" /\ store'.records = store.records
        /\ mem'.held = mem.held
        /\ store'.owed = Owing("settlement") \/ store'.owed = store.owed
        /\ HistoryKept \/ Fails
    BY <1>7, SettlingDoes DEF SaidKept, RecordKept
  <2>2. StaysOwed /\ Forgiving
    BY <2>1, HistoryForgives DEF StaysOwed, Owing
  <2>3. SettledMeansComplete'
    BY <2>1, <2>2, SettledKeeps DEF CompleteInv
  <2>4. Excusable'
    BY <2>1, <2>2 DEF CompleteInv, SettlesExcused, Excusable, Forgiving
  <2>5. KnowsOrExcused'
    BY <2>1, <2>2, <2>4 DEF CompleteInv, KnowsOrExcused
  <2> QED
    BY <2>1, <2>3, <2>4, <2>5 DEF CompleteInv, LoadedInv, LoadedAt, SettlesExcused
<1>8. CASE Settle
  <2>1. /\ pc = "settle" /\ pc' = "finally" /\ store'.records = store.records
        /\ mem'.held = mem.held /\ Forgiving
    BY <1>8, SettleDoes, HistoryForgives DEF SaidKept
  <2>2. Excusable'
    BY <2>1 DEF CompleteInv, SettlesExcused, Excusable, Forgiving
  <2>3. SettledMeansComplete'
    BY <2>2 DEF SettledMeansComplete, Excusable
  <2>4. KnowsOrExcused'
    BY <2>1, <2>2 DEF CompleteInv, KnowsOrExcused
  <2> QED
    BY <2>1, <2>3, <2>4 DEF CompleteInv, LoadedInv, LoadedAt, SettlesExcused
<1>9. CASE Finally
  <2>1. /\ pc = "finally" /\ pc' \in {"begin", "idle"} /\ store' = store
        /\ mem'.held = mem.held /\ Forgiving
    BY <1>9, FinallyDoes, HistoryForgives
  <2>2. Calm
    BY <2>1, KeepingOwes DEF Calm, LoadedAt
  <2> QED
    BY <2>2, CalmKeeps
<1> QED
  BY <1>1, <1>2, <1>3, <1>4, <1>5, <1>6, <1>7, <1>8, <1>9 DEF ClosingStep

LEMMA CompleteStep ==
  ASSUME TypeOK, OwedInv, ConversationInv, CompleteInv, [Next]_vars
  PROVE  CompleteInv'
<1>1. ConversationInv'
  BY ConversationStep
<1>2. CASE UNCHANGED vars
  <2>1. Calm
    BY <1>2, KeepingOwes DEF vars, Calm, Forgiving
  <2> QED
    BY <2>1, CalmKeeps
<1>3. CASE Callers \/ Publishing \/ Crash \/ Start
  BY <1>3, CallersComplete
<1>4. CASE OpeningStep \/ LoadStep
  BY <1>4, OpeningComplete
<1>5. CASE CycleStep
  BY <1>1, <1>5, CycleComplete
<1>6. CASE ResponseStep
  BY <1>1, <1>6, ResponseComplete
<1>7. CASE ToolStep
  BY <1>1, <1>7, ToolComplete
<1>8. CASE ClosingStep
  BY <1>8, ClosingComplete
<1>9. CASE Rest
  BY <1>2, <1>9 DEF Rest
<1> QED
  BY <1>2, <1>3, <1>4, <1>5, <1>6, <1>7, <1>8, <1>9 DEF Next, RunStep

LEMMA CompleteStart ==
  ASSUME Init
  PROVE  CompleteInv
<1>1. /\ pc = "idle" /\ mem.held.loaded = FALSE /\ store.records = <<>>
  BY DEF Init, Fresh
<1>2. Unanswered(store.records) = {}
  BY <1>1 DEF Unanswered, Occurs
<1> QED
  BY <1>1, <1>2 DEF CompleteInv, LoadedInv, LoadedAt, KnowsOrExcused, SettlesExcused,
     SettledMeansComplete

(* What is known of the conversation, everywhere.                           *)
LEMMA CompleteInductive == Spec => []CompleteInv
<1>1. Init => CompleteInv
  BY CompleteStart
<1>2. TypeOK /\ OwedInv /\ ConversationInv /\ CompleteInv /\ [Next]_vars => CompleteInv'
  BY CompleteStep
<1> QED
  BY <1>1, <1>2, TypeCorrect, OwedInductive, ConversationWhole, PTL DEF Spec

(* THEOREM: an agent that owes nothing has answered every call, but for     *)
(* those that a failed stream or load made it forget and those made over a  *)
(* record that owed nothing (#settleRecord, #hasOpenToolCalls, StreamEnds). *)
THEOREM SettledIsComplete == Spec => []SettledMeansComplete
<1>1. CompleteInv => SettledMeansComplete
  BY DEF CompleteInv
<1> QED
  BY <1>1, CompleteInductive, PTL

-----------------------------------------------------------------------------
(* IdleOwesOnlyOpenCalls                                                    *)

Faultless == log.faults = 0
Open == Unanswered(store.records) # {}
NotStopping == ~mem.run.draining /\ ~mem.run.closed

(* Where a turn is under way.                                               *)
InTurn == LoadedAt \ {"settleLoaded", "note", "fail", "turnDone", "turnClosed"}

(* Without failures no turn is a failed one, and no call is excused.        *)
NoneFailed == Faultless => ~Failed /\ pc # "fail" /\ log.excused = {}

(* Why a load is under way.                                                 *)
LoadsFor == pc \in {"load", "assign"} => mem.turn.then \in {"settle", "turn"}

(* A turn is blocked only as it ends, and then over an open call.           *)
BlockedLast ==
    pc \in InTurn \/ (pc \in {"load", "assign"} /\ mem.turn.then = "turn") => ~mem.turn.blocked
BlockedOverCall == Faultless /\ mem.turn.blocked /\ pc \in {"note", "turnDone"} => Open

(* A run ends with nothing owed that it knows of, an open call, or a commit *)
(* still to be published; or else it is to be followed by another.          *)
Restless == mem.owed.pending.stage = "none" \/ Open \/ ~DbFree
EndsRestless ==
    Faultless /\ pc = "finally" /\ NotStopping =>
        Restless \/ mem.run.reopened \/ mem.run.abortDropped \/ mem.run.turnRequested

(* So an instance at rest is one of these, or is yet to be started.         *)
RestsRestless ==
    Faultless /\ pc = "idle" /\ NotStopping =>
        Restless \/ (mem.owed.inherited.stage # "none" /\ ~mem.owed.resumeRequested)

IdleInv ==
    NoneFailed /\ LoadsFor /\ BlockedLast /\ BlockedOverCall /\ EndsRestless /\ RestsRestless

(* Without failures, what memory shows open is what is open.                *)
LEMMA ShowsOpen ==
  ASSUME CompleteInv, IdleInv, Faultless, mem.held.loaded, pc \notin {"stream", "responded"}
  PROVE  Unanswered(mem.held.messages) = Unanswered(store.records)
<1>1. CASE mem.held.messages = store.records
  BY <1>1
<1>2. log.excused = {}
  BY DEF IdleInv, NoneFailed
<1> QED
  BY <1>1, <1>2 DEF CompleteInv, KnowsOrExcused, Excusable

(* A step that, unless it fails, neither makes the turn a failed one nor    *)
(* excuses a call.                                                          *)
Steady ==
    log'.faults = 0 =>
        /\ log.faults = 0 /\ log'.excused = log.excused
        /\ mem'.turn.then = mem.turn.then \/ mem'.turn.then # "catch"

LEMMA HistorySteady ==
  ASSUME HistoryKept \/ Fails, mem'.turn.then = mem.turn.then \/ mem'.turn.then # "catch"
  PROVE  Steady
BY DEF HistoryKept, Fails, DueKept, Steady

LEMMA FailingSteady ==
  ASSUME log.faults \in Nat, log'.faults = log.faults + 1
  PROVE  Steady
BY DEF Steady

LEMMA NoneFails ==
  ASSUME IdleInv, Steady, pc' # "fail"
  PROVE  NoneFailed'
BY DEF IdleInv, NoneFailed, Steady, Failed, Faultless

(* A step within a turn, out of it, or out of the run by a drain.           *)
Onward ==
    /\ Steady /\ mem'.turn.blocked = mem.turn.blocked /\ pc \in InTurn
    /\ \/ pc' \in InTurn \cup {"note", "turnDone"}
       \/ pc' = "finally" /\ mem'.run.draining

LEMMA OnwardKeeps ==
  ASSUME IdleInv, Onward
  PROVE  IdleInv'
<1>1. pc' # "fail" /\ pc' \notin {"load", "assign", "idle"}
  BY DEF Onward, InTurn, LoadedAt
<1>2. NoneFailed'
  BY <1>1, NoneFails DEF Onward
<1>3. ~mem'.turn.blocked
  BY DEF Onward, IdleInv, BlockedLast
<1>4. pc' = "finally" => mem'.run.draining
  BY DEF Onward, InTurn, LoadedAt
<1> QED
  BY <1>1, <1>2, <1>3, <1>4 DEF IdleInv, LoadsFor, BlockedLast, BlockedOverCall, EndsRestless,
     RestsRestless, NotStopping

(* Between turns nothing more is to be kept.                                *)
LEMMA BetweenKeeps ==
  ASSUME IdleInv, Steady,
         pc' \in {"begin", "settleLoaded", "loopStage", "openTurn", "turnClosed", "closeLoop",
                  "loopClosed", "enterSettlement", "settle"}
  PROVE  IdleInv'
<1>1. NoneFailed'
  BY NoneFails
<1> QED
  BY <1>1 DEF IdleInv, LoadsFor, BlockedLast, BlockedOverCall, EndsRestless, RestsRestless,
     InTurn, LoadedAt

(* Leaving the run with something to show for it.                           *)
LEMMA LeavingKeeps ==
  ASSUME IdleInv, Steady, pc' = "finally", EndsRestless'
  PROVE  IdleInv'
<1>1. NoneFailed'
  BY NoneFails
<1> QED
  BY <1>1 DEF IdleInv, LoadsFor, BlockedLast, BlockedOverCall, RestsRestless, InTurn, LoadedAt

(* A caller leaves the run where it is, or starts one.                      *)
LEMMA CallersIdle ==
  ASSUME TypeOK, IdleInv, Callers \/ Publishing \/ Crash \/ Start
  PROVE  IdleInv'
<1>0. mem \in MemType
  BY DEF TypeOK
<1>s. /\ pc = "idle" /\ ~mem.run.draining => Started = "begin"
      /\ Started # "begin" => Started = pc
      /\ pc # "idle" => Started = pc
      /\ Starts => pc = "idle"
  BY DEF Started, Starts
<1>1. ASSUME pc' = pc, store'.records = store.records, mem'.turn = mem.turn, Steady,
             EndsRestless', RestsRestless'
      PROVE  IdleInv'
  <2>1. NoneFailed'
    BY <1>1 DEF IdleInv, NoneFailed, Steady, Failed, Faultless
  <2>2. BlockedOverCall'
    BY <1>1 DEF IdleInv, BlockedOverCall, Steady, Faultless, Open
  <2>3. LoadsFor' /\ BlockedLast'
    BY <1>1 DEF IdleInv, LoadsFor, BlockedLast
  <2> QED
    BY <1>1, <2>1, <2>2, <2>3 DEF IdleInv
<1>2. ASSUME NEW m \in Msgs, NEW k \in Kinds, NEW via \in {"own", "outer"}, Offer(m, k, via)
      PROVE  IdleInv'
  <2>1. /\ pc' = pc /\ store'.records = store.records /\ mem'.turn = mem.turn /\ Steady
        /\ ~DbFree'
    BY <1>2, OfferDoes DEF Steady, DbFree
  <2>2. EndsRestless' /\ RestsRestless'
    BY <2>1 DEF EndsRestless, RestsRestless, Restless
  <2> QED
    BY <1>1, <2>1, <2>2
<1>3. CASE Publish \/ ActivateCommitted
  <2>1. /\ store' = store /\ pc' = Started /\ mem'.turn = mem.turn /\ HistoryKept
        /\ mem'.run.turnRequested = TRUE /\ mem'.run.draining = mem.run.draining
    <3>1. PICK m \in MemType :
            /\ mem' = Opening(m) /\ pc' = Started /\ store' = store /\ HistoryKept
            /\ m.turn = mem.turn /\ m.run = [mem.run EXCEPT !.turnRequested = TRUE]
      BY <1>3, PublishDoes, ActivateDoes
    <3>2. /\ mem'.turn = m.turn /\ mem'.run.turnRequested = m.run.turnRequested
          /\ mem'.run.draining = m.run.draining
      BY <3>1, OpeningDoes
    <3>3. m.run.turnRequested = TRUE /\ m.run.draining = mem.run.draining
      BY <1>0, <3>1 DEF MemType, RunType
    <3> QED
      BY <3>1, <3>2, <3>3
  <2>2. Steady
    BY <2>1, HistorySteady
  <2>3. CASE pc' = "begin"
    BY <2>2, <2>3, BetweenKeeps
  <2>4. CASE pc' = pc /\ pc' # "begin"
    <3>1. EndsRestless'
      BY <2>1 DEF EndsRestless
    <3>2. RestsRestless'
      BY <1>s, <2>1, <2>4 DEF RestsRestless, NotStopping
    <3> QED
      BY <1>1, <2>1, <2>2, <2>4, <3>1, <3>2
  <2> QED
    BY <1>s, <2>1, <2>3, <2>4
<1>4. CASE MarkCommitted
  <2>1. /\ pc' = pc /\ store' = store /\ mem'.turn = mem.turn /\ Steady /\ ~DbFree'
    BY <1>4, MarkDoes DEF Steady, DbFree
  <2>2. EndsRestless' /\ RestsRestless'
    BY <2>1 DEF EndsRestless, RestsRestless, Restless
  <2> QED
    BY <1>1, <2>1, <2>2
<1>5. CASE Abort
  <2>1. /\ pc' = pc /\ store' = store /\ mem'.turn = mem.turn /\ Steady /\ pc # "idle"
        /\ mem'.run.abortDropped = TRUE
    BY <1>5, AbortDoes DEF Steady
  <2>2. EndsRestless' /\ RestsRestless'
    BY <2>1 DEF EndsRestless, RestsRestless
  <2> QED
    BY <1>1, <2>1, <2>2
<1>6. CASE Drain \/ Close
  <2>1. /\ pc' = pc /\ store' = store /\ mem'.turn = mem.turn /\ HistoryKept /\ ~NotStopping'
    BY <1>6, StopDoes DEF NotStopping
  <2>2. Steady
    BY <2>1, HistorySteady
  <2>3. EndsRestless' /\ RestsRestless'
    BY <2>1 DEF EndsRestless, RestsRestless
  <2> QED
    BY <1>1, <2>1, <2>2, <2>3
<1>7. CASE Crash
  <2>1. /\ pc' = "idle" /\ HistoryKept /\ mem' = Fresh(store.owed)
    BY <1>7, CrashDoes
  <2>2. /\ mem'.turn.then = "none" /\ mem'.owed.pending = store.owed
        /\ mem'.owed.inherited = store.owed /\ ~mem'.owed.resumeRequested
    BY <2>1 DEF Fresh
  <2>3. Steady
    BY <2>1, <2>2, HistorySteady
  <2>4. NoneFailed'
    BY <2>1, <2>3, NoneFails
  <2>5. RestsRestless'
    BY <2>2 DEF RestsRestless, Restless
  <2> QED
    BY <2>1, <2>4, <2>5 DEF IdleInv, LoadsFor, BlockedLast, BlockedOverCall, EndsRestless,
       InTurn, LoadedAt
<1>8. CASE Start
  <2>1. PICK m \in MemType :
          /\ mem' = Opening(m) /\ pc' = Started /\ store' = store /\ log' = log
          /\ m.held = mem.held /\ m.run = mem.run /\ m.turn = mem.turn
          /\ m.owed = [mem.owed EXCEPT !.resumeRequested = TRUE]
    BY <1>8, StartDoes
  <2>2. /\ mem'.held = mem.held /\ mem'.turn = mem.turn /\ mem'.owed.pending = mem.owed.pending
        /\ mem'.run.turnRequested = mem.run.turnRequested
        /\ mem'.run.reopened = mem.run.reopened
        /\ mem'.run.draining = mem.run.draining /\ mem'.run.closed = mem.run.closed
        /\ ~Starts => mem'.run.abortDropped = mem.run.abortDropped
    <3>1. m.owed.pending = mem.owed.pending
      BY <1>0, <2>1 DEF MemType, OwedType
    <3> QED
      BY <2>1, <3>1, OpeningDoes
  <2>3. Steady
    BY <2>1, <2>2 DEF Steady
  <2>4. CASE pc' = "begin"
    BY <2>3, <2>4, BetweenKeeps
  <2>5. CASE pc' = pc /\ pc' # "begin"
    <3>1. Restless' <=> Restless
      BY <2>1, <2>2 DEF Restless, Open, DbFree
    <3>2. EndsRestless'
      BY <1>s, <2>1, <2>2, <2>5, <3>1
      DEF IdleInv, EndsRestless, NotStopping, Faultless
    <3>3. RestsRestless'
      BY <1>s, <2>1, <2>2, <2>5 DEF RestsRestless, NotStopping
    <3> QED
      BY <1>1, <2>1, <2>2, <2>3, <2>5, <3>2, <3>3
  <2> QED
    BY <1>s, <2>1, <2>4, <2>5
<1> QED
  BY <1>2, <1>3, <1>4, <1>5, <1>6, <1>7, <1>8 DEF Callers, Publishing

(* A turn opens unblocked.                                                  *)
LEMMA BeginTurnIdle ==
  ASSUME TypeOK, IdleInv, NEW m \in MemType, BeginTurn(m)
  PROVE  IdleInv'
<1>1. /\ pc' = "load" /\ HistoryKept /\ mem'.turn.then = "turn" /\ mem'.turn.blocked = FALSE
  BY BeginTurnDoes
<1>2. Steady
  BY <1>1, HistorySteady
<1>3. NoneFailed'
  BY <1>1, <1>2, NoneFails
<1> QED
  BY <1>1, <1>3 DEF IdleInv, LoadsFor, BlockedLast, BlockedOverCall, EndsRestless, RestsRestless

LEMMA OpeningIdle ==
  ASSUME TypeOK, CompleteInv, IdleInv, OpeningStep \/ LoadStep
  PROVE  IdleInv'
<1>0. mem \in MemType
  BY DEF TypeOK
<1>1. CASE BeginRun
  <2>1. CASE pc' = "load" /\ mem'.turn.then = "settle" /\ log' = log
    <3>1. NoneFailed'
      BY <2>1 DEF IdleInv, NoneFailed, Failed, Faultless
    <3> QED
      BY <2>1, <3>1 DEF IdleInv, LoadsFor, BlockedLast, BlockedOverCall, EndsRestless,
         RestsRestless, InTurn, LoadedAt
  <2>2. CASE pc' \in {"settleLoaded", "loopStage"} /\ mem'.turn = mem.turn /\ log' = log
    BY <2>2, BetweenKeeps DEF Steady
  <2>3. CASE pc' = "finally" /\ mem' = mem /\ log' = log /\ mem.run.draining
    BY <2>3, LeavingKeeps DEF Steady, EndsRestless, NotStopping
  <2> QED
    BY <1>0, <1>1, <2>1, <2>2, <2>3, BeginRunDoes, OpenScopeDoes
<1>2. CASE SettleLoaded
  <2>1. store' = store /\ log' = log /\ pc = "settleLoaded" /\ mem'.turn = mem.turn
    BY <1>0, <1>2, OpenScopeDoes DEF SettleLoaded
  <2>2. Steady
    BY <2>1 DEF Steady
  <2>3. CASE pc' \in {"enterSettlement", "settle", "loopStage"}
    BY <2>2, <2>3, BetweenKeeps
  <2>4. CASE pc' = "finally" /\ mem' = mem /\ Unanswered(mem.held.messages) # {}
    <3>1. mem.held.loaded
      BY <2>1 DEF CompleteInv, LoadedInv, LoadedAt
    <3>2. Faultless => Open
      BY <2>1, <2>4, <3>1, ShowsOpen DEF Open
    <3>3. EndsRestless'
      BY <2>1, <2>4, <3>2 DEF EndsRestless, Restless, Faultless, Open
    <3> QED
      BY <2>2, <2>4, <3>3, LeavingKeeps
  <2> QED
    BY <1>2, <2>3, <2>4 DEF SettleLoaded
<1>3. CASE LoopStage
  <2>1. /\ pc' = "openTurn" /\ mem'.turn = mem.turn /\ (HistoryKept \/ Fails)
    BY <1>3, EnterStageDoes DEF LoopStage
  <2> QED
    BY <2>1, HistorySteady, BetweenKeeps
<1>4. CASE TurnStage
  <2>1. /\ pc = "turnStage" /\ pc' = "resume" /\ mem'.turn = mem.turn /\ (HistoryKept \/ Fails)
    BY <1>4, EnterStageDoes DEF TurnStage
  <2>2. Onward
    BY <2>1, HistorySteady DEF Onward, InTurn, LoadedAt
  <2> QED
    BY <2>2, OnwardKeeps
<1>5. CASE OpenTurn
  <2>1. CASE pc' = "finally" /\ UNCHANGED <<mem, log>> /\ mem.run.draining
    BY <2>1, LeavingKeeps DEF Steady, EndsRestless, NotStopping
  <2> QED
    BY <1>0, <1>5, <2>1, BeginTurnIdle DEF OpenTurn
<1>6. CASE ReadHistory
  <2>1. /\ pc = "load" /\ pc' = "assign" /\ log' = log /\ mem'.turn = mem.turn
    BY <1>6, ReadHistoryDoes
  <2>2. NoneFailed'
    BY <2>1 DEF IdleInv, NoneFailed, Failed, Faultless
  <2>3. LoadsFor' /\ BlockedLast'
    BY <2>1 DEF IdleInv, LoadsFor, BlockedLast, InTurn, LoadedAt
  <2> QED
    BY <2>1, <2>2, <2>3 DEF IdleInv, BlockedOverCall, EndsRestless, RestsRestless
<1>7. CASE AssignHistory
  <2>1. /\ pc = "assign" /\ log' = log
        /\ pc' = (IF mem.turn.then = "settle" THEN "settleLoaded" ELSE "turnStage")
        /\ mem'.turn.then = mem.turn.then /\ mem'.turn.blocked = mem.turn.blocked
    BY <1>7, AssignHistoryDoes
  <2>2. Steady
    BY <2>1 DEF Steady
  <2>3. CASE mem.turn.then = "settle"
    BY <2>1, <2>2, <2>3, BetweenKeeps
  <2>4. CASE mem.turn.then # "settle"
    <3>1. ~mem'.turn.blocked /\ pc' = "turnStage"
      BY <2>1, <2>4 DEF IdleInv, LoadsFor, BlockedLast
    <3>2. NoneFailed'
      BY <2>2, <3>1, NoneFails
    <3> QED
      BY <3>1, <3>2 DEF IdleInv, LoadsFor, BlockedLast, BlockedOverCall, EndsRestless,
         RestsRestless
  <2> QED
    BY <2>3, <2>4
<1>8. CASE LoadFails
  <2>1. /\ pc' \in {"finally", "closeLoop"} /\ log.faults \in Nat
        /\ log'.faults = log.faults + 1
    BY <1>8, LoadFailsDoes
  <2>2. Steady /\ ~Faultless'
    BY <2>1, FailingSteady DEF Faultless
  <2> QED
    BY <2>1, <2>2, BetweenKeeps, LeavingKeeps DEF EndsRestless
<1> QED
  BY <1>1, <1>2, <1>3, <1>4, <1>5, <1>6, <1>7, <1>8 DEF OpeningStep, LoadStep

LEMMA CycleIdle ==
  ASSUME TypeOK, IdleInv, CycleStep
  PROVE  IdleInv'
<1>1. CASE BeginInference
  <2>1. Onward
    BY <1>1, BeginInferenceDoes DEF Onward, Steady, InTurn, LoadedAt
  <2> QED
    BY <2>1, OnwardKeeps
<1>2. CASE Recover
  <2>1. Onward
    BY <1>2, RecoverDoes DEF Onward, Steady, InTurn, LoadedAt
  <2> QED
    BY <2>1, OnwardKeeps
<1>3. CASE RefreshCommittedQueues
  <2>1. Onward
    BY <1>3, RefreshDoes DEF Onward, Steady, InTurn, LoadedAt
  <2> QED
    BY <2>1, OnwardKeeps
<1>4. CASE StopCycle \/ NothingQueued \/ LeaveRequest \/ OpenStream
  <2>1. /\ UNCHANGED <<store, mem, log>>
        /\ pc \in {"cycle", "steering", "send", "request", "asked"}
        /\ \/ pc' \in {"note", "request", "send", "cycle", "stream"}
           \/ pc' = "finally" /\ mem.run.draining
    BY <1>4 DEF StopCycle, NothingQueued, LeaveRequest, OpenStream, Kinds
  <2>2. Onward
    BY <2>1 DEF Onward, Steady, InTurn, LoadedAt
  <2> QED
    BY <2>2, OnwardKeeps
<1>5. ASSUME NEW k \in Kinds, ConsumeQueue(k) PROVE IdleInv'
  <2>1. Onward
    BY <1>5, ConsumeDoes DEF Onward, Steady, InTurn, LoadedAt, Kinds
  <2> QED
    BY <2>1, OnwardKeeps
<1>6. CASE RequestInference
  <2>1. /\ pc = "request" /\ pc' = "asked" /\ mem'.turn.blocked = mem.turn.blocked
        /\ mem'.turn.then = mem.turn.then
        /\ HistoryKept \/ (log.faults \in Nat /\ log'.faults = log.faults + 1)
    BY <1>6, RequestDoes
  <2>2. Onward
    BY <2>1, HistorySteady, FailingSteady DEF Onward, InTurn, LoadedAt
  <2> QED
    BY <2>2, OnwardKeeps
<1> QED
  BY <1>1, <1>2, <1>3, <1>4, <1>5, <1>6 DEF CycleStep

LEMMA ResponseIdle ==
  ASSUME TypeOK, ConversationInv, CompleteInv, IdleInv, ResponseStep
  PROVE  IdleInv'
<1>1. CASE StreamBlock
  <2>1. Onward
    BY <1>1, BlockDoes DEF Onward, Steady, InTurn, LoadedAt
  <2> QED
    BY <2>1, OnwardKeeps
<1>2. ASSUME NEW state \in Ending, StreamEnds(state) PROVE IdleInv'
  <2>1. Onward
    BY <1>2, StreamEndsDoes DEF Onward, Steady, InTurn, LoadedAt
  <2> QED
    BY <2>1, OnwardKeeps
<1>3. CASE StreamThrows
  <2>1. Onward
    BY <1>3, StreamThrowsDoes, FailingSteady DEF Onward, InTurn, LoadedAt
  <2> QED
    BY <2>1, OnwardKeeps
<1>4. CASE TurnThrows
  <2>1. Onward
    BY <1>4, TurnThrowsDoes, FailingSteady DEF Onward, Fails, InTurn, LoadedAt
  <2> QED
    BY <2>1, OnwardKeeps
<1>5. CASE EndInference
  <2>1. /\ pc = "responded" /\ mem'.run = mem.run
        /\ mem'.turn.then = "response" /\ mem'.turn.blocked = mem.turn.blocked
        /\ HistoryKept \/ Fails
        /\ \/ pc' \in {"settleCalls", "cycle", "dispatch"}
           \/ pc' = "finally" /\ mem.run.draining
    BY <1>5, EndInferenceDoes
  <2>2. Onward
    BY <2>1, HistorySteady DEF Onward, InTurn, LoadedAt
  <2> QED
    BY <2>2, OnwardKeeps
<1>6. CASE SettleCalls
  <2>1. /\ pc = "settleCalls" /\ store'.records = store.records
        /\ mem'.turn.then = mem.turn.then
    BY <1>6, SettleCallsDoes DEF SaidKept
  <2>2. CASE /\ HistoryKept /\ mem'.turn.blocked = mem.turn.blocked
             /\ pc' \in {"note", "cycle", "appendResults"}
    <3>1. Onward
      BY <2>1, <2>2, HistorySteady DEF Onward, InTurn, LoadedAt
    <3> QED
      BY <3>1, OnwardKeeps
  <2>3. CASE /\ Unanswered(mem.held.messages) # {} /\ HistoryKept
             /\ pc' = IF Failed THEN "fail" ELSE "note"
    <3>1. Steady /\ (Faultless' => Faultless)
      BY <2>1, <2>3, HistorySteady DEF HistoryKept, Faultless
    <3>2. ASSUME Faultless PROVE ~Failed /\ Open
      <4>1. ~Failed
        BY <3>2 DEF IdleInv, NoneFailed
      <4>2. mem.held.messages = store.records
        BY <2>1, <4>1 DEF ConversationInv, KnownCallsInv
      <4> QED
        BY <2>3, <4>1, <4>2 DEF Open
    <3>3. NoneFailed'
      BY <2>1, <2>3, <3>1, <3>2, NoneFails DEF NoneFailed
    <3>4. BlockedOverCall'
      BY <2>1, <3>1, <3>2 DEF BlockedOverCall, Open
    <3> QED
      BY <2>3, <3>3, <3>4 DEF IdleInv, LoadsFor, BlockedLast, EndsRestless, RestsRestless,
         InTurn, LoadedAt
  <2>4. CASE Fails /\ pc' = IF Failed THEN "fail" ELSE "note"
    <3>1. ~Faultless'
      BY <2>4 DEF Fails, Faultless
    <3> QED
      BY <2>4, <3>1 DEF IdleInv, NoneFailed, LoadsFor, BlockedLast, BlockedOverCall,
         EndsRestless, RestsRestless, InTurn, LoadedAt
  <2> QED
    BY <1>6, <2>2, <2>3, <2>4, SettleCallsDoes
<1>7. CASE AppendResults
  <2>1. CASE Fails /\ pc' = IF Failed THEN "fail" ELSE "note"
    <3>1. ~Faultless'
      BY <2>1 DEF Fails, Faultless
    <3> QED
      BY <2>1, <3>1 DEF IdleInv, NoneFailed, LoadsFor, BlockedLast, BlockedOverCall,
         EndsRestless, RestsRestless, InTurn, LoadedAt
  <2>2. CASE HistoryKept /\ mem'.turn = mem.turn /\ pc' \in {"note", "cycle"}
    <3>1. Onward
      BY <1>7, <2>2, ResultsDo, HistorySteady DEF Onward, InTurn, LoadedAt
    <3> QED
      BY <3>1, OnwardKeeps
  <2> QED
    BY <1>7, <2>1, <2>2, ResultsDo
<1> QED
  BY <1>1, <1>2, <1>3, <1>4, <1>5, <1>6, <1>7 DEF ResponseStep

LEMMA ToolIdle ==
  ASSUME TypeOK, IdleInv, ToolStep
  PROVE  IdleInv'
<1>1. CASE Dispatch
  <2>1. /\ pc = "dispatch" /\ pc' = "execute" /\ mem'.turn = mem.turn
        /\ HistoryKept \/ (log.faults \in Nat /\ log'.faults = log.faults + 1)
    BY <1>1, DispatchDoes
  <2>2. Onward
    BY <2>1, HistorySteady, FailingSteady DEF Onward, InTurn, LoadedAt
  <2> QED
    BY <2>2, OnwardKeeps
<1>2. CASE Execute \/ ToolCommitsEarly \/ ToolSettles \/ ToolReloads
  <2>1. /\ pc \in {"execute", "running"} /\ HistoryKept /\ mem'.run = mem.run
        /\ mem'.turn.then = mem.turn.then /\ mem'.turn.blocked = mem.turn.blocked
        /\ \/ pc' \in {"running", "commit", "note", "turnDone"}
           \/ pc' = "finally" /\ mem.run.draining
    BY <1>2, RunningDoes DEF BatchCutShort
  <2>2. Onward
    BY <2>1, HistorySteady DEF Onward, InTurn, LoadedAt
  <2> QED
    BY <2>2, OnwardKeeps
<1>3. CASE CommitResult
  <2>1. Onward
    BY <1>3, CommitDoes DEF Onward, Steady, InTurn, LoadedAt
  <2> QED
    BY <2>1, OnwardKeeps
<1>4. CASE EndBatch
  <2>1. /\ pc = "answered" /\ HistoryKept /\ mem'.run = mem.run
        /\ mem'.turn.then = mem.turn.then /\ mem'.turn.blocked = mem.turn.blocked
        /\ \/ pc' \in {"note", "turnDone", "cycle", "recover"}
           \/ pc' = "finally" /\ mem.run.draining
    BY <1>4, EndBatchDoes DEF BatchCutShort
  <2>2. Onward
    BY <2>1, HistorySteady DEF Onward, InTurn, LoadedAt
  <2> QED
    BY <2>2, OnwardKeeps
<1> QED
  BY <1>1, <1>2, <1>3, <1>4 DEF ToolStep

LEMMA ClosingIdle ==
  ASSUME TypeOK, CompleteInv, IdleInv, ClosingStep
  PROVE  IdleInv'
<1>0. mem \in MemType
  BY DEF TypeOK
<1>1. CASE AppendFailure \/ NothingToNote
  <2>1. /\ pc = "note" /\ mem'.turn = mem.turn /\ (HistoryKept \/ Fails)
        /\ \/ Failed /\ pc' = "fail"
           \/ ~Failed /\ pc' = "turnDone"
        /\ Failed \/ Unanswered(mem.held.messages) = {} \/ store' = store
    <3>1. CASE AppendFailure
      BY <1>1, <3>1, NoteDoes DEF NotesFailure, Failed
    <3>2. CASE NothingToNote
      BY <3>2, FailingDoes DEF NothingToNote, NotesFailure, Failed
    <3> QED
      BY <1>1, <3>1, <3>2
  <2>2. Steady /\ (Faultless' => Faultless)
    BY <2>1, HistorySteady DEF HistoryKept, Fails, Faultless
  <2>3. Faultless => ~Failed
    BY DEF IdleInv, NoneFailed
  <2>4. NoneFailed'
    BY <2>1, <2>2, <2>3, NoneFails DEF NoneFailed
  <2>5. BlockedOverCall'
    <3>1. SUFFICES ASSUME Faultless, mem.turn.blocked PROVE store' = store /\ Open
      BY <2>1, <2>2 DEF BlockedOverCall, Open
    <3>2. Open
      BY <2>1, <3>1 DEF IdleInv, BlockedOverCall
    <3>3. mem.held.loaded
      BY <2>1 DEF CompleteInv, LoadedInv, LoadedAt
    <3>4. Unanswered(mem.held.messages) # {}
      BY <2>1, <3>1, <3>2, <3>3, ShowsOpen DEF Open
    <3> QED
      BY <2>1, <2>3, <3>1, <3>2, <3>4
  <2> QED
    BY <2>1, <2>4, <2>5 DEF IdleInv, LoadsFor, BlockedLast, EndsRestless, RestsRestless,
       InTurn, LoadedAt
<1>2. CASE FailTurn
  <2>1. /\ pc = "fail" /\ pc' = "turnDone" /\ log'.faults = log.faults
        /\ log'.excused = log.excused /\ mem'.turn = mem.turn
    BY <1>2, FailTurnDoes
  <2>2. ~Faultless'
    BY <2>1 DEF IdleInv, NoneFailed, Faultless
  <2> QED
    BY <2>1, <2>2 DEF IdleInv, NoneFailed, LoadsFor, BlockedLast, BlockedOverCall, EndsRestless,
       RestsRestless, InTurn, LoadedAt
<1>3. CASE LeaveRun
  <2>1. /\ UNCHANGED <<store, mem, log>> /\ pc = "turnDone" /\ pc' = "finally"
        /\ mem.run.draining \/ mem.turn.blocked
    BY <1>3 DEF LeaveRun
  <2>2. EndsRestless'
    <3>1. Faultless /\ mem.turn.blocked => Open
      BY <2>1 DEF IdleInv, BlockedOverCall
    <3> QED
      BY <2>1, <3>1 DEF EndsRestless, NotStopping, Restless, Open, Faultless
  <2> QED
    BY <2>1, <2>2, LeavingKeeps DEF Steady
<1>4. CASE CloseTurn \/ CloseLoop
  <2>1. /\ pc' \in {"turnClosed", "loopClosed"} /\ mem'.turn = mem.turn
        /\ HistoryKept \/ Fails
    BY <1>4, EnterStageDoes DEF CloseTurn, CloseLoop
  <2> QED
    BY <2>1, HistorySteady, BetweenKeeps
<1>5. CASE NextTurn
  <2>1. CASE pc' = "finally" /\ UNCHANGED <<mem, log>> /\ mem.run.draining
    BY <2>1, LeavingKeeps DEF Steady, EndsRestless, NotStopping
  <2>2. CASE pc' = "closeLoop" /\ UNCHANGED <<mem, log>>
    BY <2>2, BetweenKeeps DEF Steady
  <2> QED
    BY <1>0, <1>5, <2>1, <2>2, OpenScopeDoes, BeginTurnIdle DEF NextTurn
<1>6. CASE NextLoop
  <2>1. store' = store /\ log' = log /\ pc = "loopClosed" /\ mem'.turn = mem.turn
    BY <1>0, <1>6, OpenScopeDoes DEF NextLoop
  <2>2. Steady
    BY <2>1 DEF Steady
  <2>3. CASE pc' \in {"loopStage", "enterSettlement"}
    BY <2>2, <2>3, BetweenKeeps
  <2>4. CASE pc' = "finally" /\ mem' = mem /\ (mem.run.draining \/ HasOpenToolCalls)
    <3>1. Faultless /\ HasOpenToolCalls => Open
      BY <2>1, ShowsOpen DEF HasOpenToolCalls, Open
    <3>2. EndsRestless'
      BY <2>1, <2>4, <3>1 DEF EndsRestless, NotStopping, Restless, Open, Faultless
    <3> QED
      BY <2>2, <2>4, <3>2, LeavingKeeps
  <2> QED
    BY <1>6, <2>3, <2>4 DEF NextLoop
<1>7. CASE EnterSettlement
  <2>1. pc' = "settle" /\ mem'.turn = mem.turn /\ (HistoryKept \/ Fails)
    BY <1>7, SettlingDoes
  <2> QED
    BY <2>1, HistorySteady, BetweenKeeps
<1>8. CASE Settle
  <2>1. pc' = "finally" /\ mem'.turn = mem.turn /\ (HistoryKept \/ Fails)
    BY <1>8, SettleDoes
  <2>2. Steady
    BY <2>1, HistorySteady
  <2>3. EndsRestless'
    <3>1. CASE mem'.owed.pending = SettledRecord /\ mem'.run.reopened = LateWork
      BY <3>1 DEF EndsRestless, Restless, SettledRecord, NotOwed
    <3>2. CASE Fails
      BY <3>2 DEF EndsRestless, Fails, Faultless
    <3> QED
      BY <1>8, <3>1, <3>2, SettleDoes
  <2> QED
    BY <2>1, <2>2, <2>3, LeavingKeeps
<1>9. CASE Finally
  <2>1. /\ pc = "finally" /\ store' = store /\ HistoryKept /\ mem'.held = mem.held
        /\ mem'.owed = mem.owed /\ mem'.turn = mem.turn
        /\ mem'.run.draining = mem.run.draining /\ mem'.run.closed = mem.run.closed
    BY <1>9, FinallyDoes
  <2>2. Steady
    BY <2>1, HistorySteady
  <2>3. CASE pc' = "begin"
    BY <2>2, <2>3, BetweenKeeps
  <2>4. CASE /\ pc' = "idle"
             /\ \/ mem.run.closed \/ mem.run.draining
                \/ ~mem.run.turnRequested /\ ~RecordOutlivesAbort /\ ~RecordReopened
    <3>1. Restless' <=> Restless
      BY <2>1 DEF Restless, Open, DbFree
    <3>2. RestsRestless'
      <4>1. SUFFICES ASSUME Faultless, NotStopping PROVE Restless
        BY <2>1, <3>1 DEF RestsRestless, Faultless, NotStopping, HistoryKept
      <4>2. Restless \/ mem.run.reopened \/ mem.run.abortDropped \/ mem.run.turnRequested
        BY <2>1, <4>1 DEF IdleInv, EndsRestless
      <4> QED
        BY <2>4, <4>1, <4>2 DEF NotStopping, RecordOutlivesAbort, RecordReopened, Restless
    <3>3. NoneFailed'
      BY <2>2, <2>4, NoneFails
    <3> QED
      BY <2>4, <3>2, <3>3 DEF IdleInv, LoadsFor, BlockedLast, BlockedOverCall, EndsRestless,
         InTurn, LoadedAt
  <2> QED
    BY <1>9, <2>3, <2>4, FinallyDoes
<1> QED
  BY <1>1, <1>2, <1>3, <1>4, <1>5, <1>6, <1>7, <1>8, <1>9 DEF ClosingStep

LEMMA IdleStep ==
  ASSUME TypeOK, ConversationInv, CompleteInv, IdleInv, [Next]_vars
  PROVE  IdleInv'
<1>2. CASE UNCHANGED vars
  BY <1>2 DEF vars, IdleInv, NoneFailed, LoadsFor, BlockedLast, BlockedOverCall, EndsRestless,
     RestsRestless, Restless, Faultless, NotStopping, Failed, Open, DbFree
<1>3. CASE Callers \/ Publishing \/ Crash \/ Start
  BY <1>3, CallersIdle
<1>4. CASE OpeningStep \/ LoadStep
  BY <1>4, OpeningIdle
<1>5. CASE CycleStep
  BY <1>5, CycleIdle
<1>6. CASE ResponseStep
  BY <1>6, ResponseIdle
<1>7. CASE ToolStep
  BY <1>7, ToolIdle
<1>8. CASE ClosingStep
  BY <1>8, ClosingIdle
<1>9. CASE Rest
  BY <1>2, <1>9 DEF Rest
<1> QED
  BY <1>2, <1>3, <1>4, <1>5, <1>6, <1>7, <1>8, <1>9 DEF Next, RunStep

(* THEOREM: while no storage operation fails, an instance at rest that owes *)
(* something keeps an open call for a later attempt: no run ends over a turn*)
(* that is owed and that nothing will start again (#startRun, the finally of*)
(* #runTurns, start).                                                       *)
THEOREM IdleKeepsOpenCalls == Spec => []IdleOwesOnlyOpenCalls
<1>1. Init => IdleInv
  <2> SUFFICES ASSUME Init PROVE IdleInv
    OBVIOUS
  <2>1. /\ pc = "idle" /\ mem = Fresh(NotOwed) /\ log.excused = {}
    BY DEF Init
  <2>2. mem.turn.then = "none" /\ mem.owed.pending.stage = "none"
    BY <2>1 DEF Fresh, NotOwed
  <2> QED
    BY <2>1, <2>2 DEF IdleInv, NoneFailed, Failed, LoadsFor, BlockedLast, BlockedOverCall,
       EndsRestless, RestsRestless, Restless, InTurn, LoadedAt
<1>2. TypeOK /\ ConversationInv /\ CompleteInv /\ IdleInv /\ [Next]_vars => IdleInv'
  BY IdleStep
<1>3. IdleInv => IdleOwesOnlyOpenCalls
  BY DEF IdleInv, RestsRestless, Restless, NotStopping, Faultless, Open, IdleOwesOnlyOpenCalls,
     AtRest
<1> QED
  BY <1>1, <1>2, <1>3, TypeCorrect, ConversationWhole, CompleteInductive, PTL DEF Spec

-----------------------------------------------------------------------------
(* AnswerDueIsOwed                                                          *)

(* The record an instance believes it wrote last is the one in the store,   *)
(* but that an outer transaction may have made it owe a turn since.         *)
CacheInv ==
    \/ store.owed = mem.owed.pending
    \/ store.owed = [mem.owed.pending EXCEPT !.stage = "inference"]

LEMMA CacheWritten ==
  ASSUME TypeOK, CacheInv, NEW stage, RecordKept \/ Writes(stage)
  PROVE  CacheInv'
<1>1. CASE RecordKept
  BY <1>1 DEF CacheInv, RecordKept
<1>2. CASE Writes(stage)
  <2>1. CASE mem.owed.pending = Owing(stage)
    BY <1>2, <2>1 DEF CacheInv, Writes, Recorded
  <2>2. CASE mem.owed.pending # Owing(stage)
    BY <1>2, <2>2 DEF CacheInv, Writes, Recorded
  <2> QED
    BY <2>1, <2>2
<1> QED
  BY <1>1, <1>2

(* Any stage of the inference, recorded while a request is open, says so.   *)
LEMMA RequestRecorded ==
  ASSUME TypeOK, CacheInv, mem.owed.requestOpen = TRUE, Writes("inference")
  PROVE  store'.owed = Requesting
<1>1. Owing("inference") = Requesting
  BY DEF Owing, Requesting
<1>2. CASE mem.owed.pending = Requesting
  <2>1. [mem.owed.pending EXCEPT !.stage = "inference"] = Requesting
    BY <1>2 DEF Requesting
  <2> QED
    BY <1>1, <1>2, <2>1 DEF Writes, Recorded, CacheInv
<1>3. CASE mem.owed.pending # Requesting
  BY <1>1, <1>3 DEF Writes, Recorded
<1> QED
  BY <1>2, <1>3

LEMMA CacheStep ==
  ASSUME TypeOK, CacheInv, [Next]_vars
  PROVE  CacheInv'
<1>0. mem \in MemType /\ store.owed \in OwedRecord /\ mem.owed.pending \in OwedRecord
  BY MemFields DEF TypeOK, StoreType
<1>1. ASSUME NEW m \in Msgs, NEW k \in Kinds, NEW via \in {"own", "outer"}, Offer(m, k, via)
      PROVE  CacheInv'
  <2>1. CASE Writes("inference")
    BY <2>1, CacheWritten
  <2>2. CASE /\ store'.owed = [store.owed EXCEPT !.stage = "inference"]
             /\ mem'.owed.pending = mem.owed.pending
    BY <1>0, <2>2 DEF CacheInv, OwedRecord
  <2> QED
    BY <1>1, <2>1, <2>2, OfferDoes
<1>2. CASE Abort \/ Drain \/ Close \/ Publish \/ MarkCommitted \/ Start
  <2>1. CASE Abort \/ Drain \/ Close \/ MarkCommitted
    <3>1. RecordKept
      BY <2>1, AbortDoes, StopDoes, MarkDoes DEF RecordKept
    <3> QED
      BY <3>1, CacheWritten
  <2>2. CASE Publish \/ Start
    <3>1. PICK m \in MemType :
            /\ mem' = Opening(m) /\ store' = store
            /\ m.owed = mem.owed \/ m.owed = [mem.owed EXCEPT !.resumeRequested = TRUE]
      BY <2>2, PublishDoes, StartDoes
    <3>2. m.owed.pending = mem.owed.pending
      BY <1>0, <3>1 DEF MemType, OwedType
    <3>3. RecordKept
      BY <3>1, <3>2, OpeningDoes DEF RecordKept
    <3> QED
      BY <3>3, CacheWritten
  <2> QED
    BY <1>2, <2>1, <2>2
<1>3. CASE ActivateCommitted
  <2>1. PICK m \in MemType :
          /\ mem' = Opening(m) /\ store' = store
          /\ pc # "idle" => m.owed = mem.owed
          /\ pc = "idle" => m.owed.pending = store.owed
    BY <1>3, ActivateDoes
  <2>2. mem'.owed = m.owed
    BY <2>1, OpeningDoes
  <2> QED
    BY <2>1, <2>2 DEF CacheInv
<1>4. CASE Crash
  BY <1>4, CrashDoes DEF Fresh, CacheInv
<1>5. CASE OpeningStep \/ LoadStep
  <2>1. CASE BeginRun \/ SettleLoaded
    <3>1. RecordKept
      BY <1>0, <2>1, BeginRunDoes, OpenScopeDoes DEF SettleLoaded, RecordKept
    <3> QED
      BY <3>1, CacheWritten
  <2>2. CASE LoopStage \/ TurnStage
    BY <2>2, EnterStageDoes, CacheWritten DEF LoopStage, TurnStage
  <2>3. CASE OpenTurn
    <3>1. RecordKept
      BY <1>0, <2>3, BeginTurnDoes DEF OpenTurn, RecordKept
    <3> QED
      BY <3>1, CacheWritten
  <2>4. CASE ReadHistory \/ AssignHistory \/ LoadFails
    <3>1. RecordKept
      BY <2>4, ReadHistoryDoes, AssignHistoryDoes, LoadFailsDoes DEF RecordKept
    <3> QED
      BY <3>1, CacheWritten
  <2> QED
    BY <1>5, <2>1, <2>2, <2>3, <2>4 DEF OpeningStep, LoadStep
<1>6. CASE CycleStep
  <2>1. ASSUME NEW k \in Kinds, ConsumeQueue(k) PROVE CacheInv'
    BY <2>1, ConsumeDoes, CacheWritten
  <2>2. CASE RequestInference
    <3>1. CASE RecordKept
      BY <3>1, CacheWritten
    <3>2. CASE /\ store'.owed = (IF mem.owed.pending = Requesting THEN store.owed ELSE Requesting)
               /\ mem'.owed.pending = Requesting
      BY <3>2 DEF CacheInv
    <3> QED
      BY <2>2, <3>1, <3>2, RequestDoes
  <2>3. CASE BeginInference \/ Recover \/ RefreshCommittedQueues
    <3>1. RecordKept
      BY <2>3, BeginInferenceDoes, RecoverDoes, RefreshDoes DEF RecordKept
    <3> QED
      BY <3>1, CacheWritten
  <2>4. CASE StopCycle \/ NothingQueued \/ LeaveRequest \/ OpenStream
    BY <2>4 DEF StopCycle, NothingQueued, LeaveRequest, OpenStream, CacheInv
  <2> QED
    BY <1>6, <2>1, <2>2, <2>3, <2>4 DEF CycleStep
<1>7. CASE ResponseStep
  <2>1. CASE StreamBlock \/ StreamThrows \/ TurnThrows \/ \E state \in Ending : StreamEnds(state)
    <3>1. RecordKept
      BY <2>1, BlockDoes, StreamThrowsDoes, TurnThrowsDoes, StreamEndsDoes DEF RecordKept
    <3> QED
      BY <3>1, CacheWritten
  <2>2. CASE EndInference
    BY <2>2, EndInferenceDoes, CacheWritten
  <2>3. CASE SettleCalls
    BY <2>3, SettleCallsDoes, CacheWritten
  <2>4. CASE AppendResults
    BY <2>4, ResultsDo, CacheWritten
  <2> QED
    BY <1>7, <2>1, <2>2, <2>3, <2>4 DEF ResponseStep
<1>8. CASE ToolStep
  <2>1. CASE Dispatch \/ EndBatch
    BY <2>1, DispatchDoes, EndBatchDoes, CacheWritten
  <2>2. CASE Execute \/ ToolCommitsEarly \/ ToolSettles \/ ToolReloads \/ CommitResult
    <3>1. RecordKept
      BY <2>2, RunningDoes, CommitDoes DEF RecordKept
    <3> QED
      BY <3>1, CacheWritten
  <2> QED
    BY <1>8, <2>1, <2>2 DEF ToolStep
<1>9. CASE ClosingStep
  <2>1. CASE AppendFailure \/ FailTurn \/ Finally
    <3>1. RecordKept
      BY <2>1, NoteDoes, FailTurnDoes, FinallyDoes DEF RecordKept
    <3> QED
      BY <3>1, CacheWritten
  <2>2. CASE NothingToNote \/ LeaveRun
    BY <2>2 DEF NothingToNote, LeaveRun, CacheInv
  <2>3. CASE CloseTurn \/ CloseLoop
    BY <2>3, EnterStageDoes, CacheWritten DEF CloseTurn, CloseLoop
  <2>4. CASE NextTurn \/ NextLoop
    <3>1. OpenScope(mem) \in MemType /\ OpenScope(mem).owed = mem.owed
      BY <1>0, OpenScopeDoes
    <3>2. BeginTurn(OpenScope(mem)) => mem'.owed = mem.owed
      BY <3>1, BeginTurnDoes
    <3>3. store' = store /\ mem'.owed = mem.owed
      BY <2>4, <3>1, <3>2 DEF NextTurn, NextLoop
    <3>4. RecordKept
      BY <3>3 DEF RecordKept
    <3> QED
      BY <3>4, CacheWritten
  <2>5. CASE EnterSettlement
    BY <2>5, SettlingDoes, CacheWritten DEF CacheInv
  <2>6. CASE Settle
    BY <2>6, SettleDoes, CacheWritten DEF CacheInv
  <2> QED
    BY <1>9, <2>1, <2>2, <2>3, <2>4, <2>5, <2>6 DEF ClosingStep
<1>10. CASE UNCHANGED vars
  BY <1>10 DEF vars, CacheInv
<1> QED
  BY <1>1, <1>2, <1>3, <1>4, <1>5, <1>6, <1>7, <1>8, <1>9, <1>10
  DEF Next, Callers, Publishing, RunStep, Rest

(* The model spoke last: only its request, an open call or a message still  *)
(* queued can make the conversation owe it another turn.                    *)
SpokeLast == EndsWithResponse(store.records)

(* Whatever the next owner finds in the store makes it answer: the record   *)
(* owes a turn, and the conversation asks for one.                          *)
Stands ==
    /\ LateWork /\ store.records # <<>> /\ ~mem.run.aborted
    /\ SpokeLast => store.owed = Requesting \/ Open \/ store.queue # {}

(* This instance inherited the work and is still to check what it owes, and *)
(* no abort has told it to drop that.                                       *)
Inherits ==
    /\ ~mem.owed.recoveryChecked /\ mem.owed.inherited.stage # "none"
    /\ ~mem.run.abortDropped /\ mem.owed.pending.stage \in WorkStages

(* What of the queue the turn under way has loaded.                         *)
Seen ==
    IF pc = "assign" THEN mem.held.snapshot \cap store.queue
    ELSE IF pc \in {"turnStage", "resume", "recover", "cycle", "steering", "send"}
         THEN mem.held.waiting \cap store.queue
         ELSE store.queue

(* The turn that the inherited work leads to will find it is owed.          *)
Finds ==
    SpokeLast => \/ mem.owed.inherited = Requesting /\ mem.owed.requestOpen
                 \/ Open \/ Seen # {}

(* A drained run leaves its work for the next owner.                        *)
LeftBehind == mem.run.draining /\ pc \in {"idle", "finally"}

(* While a response is due: until its turn is under way it is inherited ... *)
TurnOpening == {"begin", "loopStage", "openTurn", "load", "assign", "turnStage", "resume"}
Executing == {"execute", "running", "commit"}
TurnClosing == {"turnDone", "turnClosed", "closeLoop", "loopClosed"}
Inherited ==
    /\ pc \in TurnOpening \cup {"idle", "finally"} => LeftBehind \/ (Inherits /\ Finds)
    /\ pc \in Executing \cup {"dispatch"} => Inherits
    /\ pc \in TurnClosing =>
           Inherits /\ Open /\ mem.held.loaded /\ Unanswered(mem.held.messages) # {}
    /\ pc = "begin" => ~mem.run.settleOnly
    /\ pc \in {"load", "assign"} => mem.turn.then = "turn"

(* ... in it, it is what makes the turn ask the model ...                   *)
Asks ==
    /\ pc = "recover" =>
           \/ mem.turn.needs
           \/ /\ ~mem.owed.recoveryChecked /\ mem.owed.inherited.stage # "none"
              /\ SpokeLast => mem.owed.inherited = Requesting \/ Seen # {}
    /\ pc \in {"cycle", "steering", "send"} =>
           \/ mem.run.draining /\ pc = "cycle"
           \/ mem.turn.needs
           \/ \E e \in Seen : pc = "send" => e.kind = "send"
    /\ pc \in {"asked", "stream"} => store.owed = Requesting /\ mem.owed.requestOpen
    /\ pc = "asked" => ~SpokeLast
    /\ pc = "answered" => ~mem.turn.stopped /\ LastType(store.records) = "result"

(* ... and neither a response nor a settlement comes over it.               *)
NotPassed ==
    /\ pc \in {"settleCalls", "appendResults", "note", "fail"} => Failed
    /\ pc \notin {"settleLoaded", "enterSettlement", "settle", "responded"}

(* A batch is executed for calls that it has, and that the store owes.      *)
BatchDue ==
    /\ pc \in Executing \cup {"dispatch"} => mem.turn.batch # {}
    /\ pc \in Executing => log.unnamed \/ LateWork

DueInv ==
    /\ BatchDue
    /\ Due => Stands
    /\ Due => Inherited
    /\ Due => Asks /\ NotPassed

(* A step leaves the response due, unless it gives or drops it.             *)
Keeps == Due' => Due

LEMMA HistoryKeepsDue ==
  ASSUME HistoryKept \/ Fails \/ UNCHANGED log
  PROVE  Keeps /\ log'.unnamed = log.unnamed
BY DEF HistoryKept, Fails, DueKept, Keeps, Due

(* What stands does while nothing is said, queued, owed or aborted.         *)
LEMMA StillStands ==
  ASSUME DueInv, Keeps, store' = store, mem'.run.aborted => mem.run.aborted
  PROVE  Due' => Stands'
BY DEF DueInv, Keeps, Stands, LateWork, SpokeLast, Open

(* A stage is written in the course of a turn ...                           *)
LEMMA StageStands ==
  ASSUME TypeOK, OwedInv, CacheInv, DueInv, Keeps, SaidKept,
         mem'.run.aborted => mem.run.aborted,
         RecordKept \/ \E stage \in WorkStages : Writes(stage),
         Due => \/ RecordKept \/ Open \/ store.queue # {} \/ ~SpokeLast
                \/ mem.owed.requestOpen = TRUE /\ Writes("inference")
  PROVE  Due' => Stands'
<1>1. LateWork => LateWork'
  BY RecordedOwesWork DEF Writes, RecordKept, OwedInv, LateWork, WorkStages
<1>2. SUFFICES ASSUME Due' PROVE Stands'
  OBVIOUS
<1>3. Due /\ Stands
  BY <1>2 DEF Keeps, DueInv
<1>4. store'.records = store.records /\ store'.queue = store.queue
  BY DEF SaidKept
<1>5. mem.owed.requestOpen = TRUE /\ Writes("inference") => store'.owed = Requesting
  BY RequestRecorded
<1>6. (SpokeLast' <=> SpokeLast) /\ (Open' <=> Open)
  BY <1>4 DEF SpokeLast, Open
<1>7. RecordKept => store'.owed = store.owed
  BY DEF RecordKept
<1> QED
  BY <1>1, <1>3, <1>4, <1>5, <1>6, <1>7 DEF Stands

(* ... and a batch that is not executed is none.                            *)
LEMMA NoBatch ==
  ASSUME pc' \notin Executing \cup {"dispatch"}
  PROVE  BatchDue'
BY DEF BatchDue

(* A response given, aborted or failed is due no more.                      *)
LEMMA NotDue ==
  ASSUME ~Due', BatchDue'
  PROVE  DueInv'
BY DEF DueInv

(* A step that leaves the run where it is, and the store as it is.          *)
Stays ==
    /\ pc' = pc /\ store' = store /\ HistoryKept /\ mem'.turn = mem.turn
    /\ mem'.held.messages = mem.held.messages /\ mem'.held.loaded = mem.held.loaded
    /\ mem'.held.snapshot = mem.held.snapshot /\ mem.held.waiting \subseteq mem'.held.waiting
    /\ mem'.owed.inherited = mem.owed.inherited /\ mem'.owed.pending = mem.owed.pending
    /\ mem'.owed.requestOpen = mem.owed.requestOpen
    /\ mem'.owed.recoveryChecked = mem.owed.recoveryChecked
    /\ mem'.run.aborted = mem.run.aborted /\ mem'.run.abortDropped = mem.run.abortDropped
    /\ mem'.run.settleOnly = mem.run.settleOnly
    /\ mem.run.draining => mem'.run.draining

LEMMA StayingDue ==
  ASSUME DueInv, Stays
  PROVE  DueInv'
<1>1. Keeps /\ log'.unnamed = log.unnamed
  BY HistoryKeepsDue DEF Stays
<1>2. BatchDue'
  BY <1>1 DEF DueInv, BatchDue, Stays, LateWork
<1>3. Due' => Stands'
  BY <1>1, StillStands DEF Stays
<1>4. Seen \subseteq Seen' /\ (SpokeLast' <=> SpokeLast) /\ (Open' <=> Open)
  BY DEF Stays, Seen, SpokeLast, Open
<1>5. (Inherits' <=> Inherits) /\ (Finds => Finds') /\ (LeftBehind => LeftBehind')
  BY <1>4 DEF Stays, Inherits, Finds, LeftBehind
<1>6. Inherited => Inherited'
  BY <1>4, <1>5 DEF Stays, Inherited
<1>7. Asks => Asks'
  BY <1>4 DEF Stays, Asks
<1>8. NotPassed => NotPassed'
  BY DEF Stays, NotPassed, Failed
<1> QED
  BY <1>1, <1>2, <1>3, <1>6, <1>7, <1>8 DEF Keeps, DueInv

(* A run starts from rest, with the record as the store has it.             *)
Begins ==
    /\ pc = "idle" /\ pc' = "begin" /\ store' = store /\ HistoryKept
    /\ ~mem.run.draining
    /\ mem'.owed.inherited = mem.owed.inherited
    /\ mem'.owed.recoveryChecked = mem.owed.recoveryChecked
    /\ \/ mem'.owed.pending = mem.owed.pending /\ mem'.owed.requestOpen = mem.owed.requestOpen
       \/ mem'.owed.pending = store.owed /\ mem'.owed.requestOpen = store.owed.open
    /\ mem'.run.aborted = mem.run.aborted
    /\ mem'.run.abortDropped = FALSE /\ mem'.run.settleOnly = FALSE

LEMMA BeginningDue ==
  ASSUME DueInv, Begins
  PROVE  DueInv'
<1>1. Keeps
  BY HistoryKeepsDue DEF Begins
<1>2. BatchDue'
  BY NoBatch DEF Begins, Executing
<1>3. Due' => Stands'
  BY <1>1, StillStands DEF Begins
<1>4. SUFFICES ASSUME Due' PROVE Inherited' /\ Asks' /\ NotPassed'
  BY <1>2, <1>3 DEF DueInv
<1>5. Due /\ Stands /\ Inherits /\ Finds
  BY <1>1, <1>4 DEF Keeps, DueInv, Inherited, LeftBehind, Begins
<1>6. Seen' = Seen /\ (SpokeLast' <=> SpokeLast) /\ (Open' <=> Open)
  BY DEF Begins, Seen, SpokeLast, Open
<1>7. Inherits'
  BY <1>5 DEF Begins, Inherits, Stands, LateWork, WorkStages
<1>8. Finds'
  <2>1. Open \/ store.queue # {} => Open \/ Seen # {}
    BY DEF Begins, Seen
  <2>2. Requesting.open = TRUE
    BY DEF Requesting
  <2> QED
    BY <1>5, <1>6, <2>1, <2>2 DEF Begins, Finds, Stands
<1> QED
  BY <1>7, <1>8 DEF Begins, Inherited, Asks, NotPassed, TurnOpening, TurnClosing, Executing

(* A message queued is itself what the next owner will find.                *)
LEMMA OfferingDue ==
  ASSUME TypeOK, OwedInv, CacheInv, DueInv,
         NEW m \in Msgs, NEW k \in Kinds, NEW via \in {"own", "outer"}, Offer(m, k, via)
  PROVE  DueInv'
<1>1. /\ pc' = pc /\ log' = log /\ mem'.run = mem.run /\ mem'.turn = mem.turn
      /\ ViewKept /\ ClaimsKept /\ store'.records = store.records
      /\ \E e : store'.queue = store.queue \cup {e}
      /\ \/ Writes("inference")
         \/ /\ store'.owed = [store.owed EXCEPT !.stage = "inference"]
            /\ mem'.owed.pending = mem.owed.pending
  BY OfferDoes
<1>2. Keeps /\ log'.unnamed = log.unnamed
  BY <1>1, HistoryKeepsDue
<1>3. store.owed \in OwedRecord
  BY DEF TypeOK, StoreType
<1>4. LateWork' /\ (mem.owed.pending.stage \in WorkStages => mem'.owed.pending.stage \in WorkStages)
  <2>1. CASE Writes("inference")
    BY <2>1, RecordedOwesWork DEF Writes, OwedInv, LateWork, WorkStages
  <2>2. CASE /\ store'.owed = [store.owed EXCEPT !.stage = "inference"]
             /\ mem'.owed.pending = mem.owed.pending
    BY <1>3, <2>2 DEF OwedRecord, LateWork
  <2> QED
    BY <1>1, <2>1, <2>2
<1>5. store.owed = Requesting /\ mem.owed.requestOpen = TRUE => store'.owed = Requesting
  <2>1. [Requesting EXCEPT !.stage = "inference"] = Requesting
    BY DEF Requesting
  <2> QED
    BY <1>1, <2>1, RequestRecorded
<1>6. store'.queue # {} /\ Seen \subseteq Seen'
  BY <1>1 DEF Seen, ViewKept
<1>7. (SpokeLast' <=> SpokeLast) /\ (Open' <=> Open)
  BY <1>1 DEF SpokeLast, Open
<1>8. BatchDue'
  BY <1>1, <1>4 DEF DueInv, BatchDue
<1>9. Due' => Stands'
  BY <1>1, <1>2, <1>4, <1>6 DEF Keeps, DueInv, Stands
<1>10. Inherited => Inherited'
  <2>1. (Inherits => Inherits') /\ (Finds => Finds') /\ (LeftBehind => LeftBehind')
    BY <1>1, <1>4, <1>6, <1>7 DEF Inherits, Finds, LeftBehind, ClaimsKept
  <2> QED
    BY <1>1, <1>7, <2>1 DEF Inherited, ViewKept
<1>11. Asks => Asks'
  <2>1. mem.owed.requestOpen \in BOOLEAN
    BY MemFields DEF TypeOK
  <2> QED
    BY <1>1, <1>5, <1>6, <1>7, <2>1 DEF Asks, ClaimsKept
<1>12. NotPassed => NotPassed'
  BY <1>1 DEF NotPassed, Failed
<1> QED
  BY <1>2, <1>8, <1>9, <1>10, <1>11, <1>12 DEF Keeps, DueInv

LEMMA CallersDue ==
  ASSUME TypeOK, OwedInv, CacheInv, DueInv, Callers \/ Publishing \/ Crash \/ Start
  PROVE  DueInv'
<1>0. mem \in MemType
  BY DEF TypeOK
<1>s. /\ Starts => Started = "begin" /\ pc = "idle" /\ ~mem.run.draining
      /\ ~Starts => Started = pc
  BY DEF Started, Starts
<1>1. CASE MarkCommitted \/ Drain \/ Close
  <2>1. Stays
    BY <1>1, MarkDoes, StopDoes DEF Stays, ViewKept, HistoryKept, DueKept
  <2> QED
    BY <2>1, StayingDue
<1>2. CASE Publish \/ ActivateCommitted \/ Start
  <2>1. PICK m \in MemType :
          /\ mem' = Opening(m) /\ pc' = Started /\ store' = store /\ HistoryKept
          /\ mem.held.waiting \subseteq m.held.waiting
          /\ m.held.messages = mem.held.messages /\ m.held.loaded = mem.held.loaded
          /\ m.held.snapshot = mem.held.snapshot /\ m.turn = mem.turn
          /\ m.run = mem.run \/ m.run = [mem.run EXCEPT !.turnRequested = TRUE]
          /\ m.owed.inherited = mem.owed.inherited
          /\ m.owed.recoveryChecked = mem.owed.recoveryChecked
          /\ \/ /\ m.owed.pending = mem.owed.pending
                /\ m.owed.requestOpen = mem.owed.requestOpen
             \/ /\ pc = "idle"
                /\ m.owed.pending = store.owed /\ m.owed.requestOpen = store.owed.open
    <3>1. CASE Publish
      BY <3>1, PublishDoes
    <3>2. CASE ActivateCommitted
      BY <3>2, ActivateDoes
    <3>3. CASE Start
      <4>1. PICK m \in MemType :
              /\ mem' = Opening(m) /\ pc' = Started /\ store' = store /\ log' = log
              /\ m.held = mem.held /\ m.run = mem.run /\ m.turn = mem.turn
              /\ m.owed = [mem.owed EXCEPT !.resumeRequested = TRUE]
        BY <3>3, StartDoes
      <4>2. /\ m.owed.inherited = mem.owed.inherited /\ m.owed.pending = mem.owed.pending
            /\ m.owed.recoveryChecked = mem.owed.recoveryChecked
            /\ m.owed.requestOpen = mem.owed.requestOpen
        BY <1>0, <4>1 DEF MemType, OwedType
      <4>3. HistoryKept
        BY <4>1 DEF HistoryKept, DueKept
      <4> QED
        BY <4>1, <4>2, <4>3
    <3> QED
      BY <1>2, <3>1, <3>2, <3>3
  <2>2. /\ m.run.aborted = mem.run.aborted /\ m.run.abortDropped = mem.run.abortDropped
        /\ m.run.settleOnly = mem.run.settleOnly /\ m.run.draining = mem.run.draining
    BY <1>0, <2>1 DEF MemType, RunType
  <2>3. /\ mem'.held = m.held /\ mem'.owed = m.owed /\ mem'.turn = m.turn
        /\ mem'.run.aborted = m.run.aborted /\ mem'.run.draining = m.run.draining
        /\ mem'.run.abortDropped = (IF Starts THEN FALSE ELSE m.run.abortDropped)
        /\ mem'.run.settleOnly = (IF Starts THEN FALSE ELSE m.run.settleOnly)
    BY <2>1, OpeningDoes
  <2>4. CASE Starts
    <3>1. Begins
      BY <1>s, <2>1, <2>2, <2>3, <2>4 DEF Begins
    <3> QED
      BY <3>1, BeginningDue
  <2>5. CASE ~Starts /\ pc # "idle"
    <3>1. Stays
      BY <1>s, <2>1, <2>2, <2>3, <2>5 DEF Stays
    <3> QED
      BY <3>1, StayingDue
  <2>6. CASE ~Starts /\ pc = "idle"
    <3>1. Keeps
      BY <2>1, HistoryKeepsDue
    <3>2. pc' = "idle" /\ LeftBehind'
      BY <1>s, <2>1, <2>2, <2>3, <2>6 DEF Starts, LeftBehind
    <3>3. BatchDue'
      BY <3>2, NoBatch DEF Executing
    <3>4. Due' => Stands'
      BY <2>1, <2>2, <2>3, <3>1, StillStands
    <3> QED
      BY <3>2, <3>3, <3>4 DEF DueInv, Inherited, Asks, NotPassed, TurnOpening, TurnClosing, Executing
  <2> QED
    BY <2>4, <2>5, <2>6
<1>3. CASE Abort
  <2>1. /\ pc' = pc /\ store' = store /\ mem'.turn = mem.turn /\ log'.answerDue = FALSE
        /\ log'.unnamed = log.unnamed
    BY <1>3, AbortDoes
  <2> QED
    BY <2>1, NotDue DEF Due, DueInv, BatchDue, LateWork
<1>4. CASE Crash
  <2>1. pc' = "idle" /\ store' = store /\ HistoryKept /\ mem' = Fresh(store.owed)
    BY <1>4, CrashDoes
  <2>2. /\ mem'.owed.inherited = store.owed /\ mem'.owed.pending = store.owed
        /\ mem'.owed.requestOpen = store.owed.open /\ mem'.owed.recoveryChecked = FALSE
        /\ mem'.run.abortDropped = FALSE /\ mem'.run.aborted = FALSE
    BY <2>1 DEF Fresh
  <2>3. Keeps /\ BatchDue'
    BY <2>1, HistoryKeepsDue, NoBatch DEF Executing
  <2>4. Due' => Stands'
    BY <2>1, <2>2, <2>3, StillStands
  <2>5. SUFFICES ASSUME Due' PROVE Inherited' /\ Asks' /\ NotPassed'
    BY <2>3, <2>4 DEF DueInv
  <2>6. Inherits'
    BY <2>2, <2>4, <2>5, <2>1 DEF Inherits, Stands, LateWork, WorkStages
  <2>7. Finds'
    <3>1. Requesting.open = TRUE
      BY DEF Requesting
    <3>2. Seen' = store'.queue
      BY <2>1 DEF Seen
    <3> QED
      BY <2>1, <2>2, <2>4, <2>5, <3>1, <3>2 DEF Finds, Stands
  <2> QED
    BY <2>1, <2>6, <2>7 DEF Inherited, Asks, NotPassed, TurnOpening, TurnClosing, Executing
<1>5. CASE \E m \in Msgs, k \in Kinds, via \in {"own", "outer"} : Offer(m, k, via)
  BY <1>5, OfferingDue
<1> QED
  BY <1>1, <1>2, <1>3, <1>4, <1>5 DEF Callers, Publishing

(* A step of the turn that says nothing and inherits as before.             *)
Carries ==
    /\ SaidKept /\ ClaimsKept /\ mem'.run.abortDropped = mem.run.abortDropped
    /\ mem.owed.pending.stage \in WorkStages => mem'.owed.pending.stage \in WorkStages

LEMMA CarriesOn ==
  ASSUME Carries
  PROVE  /\ Inherits => Inherits'
         /\ (SpokeLast' <=> SpokeLast) /\ (Open' <=> Open)
         /\ Finds /\ (Open \/ Seen \subseteq Seen') => Finds'
<1>1. (SpokeLast' <=> SpokeLast) /\ (Open' <=> Open)
  BY DEF Carries, SaidKept, SpokeLast, Open
<1>2. Inherits => Inherits'
  BY DEF Carries, ClaimsKept, Inherits
<1> QED
  BY <1>1, <1>2 DEF Carries, ClaimsKept, Finds

(* A stage hook reaches the store or fails; either way it carries on.       *)
LEMMA StageCarries ==
  ASSUME TypeOK, OwedInv, NEW from, NEW to, EnterStage(from, "inference", to)
  PROVE  /\ pc = from /\ pc' = to /\ Carries /\ Keeps
         /\ mem'.held = mem.held /\ mem'.run = mem.run /\ mem'.turn = mem.turn
         /\ RecordKept \/ Writes("inference")
<1>1. /\ pc = from /\ pc' = to /\ SaidKept
      /\ mem'.held = mem.held /\ mem'.run = mem.run /\ mem'.turn = mem.turn /\ ClaimsKept
      /\ (Writes("inference") /\ HistoryKept) \/ (RecordKept /\ Fails)
  BY EnterStageDoes
<1>2. Keeps
  BY <1>1, HistoryKeepsDue
<1>3. mem.owed.pending.stage \in WorkStages => mem'.owed.pending.stage \in WorkStages
  BY <1>1, RecordedOwesWork DEF Writes, RecordKept, OwedInv, WorkStages
<1> QED
  BY <1>1, <1>2, <1>3 DEF Carries

(* Into a place before the turn is under way.                               *)
LEMMA StillOpening ==
  ASSUME pc' \in TurnOpening, Inherits', Finds', pc' = "begin" => ~mem'.run.settleOnly,
         pc' \in {"load", "assign"} => mem'.turn.then = "turn"
  PROVE  Inherited' /\ Asks' /\ NotPassed'
BY DEF Inherited, Asks, NotPassed, TurnOpening, TurnClosing, Executing

LEMMA DrainLeaves ==
  ASSUME pc' = "finally", mem'.run.draining
  PROVE  Inherited' /\ Asks' /\ NotPassed' /\ BatchDue'
BY DEF Inherited, LeftBehind, Asks, NotPassed, BatchDue, TurnOpening, TurnClosing, Executing

LEMMA DrainingDue ==
  ASSUME DueInv, Keeps, store' = store, mem'.run = mem.run, pc' = "finally", mem.run.draining
  PROVE  DueInv'
<1>1. Due' => Stands'
  BY StillStands
<1> QED
  BY <1>1, DrainLeaves DEF DueInv

LEMMA BeginTurnDue ==
  ASSUME TypeOK, DueInv, store' = store, NEW m \in MemType, BeginTurn(m), m.owed = mem.owed,
         m.run.abortDropped = mem.run.abortDropped, m.run.aborted => mem.run.aborted,
         Due => Inherits /\ Finds /\ (Open \/ pc = "openTurn")
  PROVE  DueInv'
<1>1. /\ pc' = "load" /\ HistoryKept /\ mem'.owed = mem.owed /\ mem'.turn.then = "turn"
      /\ mem'.run.abortDropped = mem.run.abortDropped
      /\ mem'.run.aborted => mem.run.aborted
  BY BeginTurnDoes
<1>2. Keeps /\ BatchDue'
  BY <1>1, HistoryKeepsDue, NoBatch DEF Executing
<1>3. Due' => Stands'
  BY <1>1, <1>2, StillStands
<1>4. SUFFICES ASSUME Due' PROVE Inherited' /\ Asks' /\ NotPassed'
  BY <1>2, <1>3 DEF DueInv
<1>5. Due
  BY <1>2, <1>4 DEF Keeps
<1>6. Carries /\ (Open \/ Seen \subseteq Seen')
  BY <1>1, <1>5 DEF Carries, SaidKept, ClaimsKept, Seen
<1>7. Inherits' /\ Finds'
  BY <1>5, <1>6, CarriesOn
<1> QED
  BY <1>1, <1>7, StillOpening DEF TurnOpening

LEMMA OpeningDue ==
  ASSUME TypeOK, OwedInv, CacheInv, ConversationInv, DueInv, OpeningStep \/ LoadStep
  PROVE  DueInv'
<1>0. mem \in MemType
  BY DEF TypeOK
<1>1. CASE BeginRun
  <2>1. pc = "begin" /\ store' = store /\ log' = log
    BY <1>1, BeginRunDoes
  <2>2. Keeps
    BY <2>1, HistoryKeepsDue
  <2>3. CASE mem.run.draining /\ pc' = "finally" /\ mem' = mem
    BY <2>1, <2>2, <2>3, DrainingDue
  <2>4. CASE pc' = "loopStage" /\ mem' = OpenScope(mem)
    <3>1. /\ mem'.owed = mem.owed /\ mem'.run.aborted = FALSE
          /\ mem'.run.abortDropped = mem.run.abortDropped
      BY <1>0, <2>4, OpenScopeDoes
    <3>2. BatchDue' /\ (Due' => Stands')
      BY <2>1, <2>2, <2>4, <3>1, NoBatch, StillStands DEF Executing
    <3>3. Carries /\ Seen \subseteq Seen'
      BY <2>1, <2>4, <3>1 DEF Carries, SaidKept, ClaimsKept, Seen
    <3>4. Due => Inherits /\ Finds
      BY <2>1 DEF DueInv, Inherited, LeftBehind, TurnOpening
    <3>5. Due' => Inherited' /\ Asks' /\ NotPassed'
      BY <2>2, <2>4, <3>3, <3>4, CarriesOn, StillOpening DEF Keeps, TurnOpening
    <3> QED
      BY <3>2, <3>5 DEF DueInv
  <2>5. CASE mem.owed.pending.stage = "settlement" \/ mem.run.settleOnly
    <3>1. ~Due
      BY <2>1, <2>5 DEF DueInv, Inherited, LeftBehind, Inherits, TurnOpening, WorkStages
    <3>2. BatchDue'
      BY <1>1, <2>5, BeginRunDoes, NoBatch DEF Executing
    <3> QED
      BY <2>2, <3>1, <3>2, NotDue DEF Keeps
  <2> QED
    BY <1>1, <2>3, <2>4, <2>5, BeginRunDoes
<1>2. CASE SettleLoaded
  <2>1. pc = "settleLoaded" /\ log' = log /\ pc' \notin Executing \cup {"dispatch"}
    BY <1>2 DEF SettleLoaded, Executing
  <2>2. ~Due /\ Keeps
    BY <2>1, HistoryKeepsDue DEF DueInv, NotPassed
  <2> QED
    BY <2>1, <2>2, NoBatch, NotDue DEF Keeps
<1>3. CASE LoopStage \/ TurnStage
  <2>1. PICK from, to :
          /\ EnterStage(from, "inference", to)
          /\ <<from, to>> \in {<<"loopStage", "openTurn">>, <<"turnStage", "resume">>}
    BY <1>3 DEF LoopStage, TurnStage
  <2>2. /\ pc = from /\ pc' = to /\ Carries /\ Keeps
        /\ mem'.held = mem.held /\ mem'.run = mem.run /\ mem'.turn = mem.turn
        /\ RecordKept \/ Writes("inference")
    BY <2>1, StageCarries
  <2>3. \/ pc = "loopStage" /\ pc' = "openTurn"
        \/ pc = "turnStage" /\ pc' = "resume"
    BY <2>1, <2>2
  <2>4. Due => Inherits /\ Finds
    BY <2>3 DEF DueInv, Inherited, LeftBehind, TurnOpening
  <2>5. Seen \subseteq Seen' /\ Seen \subseteq store.queue
    BY <2>2, <2>3 DEF Seen, Carries, SaidKept
  <2>6. Due => \/ RecordKept \/ Open \/ store.queue # {} \/ ~SpokeLast
               \/ mem.owed.requestOpen = TRUE /\ Writes("inference")
    BY <2>2, <2>4, <2>5 DEF Finds
  <2>7. Due' => Stands'
    BY <2>2, <2>6, StageStands DEF Carries, WorkStages
  <2>8. Due' => Inherited' /\ Asks' /\ NotPassed'
    BY <2>2, <2>3, <2>4, <2>5, CarriesOn, StillOpening DEF Keeps, TurnOpening
  <2>9. BatchDue'
    BY <2>3, NoBatch DEF Executing
  <2> QED
    BY <2>7, <2>8, <2>9 DEF DueInv
<1>4. CASE OpenTurn
  <2>1. pc = "openTurn" /\ store' = store
    BY <1>4 DEF OpenTurn
  <2>2. CASE mem.run.draining /\ pc' = "finally" /\ UNCHANGED <<mem, log>>
    BY <2>1, <2>2, DrainingDue, HistoryKeepsDue
  <2>3. CASE BeginTurn(mem)
    <3>1. Due => Inherits /\ Finds
      BY <2>1 DEF DueInv, Inherited, LeftBehind, TurnOpening
    <3> QED
      BY <1>0, <2>1, <2>3, <3>1, BeginTurnDue
  <2> QED
    BY <1>4, <2>2, <2>3 DEF OpenTurn
<1>5. CASE ReadHistory \/ AssignHistory
  <2>1. /\ store' = store /\ log' = log /\ mem'.run = mem.run /\ mem'.owed = mem.owed
        /\ mem'.turn.then = mem.turn.then
        /\ \/ pc = "load" /\ pc' = "assign" /\ mem'.held.snapshot = store.queue
           \/ /\ pc = "assign" /\ mem'.held.waiting = mem.held.snapshot
              /\ pc' = (IF mem.turn.then = "settle" THEN "settleLoaded" ELSE "turnStage")
    BY <1>5, ReadHistoryDoes, AssignHistoryDoes
  <2>2. Keeps /\ BatchDue'
    BY <2>1, HistoryKeepsDue, NoBatch DEF Executing
  <2>3. Due' => Stands'
    BY <2>1, <2>2, StillStands
  <2>4. SUFFICES ASSUME Due' PROVE Inherited' /\ Asks' /\ NotPassed'
    BY <2>2, <2>3 DEF DueInv
  <2>5. Due /\ Inherits /\ Finds /\ mem.turn.then = "turn"
    BY <2>1, <2>2, <2>4 DEF Keeps, DueInv, Inherited, LeftBehind, TurnOpening
  <2>6. Carries /\ Seen \subseteq Seen'
    BY <2>1, <2>5 DEF Carries, SaidKept, ClaimsKept, Seen
  <2> QED
    BY <2>1, <2>5, <2>6, CarriesOn, StillOpening DEF TurnOpening
<1>6. CASE LoadFails
  <2>1. pc \in {"load", "assign"} /\ pc' \notin Executing \cup {"dispatch"}
    BY <1>6, LoadFailsDoes DEF Executing
  <2>2. CASE mem.turn.then = "settle"
    <3>1. Fails
      BY <1>6, <2>2, LoadFailsDoes
    <3>2. Keeps /\ ~Due
      BY <2>1, <2>2, <3>1, HistoryKeepsDue DEF DueInv, Inherited
    <3> QED
      BY <2>1, <3>2, NoBatch, NotDue DEF Keeps
  <2>3. CASE mem.turn.then # "settle"
    BY <1>6, <2>1, <2>3, LoadFailsDoes, NoBatch, NotDue DEF Due
  <2> QED
    BY <2>2, <2>3
<1> QED
  BY <1>1, <1>2, <1>3, <1>4, <1>5, <1>6 DEF OpeningStep, LoadStep

(* The type of the last record says who spoke last.                         *)
LEMMA LastSaid ==
  ASSUME NEW s \in Seq(Record)
  PROVE  /\ \A x \in Record : LastType(Append(s, x)) = x.type /\ Append(s, x) # <<>>
         /\ s # <<>> => LastType(s) \in {"user", "call", "result", "text", "system"}
<1>1. \A x \in Record : Append(s, x) # <<>> /\ Append(s, x)[Len(Append(s, x))] = x
  OBVIOUS
<1>2. s # <<>> => s[Len(s)] \in Record
  OBVIOUS
<1>3. \A x \in Record : x.type \in {"user", "call", "result", "text", "system"}
  BY DEF Record
<1> QED
  BY <1>1, <1>2, <1>3 DEF LastType

LEMMA OthersSpoke ==
  ASSUME TypeOK, NEW x \in Record, x.type \in {"user", "result", "system"},
         store'.records = Append(store.records, x)
  PROVE  store'.records # <<>> /\ ~SpokeLast' /\ LastType(store'.records) = x.type
<1>1. store.records \in Seq(Record)
  BY DEF TypeOK, StoreType
<1> QED
  BY <1>1, LastSaid DEF SpokeLast, EndsWithResponse

(* An attempt looks for what it owes, asks for it, or is told to stop.      *)
LEMMA CycleDue ==
  ASSUME TypeOK, OwedInv, CacheInv, ConversationInv, DueInv, CycleStep
  PROVE  DueInv'
<1>1. CASE BeginInference
  <2>1. /\ pc = "resume" /\ store' = store /\ Keeps /\ mem'.run = mem.run
    BY <1>1, BeginInferenceDoes, HistoryKeepsDue
  <2>2. CASE mem.run.draining /\ pc' = "finally"
    BY <2>1, <2>2, DrainingDue
  <2>3. Due' => Stands'
    BY <2>1, StillStands
  <2>4. Due => Inherits /\ Finds /\ ~mem.run.aborted
    BY <2>1 DEF DueInv, Inherited, LeftBehind, Stands, TurnOpening
  <2>5. CASE /\ mem'.held = mem.held
             /\ mem'.owed.inherited = mem.owed.inherited
             /\ mem'.owed.pending = mem.owed.pending
             /\ mem'.owed.recoveryChecked = mem.owed.recoveryChecked
             /\ mem'.turn.batch = mem.turn.batch
             /\ \/ mem.turn.batch # {} /\ pc' = "dispatch"
                \/ mem.turn.batch # {} /\ mem.run.aborted /\ pc' = "turnDone"
                \/ mem.turn.batch = {} /\ pc' = "recover"
    <3>1. BatchDue'
      BY <2>5 DEF BatchDue, Executing
    <3>2. CASE pc' = "dispatch"
      BY <2>1, <2>3, <2>4, <2>5, <3>1, <3>2
      DEF Keeps, DueInv, Inherits, Inherited, Asks, NotPassed, TurnOpening, TurnClosing, Executing
    <3>3. CASE pc' = "turnDone"
      BY <2>1, <2>4, <2>5, <3>1, <3>3, NotDue DEF Keeps
    <3>4. CASE mem.turn.batch = {} /\ pc' = "recover"
      <4>1. ~Open /\ ~Open'
        BY <2>1, <3>4 DEF ConversationInv, OpenCallsInv, Batching, Open
      <4>2. Seen' = Seen /\ (SpokeLast' <=> SpokeLast)
        BY <2>1, <2>5, <3>4 DEF Seen, SpokeLast
      <4>3. Due => /\ ~mem'.owed.recoveryChecked /\ mem'.owed.inherited.stage # "none"
                   /\ SpokeLast' => mem'.owed.inherited = Requesting \/ Seen' # {}
        BY <2>4, <2>5, <4>1, <4>2 DEF Inherits, Finds
      <4> QED
        BY <2>1, <2>3, <3>1, <3>4, <4>3
        DEF Keeps, DueInv, Inherited, Asks, NotPassed, TurnOpening, TurnClosing, Executing
    <3> QED
      BY <2>5, <3>2, <3>3, <3>4
  <2> QED
    BY <1>1, <2>2, <2>5, BeginInferenceDoes
<1>2. CASE Recover
  <2>1. /\ pc = "recover" /\ pc' = "cycle" /\ store' = store /\ Keeps
        /\ mem'.held = mem.held /\ mem'.run = mem.run
        /\ mem'.turn.needs = (mem.turn.needs \/ (Interrupted /\ OwesResponse))
    BY <1>2, RecoverDoes, HistoryKeepsDue
  <2>2. BatchDue' /\ (Due' => Stands')
    BY <2>1, NoBatch, StillStands DEF Executing
  <2>3. mem.held.messages = store.records /\ store.records \in Seq(Record)
    BY <2>1 DEF TypeOK, StoreType, ConversationInv, LiveContextMatchesStore, Asking
  <2>4. Seen' = Seen
    BY <2>1 DEF Seen
  <2>5. SUFFICES ASSUME Due' PROVE mem'.turn.needs \/ Seen' # {}
    BY <2>1, <2>2 DEF DueInv, Inherited, Asks, NotPassed, TurnOpening, TurnClosing, Executing
  <2>6. Due /\ store.records # <<>>
    BY <2>1, <2>5 DEF Keeps, DueInv, Stands
  <2>7. CASE mem.turn.needs
    BY <2>1, <2>7
  <2>8. CASE Seen # {}
    BY <2>4, <2>8
  <2>9. CASE ~mem.turn.needs /\ Seen = {}
    <3>1. Interrupted /\ (SpokeLast => mem.owed.inherited = Requesting)
      BY <2>1, <2>6, <2>9 DEF DueInv, Asks, Interrupted
    <3>2. OwesResponse
      BY <2>3, <2>6, <3>1, LastSaid DEF OwesResponse, SpokeLast, EndsWithResponse
    <3> QED
      BY <2>1, <3>1, <3>2
  <2> QED
    BY <2>7, <2>8, <2>9
<1>3. CASE StopCycle \/ LeaveRequest
  <2>1. UNCHANGED <<store, mem, log>>
    BY <1>3 DEF StopCycle, LeaveRequest
  <2>2. Keeps
    BY <2>1, HistoryKeepsDue
  <2>3. CASE mem.run.draining /\ pc' = "finally"
    BY <2>1, <2>2, <2>3, DrainingDue
  <2>4. CASE mem.run.aborted /\ pc' \in {"note", "cycle"}
    <3>1. BatchDue'
      BY <2>4, NoBatch DEF Executing
    <3> QED
      BY <2>2, <2>4, <3>1, NotDue DEF Keeps, DueInv, Stands
  <2> QED
    BY <1>3, <2>3, <2>4 DEF StopCycle, LeaveRequest
<1>4. CASE RefreshCommittedQueues
  <2>1. /\ pc = "cycle" /\ pc' = "steering" /\ ~mem.run.draining /\ store' = store /\ Keeps
        /\ mem'.run = mem.run /\ mem'.owed = mem.owed /\ mem'.turn = mem.turn
        /\ mem.held.waiting \subseteq mem'.held.waiting
    BY <1>4, RefreshDoes, HistoryKeepsDue
  <2>2. BatchDue' /\ (Due' => Stands')
    BY <2>1, NoBatch, StillStands DEF Executing
  <2>3. Seen \subseteq Seen'
    BY <2>1 DEF Seen
  <2>4. Due => mem'.turn.needs \/ Seen' # {}
    BY <2>1, <2>3 DEF DueInv, Asks
  <2> QED
    BY <2>1, <2>2, <2>4
    DEF Keeps, DueInv, Inherited, Asks, NotPassed, TurnOpening, TurnClosing, Executing
<1>5. ASSUME NEW k \in Kinds, ConsumeQueue(k)
      PROVE  DueInv'
  <2>1. PICK m \in Msgs : store'.records = Append(store.records, User(m))
    BY <1>5, ConsumeDoes
  <2>2. store'.records # <<>> /\ ~SpokeLast'
    BY <2>1, OthersSpoke, RecordTypes DEF User
  <2>3. /\ pc' = "request" /\ Writes("inference") /\ mem'.run.aborted = mem.run.aborted
        /\ log'.answerDue = ~mem.run.aborted
    BY <1>5, ConsumeDoes
  <2>4. LateWork'
    BY <2>3, RecordedOwesWork DEF Writes, OwedInv, LateWork, WorkStages
  <2>5. BatchDue'
    BY <2>3, NoBatch DEF Executing
  <2>6. Due' => Stands'
    BY <2>2, <2>3, <2>4 DEF Due, Stands
  <2> QED
    BY <2>3, <2>5, <2>6
    DEF DueInv, Inherited, Asks, NotPassed, TurnOpening, TurnClosing, Executing
<1>6. CASE NothingQueued
  <2>1. /\ UNCHANGED <<store, mem, log>> /\ pc \in Kinds
        /\ OfKind(pc, mem.held.waiting \cap store.queue) = {}
        /\ pc' = IF mem.turn.needs THEN "request"
                 ELSE IF pc = "steering" THEN "send" ELSE "note"
    BY <1>6 DEF NothingQueued, Consumable
  <2>2. Keeps
    BY <2>1, HistoryKeepsDue
  <2>3. BatchDue' /\ (Due' => Stands')
    BY <2>1, <2>2, NoBatch, StillStands DEF Executing
  <2>4. CASE mem.turn.needs
    BY <2>1, <2>3, <2>4
    DEF DueInv, Inherited, Asks, NotPassed, TurnOpening, TurnClosing, Executing
  <2>5. CASE ~mem.turn.needs
    <3>1. Seen = mem.held.waiting \cap store.queue /\ Seen \subseteq Entry
      BY <2>1 DEF Seen, Kinds, TypeOK, StoreType
    <3>2. Due => \E e \in Seen : pc = "send" => e.kind = "send"
      BY <2>1, <2>5 DEF DueInv, Asks, Kinds
    <3>3. Due => \E e \in Seen : pc = "steering" /\ e.kind = "send"
      BY <2>1, <3>1, <3>2 DEF OfKind, Kinds, Entry
    <3>4. CASE ~Due
      BY <2>2, <2>3, <3>4, NotDue DEF Keeps
    <3>5. CASE Due
      <4>1. pc = "steering" /\ pc' = "send"
        BY <2>1, <2>5, <3>3, <3>5
      <4>2. \E e \in Seen' : e.kind = "send"
        BY <2>1, <3>3, <3>5, <4>1 DEF Seen
      <4> QED
        BY <2>3, <4>1, <4>2
        DEF DueInv, Inherited, Asks, NotPassed, TurnOpening, TurnClosing, Executing
    <3> QED
      BY <3>4, <3>5
  <2> QED
    BY <2>4, <2>5
<1>7. CASE RequestInference
  <2>1. pc = "request" /\ pc' = "asked" /\ mem'.run = mem.run /\ mem'.owed.requestOpen = TRUE
        /\ log'.answerDue = log.answerDue
    BY <1>7, RequestDoes
  <2>2. BatchDue'
    BY <2>1, NoBatch DEF Executing
  <2>3. CASE log'.unnamed = TRUE
    BY <2>2, <2>3, NotDue DEF Due
  <2>4. CASE /\ store'.owed = (IF mem.owed.pending = Requesting THEN store.owed ELSE Requesting)
             /\ HistoryKept
             /\ \/ ~EndsWithResponse(mem.held.messages) /\ store'.records = store.records
                \/ store'.records = Append(store.records, System)
    <3>1. store'.owed = Requesting
      <4>1. mem.owed.pending = Requesting => store.owed = Requesting
        BY DEF CacheInv, Requesting
      <4> QED
        BY <2>4, <4>1
    <3>2. mem.held.messages = store.records
      BY <2>1 DEF ConversationInv, LiveContextMatchesStore, Asking
    <3>3. ~SpokeLast' /\ (store.records # <<>> => store'.records # <<>>)
      <4>1. CASE ~EndsWithResponse(mem.held.messages) /\ store'.records = store.records
        BY <3>2, <4>1 DEF SpokeLast
      <4>2. CASE store'.records = Append(store.records, System)
        BY <4>2, OthersSpoke, RecordTypes DEF System
      <4> QED
        BY <2>4, <4>1, <4>2
    <3>4. Keeps
      BY <2>4, HistoryKeepsDue
    <3>5. Due' => Stands'
      BY <2>1, <3>1, <3>3, <3>4 DEF Keeps, DueInv, Stands, LateWork, Requesting
    <3> QED
      BY <2>1, <2>2, <3>1, <3>3, <3>5
      DEF DueInv, Inherited, Asks, NotPassed, TurnOpening, TurnClosing, Executing
  <2> QED
    BY <1>7, <2>3, <2>4, RequestDoes
<1>8. CASE OpenStream
  <2>1. /\ UNCHANGED <<store, mem, log>> /\ pc = "asked"
        /\ pc' = IF mem.run.draining THEN "cycle" ELSE "stream"
    BY <1>8 DEF OpenStream
  <2>2. Keeps
    BY <2>1, HistoryKeepsDue
  <2>3. BatchDue' /\ (Due' => Stands')
    BY <2>1, <2>2, NoBatch, StillStands DEF Executing
  <2>4. Due => store.owed = Requesting /\ mem.owed.requestOpen
    BY <2>1 DEF DueInv, Asks
  <2> QED
    BY <2>1, <2>2, <2>3, <2>4
    DEF Keeps, DueInv, Inherited, Asks, NotPassed, TurnOpening, TurnClosing, Executing
<1> QED
  BY <1>1, <1>2, <1>3, <1>4, <1>5, <1>6, <1>7, <1>8 DEF CycleStep

(* A response ends what was due, and only a failed turn settles before one. *)
LEMMA ResponseDue ==
  ASSUME TypeOK, OwedInv, CacheInv, ConversationInv, DueInv, ResponseStep
  PROVE  DueInv'
<1>1. CASE StreamBlock
  <2>1. /\ pc = "stream" /\ pc' = "stream" /\ RecordKept /\ store'.queue = store.queue
        /\ mem'.run = mem.run /\ mem'.owed = mem.owed
        /\ log'.answerDue = log.answerDue /\ log'.unnamed = log.unnamed
        /\ \E x \in Record : store'.records = Append(store.records, x)
    BY <1>1, BlockDoes, RecordTypes
  <2>2. store'.records # <<>>
    BY <2>1, LastSaid DEF TypeOK, StoreType
  <2>3. BatchDue'
    BY <2>1, NoBatch DEF Executing
  <2>4. Due => store.owed = Requesting /\ mem.owed.requestOpen
    BY <2>1 DEF DueInv, Asks
  <2>5. Due' => Due
    BY <2>1 DEF Due
  <2>6. Due' => Stands'
    BY <2>1, <2>2, <2>4, <2>5 DEF RecordKept, DueInv, Stands, LateWork
  <2> QED
    BY <2>1, <2>3, <2>4, <2>5, <2>6
    DEF RecordKept, DueInv, Inherited, Asks, NotPassed, TurnOpening, TurnClosing, Executing
<1>2. CASE StreamThrows \/ \E state \in Ending : StreamEnds(state)
  <2>1. pc' \in {"settleCalls", "responded"} /\ log'.answerDue = FALSE
    BY <1>2, StreamThrowsDoes, StreamEndsDoes
  <2> QED
    BY <2>1, NoBatch, NotDue DEF Due, Executing
<1>3. CASE TurnThrows
  <2>1. /\ pc' = "settleCalls" /\ store' = store /\ mem'.run = mem.run
        /\ mem'.turn.then = "catch" /\ Keeps
    BY <1>3, TurnThrowsDoes, HistoryKeepsDue
  <2>2. BatchDue' /\ (Due' => Stands')
    BY <2>1, NoBatch, StillStands DEF Executing
  <2> QED
    BY <2>1, <2>2
    DEF DueInv, Inherited, Asks, NotPassed, Failed, TurnOpening, TurnClosing, Executing
<1>4. CASE EndInference
  <2>1. pc = "responded" /\ (HistoryKept \/ Fails)
    BY <1>4, EndInferenceDoes
  <2>2. ~Due /\ Keeps
    BY <2>1, HistoryKeepsDue DEF DueInv, NotPassed
  <2>3. BatchDue'
    BY <1>4, EndInferenceDoes DEF BatchDue, Executing
  <2> QED
    BY <2>2, <2>3, NotDue DEF Keeps
<1>5. CASE SettleCalls
  <2>1. /\ pc = "settleCalls" /\ SaidKept /\ mem'.run = mem.run
        /\ mem'.turn.then = mem.turn.then /\ Keeps
        /\ \/ Failed /\ pc' \in {"note", "fail", "appendResults"}
           \/ ~Failed /\ pc' \in {"note", "cycle", "appendResults"}
        /\ RecordKept \/ (Unanswered(mem.held.messages) # {} /\ Writes("tools"))
    BY <1>5, SettleCallsDoes, HistoryKeepsDue
  <2>2. BatchDue'
    BY <2>1, NoBatch DEF Executing
  <2>3. CASE ~Failed
    BY <2>1, <2>2, <2>3, NotDue DEF Keeps, DueInv, NotPassed
  <2>4. CASE Failed
    <3>1. Unanswered(mem.held.messages) # {} => Open
      BY <2>1, <2>4 DEF ConversationInv, KnownCallsInv, Open
    <3>2. Due' => Stands'
      BY <2>1, <3>1, StageStands DEF WorkStages
    <3> QED
      BY <2>1, <2>2, <2>4, <3>2
      DEF DueInv, Inherited, Asks, NotPassed, Failed, TurnOpening, TurnClosing, Executing
  <2> QED
    BY <2>3, <2>4
<1>6. CASE AppendResults
  <2>1. /\ pc = "appendResults" /\ mem'.run = mem.run /\ store'.queue = store.queue
        /\ mem'.turn.then = mem.turn.then /\ Keeps
        /\ pc' \in {"note", "cycle", "fail"} /\ (Failed => pc' # "cycle")
        /\ \/ store' = store
           \/ /\ Writes("inference")
              /\ \E c \in mem.turn.batch : store'.records = Append(store.records, Result(c))
    BY <1>6, ResultsDo, HistoryKeepsDue
  <2>2. BatchDue'
    BY <2>1, NoBatch DEF Executing
  <2>3. Due => Failed
    BY <2>1 DEF DueInv, NotPassed
  <2>4. Due' => Stands'
    <3>1. CASE store' = store
      BY <2>1, <3>1, StillStands
    <3>2. CASE /\ Writes("inference")
               /\ \E c \in mem.turn.batch : store'.records = Append(store.records, Result(c))
      <4>1. mem.turn.batch \subseteq Calls
        BY MemFields DEF TypeOK
      <4>2. store'.records # <<>> /\ ~SpokeLast'
        BY <3>2, <4>1, OthersSpoke, RecordTypes DEF Result
      <4>3. LateWork'
        BY <3>2, RecordedOwesWork DEF Writes, OwedInv, LateWork, WorkStages
      <4> QED
        BY <2>1, <4>2, <4>3 DEF Keeps, DueInv, Stands
    <3> QED
      BY <2>1, <3>1, <3>2
  <2> QED
    BY <2>1, <2>2, <2>3, <2>4
    DEF Keeps, DueInv, Inherited, Asks, NotPassed, Failed, TurnOpening, TurnClosing, Executing
<1> QED
  BY <1>1, <1>2, <1>3, <1>4, <1>5, <1>6 DEF ResponseStep

(* A batch is executed for work inherited, or ends in results that are due. *)
LEMMA ToolDue ==
  ASSUME TypeOK, OwedInv, CacheInv, ConversationInv, CompleteInv, DueInv, ToolStep
  PROVE  DueInv'
<1>1. CASE Dispatch
  <2>1. /\ pc = "dispatch" /\ pc' = "execute" /\ SaidKept
        /\ mem'.held = mem.held /\ mem'.run = mem.run /\ mem'.turn = mem.turn /\ ClaimsKept
    BY <1>1, DispatchDoes
  <2>2. mem.turn.batch # {} /\ Open
    BY <2>1 DEF DueInv, BatchDue, ConversationInv, OpenCallsInv, Batching, Open
  <2>3. CASE Writes("tools") /\ HistoryKept
    <3>1. LateWork' /\ mem'.owed.pending.stage \in WorkStages
      BY <2>3, RecordedOwesWork DEF Writes, OwedInv, LateWork, WorkStages
    <3>2. BatchDue'
      BY <2>1, <2>2, <3>1 DEF BatchDue
    <3>3. Keeps
      BY <2>3, HistoryKeepsDue
    <3>4. Due' => Stands'
      BY <2>1, <2>2, <2>3, <3>3, StageStands DEF WorkStages
    <3>5. Inherits => Inherits'
      BY <2>1, <3>1 DEF Inherits, ClaimsKept
    <3> QED
      BY <2>1, <3>2, <3>3, <3>4, <3>5
      DEF Keeps, DueInv, Inherited, Asks, NotPassed, TurnOpening, TurnClosing, Executing
  <2>4. CASE /\ RecordKept /\ log'.answerDue = log.answerDue
             /\ log'.unnamed = (log.unnamed \/ ~LateWork)
    <3>1. LateWork' <=> LateWork
      BY <2>4 DEF RecordKept, LateWork
    <3>2. BatchDue'
      BY <2>1, <2>2, <2>4, <3>1 DEF BatchDue
    <3>3. Keeps
      BY <2>4 DEF Keeps, Due
    <3>4. Due' => Stands'
      BY <2>1, <2>4, <3>3, StageStands
    <3>5. Inherits => Inherits'
      BY <2>1, <2>4 DEF Inherits, ClaimsKept, RecordKept
    <3> QED
      BY <2>1, <3>2, <3>3, <3>4, <3>5
      DEF Keeps, DueInv, Inherited, Asks, NotPassed, TurnOpening, TurnClosing, Executing
  <2> QED
    BY <1>1, <2>3, <2>4, DispatchDoes
<1>2. CASE Execute \/ ToolCommitsEarly \/ ToolSettles \/ ToolReloads
  <2>1. /\ SaidKept /\ store'.owed = store.owed /\ HistoryKept
        /\ mem'.held = mem.held /\ mem'.run = mem.run /\ mem'.owed = mem.owed
        /\ mem'.turn.batch = mem.turn.batch
        /\ pc \in {"execute", "running"}
        /\ \/ pc' \in {"running", "commit"}
           \/ mem.run.draining /\ pc' = "finally"
           \/ pc' = BatchCutShort
    BY <1>2, RunningDoes
  <2>2. Keeps /\ log'.unnamed = log.unnamed
    BY <2>1, HistoryKeepsDue
  <2>3. mem.turn.batch # {} /\ Open
    BY <2>1 DEF DueInv, BatchDue, Executing, ConversationInv, OpenCallsInv, Batching, Open
  <2>4. RecordKept
    BY <2>1 DEF RecordKept
  <2>5. Due' => Stands'
    BY <2>1, <2>2, <2>4, StageStands
  <2>6. Due => Inherits
    BY <2>1 DEF DueInv, Inherited, Executing
  <2>7. Inherits => Inherits'
    BY <2>1 DEF Inherits
  <2>8. CASE pc' \in {"running", "commit"}
    <3>1. BatchDue'
      BY <2>1, <2>2, <2>8 DEF DueInv, BatchDue, Executing, LateWork
    <3> QED
      BY <2>2, <2>5, <2>6, <2>7, <2>8, <3>1
      DEF Keeps, DueInv, Inherited, Asks, NotPassed, TurnOpening, TurnClosing, Executing
  <2>9. CASE mem.run.draining /\ pc' = "finally"
    BY <2>1, <2>5, <2>9, DrainLeaves DEF DueInv
  <2>10. CASE pc' = BatchCutShort
    <3>1. BatchDue'
      BY <2>10, NoBatch DEF BatchCutShort, Executing
    <3>2. CASE ~Due
      BY <2>2, <3>1, <3>2, NotDue DEF Keeps
    <3>3. CASE Due
      <4>1. pc' = "turnDone"
        BY <2>6, <2>10, <3>3 DEF Inherits, BatchCutShort
      <4>2. mem.held.loaded /\ mem.held.messages = store.records
        BY <2>1 DEF CompleteInv, LoadedInv, LoadedAt, ConversationInv, LiveContextMatchesStore,
                    Batching
      <4>3. Open' /\ mem'.held.loaded /\ Unanswered(mem'.held.messages) # {}
        BY <2>1, <2>3, <4>2 DEF Open, SaidKept
      <4> QED
        BY <2>5, <2>6, <2>7, <3>1, <3>3, <4>1, <4>3
        DEF DueInv, Inherited, Asks, NotPassed, TurnOpening, TurnClosing, Executing
    <3> QED
      BY <3>2, <3>3
  <2> QED
    BY <2>1, <2>8, <2>9, <2>10
<1>3. CASE CommitResult
  <2>1. /\ pc = "commit" /\ pc' = "answered" /\ RecordKept /\ mem'.run = mem.run
        /\ mem'.turn = mem.turn
        /\ \E c \in mem.turn.batch : store'.records = Append(store.records, Result(c))
        /\ log'.answerDue = (~mem.run.aborted /\ ~mem.turn.stopped)
        /\ log'.unnamed = log.unnamed
    BY <1>3, CommitDoes
  <2>2. mem.turn.batch \subseteq Calls
    BY MemFields DEF TypeOK
  <2>3. store'.records # <<>> /\ ~SpokeLast' /\ LastType(store'.records) = "result"
    BY <2>1, <2>2, OthersSpoke, RecordTypes DEF Result
  <2>4. BatchDue'
    BY <2>1, NoBatch DEF Executing
  <2>5. Due' => ~mem.run.aborted /\ ~mem.turn.stopped /\ LateWork'
    BY <2>1 DEF Due, DueInv, BatchDue, Executing, RecordKept, LateWork
  <2>6. Due' => Stands'
    BY <2>1, <2>3, <2>5 DEF Stands
  <2> QED
    BY <2>1, <2>3, <2>4, <2>5, <2>6
    DEF DueInv, Inherited, Asks, NotPassed, TurnOpening, TurnClosing, Executing
<1>4. CASE EndBatch
  <2>1. /\ pc = "answered" /\ SaidKept /\ Writes("inference") /\ HistoryKept
        /\ mem'.run = mem.run /\ mem'.turn.needs = TRUE
        /\ pc' = IF mem.run.draining THEN "finally"
                 ELSE IF mem.turn.stopped THEN BatchCutShort
                 ELSE IF mem.owed.recoveryChecked THEN "cycle" ELSE "recover"
    BY <1>4, EndBatchDoes
  <2>2. Keeps
    BY <2>1, HistoryKeepsDue
  <2>3. BatchDue'
    BY <2>1, NoBatch DEF BatchCutShort, Executing
  <2>4. Due => ~mem.turn.stopped /\ ~SpokeLast
    BY <2>1 DEF DueInv, Asks, SpokeLast, EndsWithResponse
  <2>5. Due' => Stands'
    BY <2>1, <2>2, <2>4, StageStands DEF WorkStages
  <2>6. CASE mem.run.draining
    BY <2>1, <2>5, <2>6, DrainLeaves DEF DueInv
  <2>7. CASE ~mem.run.draining /\ ~mem.turn.stopped
    BY <2>1, <2>3, <2>5, <2>7
    DEF DueInv, Inherited, Asks, NotPassed, TurnOpening, TurnClosing, Executing
  <2>8. CASE mem.turn.stopped
    BY <2>2, <2>3, <2>4, <2>8, NotDue DEF Keeps
  <2> QED
    BY <2>6, <2>7, <2>8
<1> QED
  BY <1>1, <1>2, <1>3, <1>4 DEF ToolStep

(* The end of a turn, a loop or a run leaves what is inherited to the next. *)
LEMMA ClosingDue ==
  ASSUME TypeOK, OwedInv, CacheInv, DueInv, ClosingStep
  PROVE  DueInv'
<1>0. mem \in MemType
  BY DEF TypeOK
<1>n. pc' \notin Executing \cup {"dispatch"}
  BY DEF ClosingStep, AppendFailure, NothingToNote, FailTurn, LeaveRun, CloseTurn, NextTurn,
         BeginTurn, CloseLoop, NextLoop, EnterSettlement, Settle, Finally, EnterStage, Executing
<1>b. BatchDue'
  BY <1>n, NoBatch
<1>c. pc \in TurnClosing /\ Due => /\ Inherits /\ Open /\ Finds /\ mem.held.loaded
                                   /\ Unanswered(mem.held.messages) # {}
  BY DEF DueInv, Inherited, Finds
<1>1. CASE AppendFailure
  <2>1. /\ pc = "note" /\ store'.queue = store.queue /\ RecordKept
        /\ mem'.run = mem.run /\ mem'.turn = mem.turn /\ Keeps
        /\ pc' = IF Failed THEN "fail" ELSE "turnDone"
        /\ store' = store \/ store'.records = Append(store.records, System)
    BY <1>1, NoteDoes, HistoryKeepsDue
  <2>2. Due => Failed
    BY <2>1 DEF DueInv, NotPassed
  <2>3. Due' => Stands'
    <3>1. CASE store' = store
      BY <2>1, <3>1, StillStands
    <3>2. CASE store'.records = Append(store.records, System)
      <4>1. store'.records # <<>> /\ ~SpokeLast'
        BY <3>2, OthersSpoke, RecordTypes DEF System
      <4> QED
        BY <2>1, <4>1 DEF Keeps, DueInv, Stands, RecordKept, LateWork
    <3> QED
      BY <2>1, <3>1, <3>2
  <2> QED
    BY <1>b, <2>1, <2>2, <2>3
    DEF Keeps, DueInv, Inherited, Asks, NotPassed, Failed, TurnOpening, TurnClosing, Executing
<1>2. CASE NothingToNote
  <2>1. pc = "note" /\ UNCHANGED log /\ ~Failed
    BY <1>2 DEF NothingToNote, NotesFailure, Failed
  <2> QED
    BY <1>b, <2>1, HistoryKeepsDue, NotDue DEF Keeps, DueInv, NotPassed
<1>3. CASE FailTurn
  BY <1>3, <1>b, FailTurnDoes, NotDue DEF Due
<1>4. CASE LeaveRun
  <2>1. /\ pc = "turnDone" /\ UNCHANGED <<store, mem, log>> /\ pc' = "finally"
    BY <1>4 DEF LeaveRun
  <2>2. Keeps /\ (Due' => Stands')
    BY <2>1, HistoryKeepsDue, StillStands
  <2>3. Due => Inherits /\ Open
    BY <1>c, <2>1 DEF TurnClosing
  <2>4. (Inherits' <=> Inherits) /\ (Open => Finds')
    BY <2>1 DEF Inherits, Finds, Open
  <2> QED
    BY <1>b, <2>1, <2>2, <2>3, <2>4
    DEF Keeps, DueInv, Inherited, Asks, NotPassed, TurnOpening, TurnClosing, Executing
<1>5. CASE CloseTurn \/ CloseLoop
  <2>1. PICK from, to :
          /\ EnterStage(from, "inference", to)
          /\ <<from, to>> \in {<<"turnDone", "turnClosed">>, <<"closeLoop", "loopClosed">>}
    BY <1>5 DEF CloseTurn, CloseLoop
  <2>2. /\ pc = from /\ pc' = to /\ Carries /\ Keeps
        /\ mem'.held = mem.held /\ mem'.run = mem.run /\ mem'.turn = mem.turn
        /\ RecordKept \/ Writes("inference")
    BY <2>1, StageCarries
  <2>3. pc \in TurnClosing /\ pc' \in {"turnClosed", "loopClosed"}
    BY <2>1, <2>2 DEF TurnClosing
  <2>4. Due' => Stands'
    BY <1>c, <2>2, <2>3, StageStands DEF Carries, WorkStages
  <2>5. Due' => /\ Inherits' /\ Open' /\ mem'.held.loaded
                /\ Unanswered(mem'.held.messages) # {}
    BY <1>c, <2>2, <2>3, CarriesOn DEF Keeps
  <2> QED
    BY <1>b, <2>3, <2>4, <2>5
    DEF DueInv, Inherited, Asks, NotPassed, TurnOpening, TurnClosing, Executing
<1>6. CASE NextTurn \/ NextLoop
  <2>1. /\ store' = store /\ pc \in {"turnClosed", "loopClosed"}
        /\ \/ UNCHANGED <<mem, log>> /\ pc' = "finally" /\ mem.run.draining
           \/ UNCHANGED <<mem, log>> /\ pc' = "closeLoop"
           \/ UNCHANGED <<mem, log>> /\ pc' = "finally" /\ HasOpenToolCalls
           \/ UNCHANGED <<mem, log>> /\ pc' = "enterSettlement" /\ ~HasOpenToolCalls
           \/ log' = log /\ pc' = "loopStage" /\ mem' = OpenScope(mem)
           \/ BeginTurn(OpenScope(mem))
    BY <1>6 DEF NextTurn, NextLoop
  <2>2. pc \in TurnClosing
    BY <2>1 DEF TurnClosing
  <2>3. CASE BeginTurn(OpenScope(mem))
    BY <1>0, <1>c, <2>1, <2>2, <2>3, OpenScopeDoes, BeginTurnDue
  <2>4. CASE log' = log
    <3>1. Keeps
      BY <2>4, HistoryKeepsDue
    <3>2. CASE UNCHANGED mem
      <4>1. Due' => Stands'
        BY <2>1, <3>1, <3>2, StillStands
      <4>2. (Inherits' <=> Inherits) /\ (Open' <=> Open) /\ (Open => Finds')
        BY <2>1, <3>2 DEF Inherits, Finds, Open
      <4>3. pc' # "enterSettlement" \/ ~Due
        BY <1>c, <2>1, <2>2, <3>2 DEF HasOpenToolCalls, BeginTurn
      <4>4. pc' \in {"finally", "closeLoop", "enterSettlement", "loopStage", "load"}
        BY <2>1 DEF BeginTurn
      <4> QED
        BY <1>b, <1>c, <2>1, <2>2, <2>3, <3>1, <3>2, <4>1, <4>2, <4>3
        DEF Keeps, DueInv, Inherited, Asks, NotPassed, TurnOpening, TurnClosing, Executing
    <3>3. CASE pc' = "loopStage" /\ mem' = OpenScope(mem)
      <4>1. /\ mem'.owed = mem.owed /\ mem'.run.aborted = FALSE
            /\ mem'.run.abortDropped = mem.run.abortDropped
        BY <1>0, <3>3, OpenScopeDoes
      <4>2. Due' => Stands'
        BY <2>1, <3>1, <4>1, StillStands
      <4>3. (Inherits' <=> Inherits) /\ (Open => Finds')
        BY <2>1, <4>1 DEF Inherits, Finds, Open
      <4>4. Due' => Inherited' /\ Asks' /\ NotPassed'
        BY <1>c, <2>2, <3>1, <3>3, <4>3, StillOpening DEF Keeps, TurnOpening
      <4> QED
        BY <1>b, <4>2, <4>4 DEF DueInv
    <3> QED
      BY <2>1, <2>3, <3>2, <3>3
  <2> QED
    BY <2>1, <2>3, <2>4
<1>7. CASE EnterSettlement \/ Settle
  <2>1. pc \in {"enterSettlement", "settle"} /\ (HistoryKept \/ Fails)
    BY <1>7, SettlingDoes, SettleDoes
  <2> QED
    BY <1>b, <2>1, HistoryKeepsDue, NotDue DEF Keeps, DueInv, NotPassed
<1>8. CASE Finally
  <2>1. /\ pc = "finally" /\ store' = store /\ HistoryKept
        /\ mem'.owed = mem.owed /\ mem'.run.aborted = mem.run.aborted
        /\ mem'.run.draining = mem.run.draining
        /\ \/ /\ pc' = "begin" /\ mem'.run.abortDropped = FALSE
              /\ mem'.run.settleOnly => RecordOutlivesAbort
           \/ pc' = "idle" /\ mem'.run.abortDropped = mem.run.abortDropped
    BY <1>8, FinallyDoes
  <2>2. Keeps /\ (Due' => Stands')
    BY <2>1, HistoryKeepsDue, StillStands
  <2>3. Due => LeftBehind \/ (Inherits /\ Finds)
    BY <2>1 DEF DueInv, Inherited
  <2>4. (Inherits => Inherits') /\ (Finds => Finds')
    BY <2>1 DEF Inherits, Finds, SpokeLast, Open, Seen
  <2>5. CASE pc' = "idle"
    <3>1. LeftBehind => LeftBehind'
      BY <2>1, <2>5 DEF LeftBehind
    <3> QED
      BY <1>b, <2>2, <2>3, <2>4, <2>5, <3>1
      DEF Keeps, DueInv, Inherited, Asks, NotPassed, TurnOpening, TurnClosing, Executing
  <2>6. CASE pc' = "begin"
    <3>1. ~mem.run.draining
      BY <1>8, <2>6 DEF Finally
    <3>2. Due' => Inherits' /\ Finds' /\ ~mem'.run.settleOnly
      BY <2>1, <2>2, <2>3, <2>4, <2>6, <3>1
      DEF Keeps, LeftBehind, RecordOutlivesAbort, Inherits
    <3> QED
      BY <1>b, <2>2, <2>6, <3>2, StillOpening DEF DueInv, TurnOpening
  <2> QED
    BY <2>1, <2>5, <2>6
<1> QED
  BY <1>1, <1>2, <1>3, <1>4, <1>5, <1>6, <1>7, <1>8 DEF ClosingStep

LEMMA DueStep ==
  ASSUME TypeOK, OwedInv, CacheInv, ConversationInv, CompleteInv, DueInv, [Next]_vars
  PROVE  DueInv'
<1>1. CASE Callers \/ Publishing \/ Crash \/ Start
  BY <1>1, CallersDue
<1>2. CASE OpeningStep \/ LoadStep
  BY <1>2, OpeningDue
<1>3. CASE CycleStep
  BY <1>3, CycleDue
<1>4. CASE ResponseStep
  BY <1>4, ResponseDue
<1>5. CASE ToolStep
  BY <1>5, ToolDue
<1>6. CASE ClosingStep
  BY <1>6, ClosingDue
<1>7. CASE UNCHANGED vars
  <2>1. Stays
    BY <1>7 DEF vars, Stays, HistoryKept, DueKept
  <2> QED
    BY <2>1, StayingDue
<1> QED
  BY <1>1, <1>2, <1>3, <1>4, <1>5, <1>6, <1>7 DEF Next, RunStep, Rest

(* Both parts together are preserved, over the invariants proved before.    *)
LEMMA DueInductive == Spec => [](CacheInv /\ DueInv)
<1>1. Init => CacheInv /\ DueInv
  BY DEF Init, Fresh, CacheInv, DueInv, BatchDue, Due, Executing
<1>2. TypeOK /\ OwedInv /\ ConversationInv /\ CompleteInv /\ CacheInv /\ DueInv /\ [Next]_vars
        => CacheInv' /\ DueInv'
  BY CacheStep, DueStep
<1> QED
  BY <1>1, <1>2, TypeCorrect, OwedInductive, ConversationWhole, CompleteInductive, PTL DEF Spec

(* THEOREM: input or results a response is due for keep the record standing *)
(* until a response, an abort or a failed turn answers them: so a crash at  *)
(* any point in between leaves the next owner a record to resume            *)
(* (#claimPendingWork, #resumesInterruptedRun, #runInferenceAttempt).       *)
THEOREM AnswerIsOwed == Spec => []AnswerDueIsOwed
<1>1. DueInv => AnswerDueIsOwed
  BY DEF DueInv, Due, Stands, LateWork, AnswerDueIsOwed
<1> QED
  BY <1>1, DueInductive, PTL

(* THEOREM: and what stands is enough.  Whenever a response is due, an owner*)
(* that loads the store as it is will answer: the record owes a turn, and   *)
(* the conversation ends with input, or was cut off in a request that the   *)
(* record names, or has a call open or a message queued (#loadPendingState, *)
(* #resumesInterruptedRun, #runInferenceAttempt).                           *)
THEOREM AnswerIsFound == Spec => [](Due => Stands)
<1>1. DueInv => (Due => Stands)
  BY DEF DueInv
<1> QED
  BY <1>1, DueInductive, PTL

-----------------------------------------------------------------------------
(* KeepsItsPromise                                                          *)

(* Input is dropped by an abort, a load or a turn that fails, and taken up  *)
(* again by a turn over a record that owes one.                             *)
LEMMA DroppedSteps ==
  ASSUME TypeOK, [Next]_vars
  PROVE  \/ log'.dropped = log.dropped
         \/ /\ Abort \/ LoadFails \/ FailTurn
            /\ log'.dropped = log.dropped \cup mem.held.waiting
         \/ /\ OpenTurn \/ NextTurn
            /\ LateWork /\ log'.dropped = {} /\ DueKept /\ log'.ran = log.ran /\ store' = store
<1> USE DEF TypeOK, LogType
<1>1. CASE UNCHANGED log
  BY <1>1
<1>2. CASE Callers \/ Publishing \/ Crash
  BY <1>2 DEF Callers, Offer, Abort, Drain, Close, Abandoning, Publishing, Publish, MarkCommitted,
     ActivateCommitted, Crash
<1>o. ASSUME NEW m, BeginTurn(m), OpenTurn \/ NextTurn
      PROVE  \/ log'.dropped = log.dropped
             \/ LateWork /\ log'.dropped = {} /\ DueKept /\ log'.ran = log.ran /\ store' = store
  BY <1>o DEF BeginTurn, DueKept, OpenTurn, NextTurn
<1>3. CASE OpeningStep
  <2>1. CASE OpenTurn /\ BeginTurn(mem)
    BY <2>1, <1>o
  <2> QED
    BY <1>1, <1>3, <2>1 DEF OpeningStep, BeginRun, SettleLoaded, LoopStage, OpenTurn, EnterStage,
       Failing
<1>4. CASE LoadStep
  BY <1>4 DEF LoadStep, ReadHistory, AssignHistory, LoadFails, TurnStage, EnterStage, Failing,
     Abandoning
<1>5. CASE CycleStep
  BY <1>5 DEF CycleStep, BeginInference, Recover, StopCycle, RefreshCommittedQueues, ConsumeQueue,
     NothingQueued, LeaveRequest, RequestInference, OpenStream, Failing
<1>6. CASE ResponseStep
  BY <1>6 DEF ResponseStep, StreamBlock, StreamThrows, TurnThrows, StreamEnds, EndInference,
     SettleCalls, AppendResults, Failing
<1>7. CASE ToolStep
  <2>1. CASE Execute
    BY <2>1, Zenon DEF Execute
  <2>2. CASE ToolStep /\ ~Execute
    BY <2>2 DEF ToolStep, Dispatch, ToolCommitsEarly, ToolSettles, ToolReloads, CommitResult,
       EndBatch, Failing
  <2> QED
    BY <1>7, <2>1, <2>2
<1>8. CASE ClosingStep
  <2>1. CASE NextTurn /\ BeginTurn(OpenScope(mem))
    BY <2>1, <1>o
  <2> QED
    BY <1>1, <1>8, <2>1 DEF ClosingStep, AppendFailure, NothingToNote, FailTurn, LeaveRun,
       CloseTurn, NextTurn, CloseLoop, NextLoop, EnterSettlement, Settle, Finally, EnterStage,
       Failing, Abandoning
<1> QED
  BY <1>1, <1>2, <1>3, <1>4, <1>5, <1>6, <1>7, <1>8 DEF Next, RunStep, Start, Rest, vars

(* The durable batch changes where calls are staged, dispatched, committed  *)
(* and answered.                                                            *)
LEMMA ToolsSteps ==
  ASSUME TypeOK, [Next]_vars
  PROVE  \/ store'.tools = store.tools
         \/ SettleCalls \/ AppendResults \/ Dispatch \/ ToolCommitsEarly \/ CommitResult
<1> USE DEF TypeOK, StoreType
<1>1. CASE UNCHANGED store
  BY <1>1
<1>2. CASE LoopStage \/ TurnStage \/ CloseTurn \/ CloseLoop
  BY <1>2 DEF LoopStage, TurnStage, CloseTurn, CloseLoop, EnterStage
<1>3. CASE RequestInference \/ StreamBlock \/ EndInference \/ EndBatch \/ AppendFailure
           \/ EnterSettlement \/ Settle
  BY <1>3 DEF RequestInference, StreamBlock, EndInference, EndBatch, AppendFailure,
     EnterSettlement, Settle
<1>4. CASE \E k \in Kinds : ConsumeQueue(k)
  BY <1>4 DEF ConsumeQueue
<1>5. CASE \E m \in Msgs, k \in Kinds, via \in {"own", "outer"} : Offer(m, k, via)
  BY <1>5 DEF Offer
<1> QED
  BY <1>1, <1>2, <1>3, <1>4, <1>5
  DEF Next, vars, Callers, Abort, Drain, Close, Publishing, Publish, MarkCommitted,
      ActivateCommitted, Crash, Start, RunStep, OpeningStep, BeginRun, SettleLoaded, OpenTurn,
      LoadStep, ReadHistory, AssignHistory, LoadFails, CycleStep, BeginInference, Recover,
      StopCycle, RefreshCommittedQueues, NothingQueued, LeaveRequest, OpenStream, ResponseStep,
      StreamThrows, TurnThrows, StreamEnds, ToolStep, Execute, ToolSettles, ToolReloads,
      ClosingStep, NothingToNote, FailTurn, LeaveRun, NextTurn, NextLoop, Finally, Rest

(* What the instance holds comes from the queue it read, or from an offer   *)
(* that it published.                                                       *)
Gathers ==
    /\ mem'.held.waiting \subseteq mem.held.waiting \cup mem.held.snapshot \cup store.queue
                                     \cup {p.entry : p \in mem.held.publishing}
    /\ mem'.held.snapshot \subseteq mem.held.snapshot \cup store.queue
    /\ \A q \in mem'.held.publishing : \E p \in mem.held.publishing : q.entry = p.entry

(* In particular a step that leaves alone what is held.                     *)
LEMMA HoldingGathers ==
  ASSUME mem'.held = mem.held
  PROVE  Gathers
BY DEF Gathers

(* Every step but an offer gathers.                                         *)
LEMMA GatherSteps ==
  ASSUME TypeOK, [Next]_vars
  PROVE  Gathers \/ \E m \in Msgs, k \in Kinds, via \in {"own", "outer"} : Offer(m, k, via)
<1> USE DEF TypeOK, MemType
<1>1. CASE UNCHANGED mem
  BY <1>1, HoldingGathers
<1>2. CASE Abort \/ Drain \/ Close
  <2>1. CASE Abort
    <3>1. /\ mem'.held.waiting = mem.held.waiting /\ mem'.held.snapshot = mem.held.snapshot
          /\ mem'.held.publishing = mem.held.publishing
      BY <2>1 DEF Abort, HeldType
    <3> QED
      BY <3>1 DEF Gathers
  <2>2. CASE Drain \/ Close
    BY <2>2, StopDoes, HoldingGathers
  <2> QED
    BY <1>2, <2>1, <2>2
<1>3. CASE Publish
  <2>1. PICK p \in mem.held.publishing :
           mem' = Opening([mem EXCEPT !.held.waiting = @ \cup {p.entry},
                                      !.run.turnRequested = TRUE, !.held.publishing = {}])
    BY <1>3 DEF Publish
  <2>2. /\ mem'.held.waiting = mem.held.waiting \cup {p.entry}
        /\ mem'.held.snapshot = mem.held.snapshot /\ mem'.held.publishing = {}
    BY <2>1 DEF Opening, NewRun, HeldType
  <2> QED
    BY <2>2 DEF Gathers
<1>4. CASE MarkCommitted
  <2>1. PICK p \in mem.held.publishing :
           mem' = [mem EXCEPT !.held.dirty = TRUE,
                              !.held.publishing = {[p EXCEPT !.via = "marked"]}]
    BY <1>4 DEF MarkCommitted
  <2>2. /\ mem'.held.waiting = mem.held.waiting
        /\ mem'.held.snapshot = mem.held.snapshot
        /\ mem'.held.publishing = {[p EXCEPT !.via = "marked"]}
    BY <2>1 DEF HeldType
  <2>3. p \in Publication
    BY DEF HeldType
  <2>4. [p EXCEPT !.via = "marked"].entry = p.entry
    BY <2>3 DEF Publication
  <2> QED
    BY <2>2, <2>4 DEF Gathers
<1>5. CASE ActivateCommitted
  <2>1. PICK q, r :
           mem' = Opening([mem EXCEPT !.owed.pending = q, !.owed.requestOpen = r,
                                      !.run.turnRequested = TRUE, !.held.publishing = {}])
    BY <1>5 DEF ActivateCommitted
  <2>2. /\ mem'.held.waiting = mem.held.waiting
        /\ mem'.held.snapshot = mem.held.snapshot /\ mem'.held.publishing = {}
    BY <2>1 DEF Opening, NewRun, HeldType
  <2> QED
    BY <2>2 DEF Gathers
<1>6. CASE Crash \/ Start
  <2>1. CASE Crash
    BY <2>1 DEF Crash, Fresh, Gathers
  <2>2. CASE Start
    BY <2>2, HoldingGathers DEF Start, Opening, NewRun
  <2> QED
    BY <1>6, <2>1, <2>2
<1>7. CASE \E from, stage, to : EnterStage(from, stage, to)
  BY <1>7, EnterStageDoes, HoldingGathers
<1>o. ASSUME NEW m \in MemType, m.held = mem.held, BeginTurn(m)
      PROVE  Gathers
  BY <1>o DEF BeginTurn, Gathers, HeldType
<1>s. OpenScope(mem) \in MemType /\ OpenScope(mem).held = mem.held
  BY OpenScopeDoes
<1>8. CASE OpenTurn \/ NextTurn
  <2>1. CASE BeginTurn(mem) \/ BeginTurn(OpenScope(mem))
    BY <2>1, <1>o, <1>s
  <2> QED
    BY <1>1, <1>8, <2>1 DEF OpenTurn, NextTurn
<1>9. CASE BeginRun \/ SettleLoaded \/ NextLoop
  <2>1. mem' = mem \/ mem' = OpenScope(mem) \/ mem' = [mem EXCEPT !.turn.then = "settle"]
    BY <1>9 DEF BeginRun, SettleLoaded, NextLoop
  <2> QED
    BY <2>1, <1>s, HoldingGathers
<1>10. CASE ReadHistory \/ LoadFails
  <2>1. \/ mem'.held = [mem.held EXCEPT !.snapshot = store.queue]
        \/ mem'.held = [mem.held EXCEPT !.snapshot = {}]
        \/ mem'.held = [mem.held EXCEPT !.snapshot = {},
                                        !.abandoned = @ \cup mem.held.waiting]
    BY <1>10 DEF ReadHistory, LoadFails
  <2> QED
    BY <2>1 DEF Gathers, HeldType
<1>11. CASE AssignHistory
  <2>1. mem'.held.waiting = mem.held.snapshot /\ mem'.held.snapshot = {}
        /\ mem'.held.publishing = mem.held.publishing
    BY <1>11 DEF AssignHistory, HeldType
  <2> QED
    BY <2>1 DEF Gathers
<1>12. CASE RefreshCommittedQueues
  BY <1>12 DEF RefreshCommittedQueues, Gathers, HeldType
<1>13. CASE \E k \in Kinds : ConsumeQueue(k)
  <2>1. PICK k \in Kinds : ConsumeQueue(k)
    BY <1>13
  <2>2. PICK e \in Oldest(Consumable(k)) :
           mem' = [mem EXCEPT
               !.held.waiting = @ \ {e},
               !.held.messages = Append(@, User(e.msg)),
               !.owed.pending = Owing("inference"),
               !.run.turnRequested = StillRequested(mem.held.waiting \ {e})]
    BY <2>1 DEF ConsumeQueue
  <2> QED
    BY <2>2 DEF Gathers, HeldType
<1>m. ASSUME NEW s, mem'.held = [mem.held EXCEPT !.messages = s]
      PROVE  Gathers
  <2>1. /\ mem'.held.waiting = mem.held.waiting /\ mem'.held.snapshot = mem.held.snapshot
        /\ mem'.held.publishing = mem.held.publishing
    BY <1>m DEF HeldType
  <2> QED
    BY <2>1 DEF Gathers
<1>14. CASE RequestInference \/ EndInference \/ AppendResults \/ CommitResult \/ AppendFailure
  <2>1. CASE RequestInference
    <3> DEFINE notice == IF EndsWithResponse(mem.held.messages) THEN <<System>> ELSE <<>>
               heard == mem.held.messages \o notice
    <3>1. \/ mem' = [mem EXCEPT
                 !.owed.requestOpen = TRUE, !.owed.pending = Requesting,
                 !.held.messages = heard, !.turn.partial = <<>>]
          \/ mem' = [mem EXCEPT !.owed.requestOpen = TRUE, !.turn.partial = <<>>]
      BY <2>1 DEF RequestInference
    <3> HIDE DEF heard
    <3>2. mem'.held = [mem.held EXCEPT !.messages = heard] \/ mem'.held = mem.held
      BY <3>1
    <3> QED
      BY <3>2, <1>m, HoldingGathers
  <2>2. CASE EndInference
    <3> DEFINE calls == {c \in Calls : Occurs(Call(c), mem.turn.partial)}
               ended == [mem EXCEPT
                   !.held.messages = Said, !.turn.partial = <<>>,
                   !.turn.needs = FALSE,
                   !.turn.batch = calls, !.turn.resumed = FALSE, !.turn.then = "response"]
    <3>1. mem' = ended \/ mem' = [ended EXCEPT !.owed.pending = Owing("inference")]
      BY <2>2 DEF EndInference
    <3> HIDE DEF calls
    <3>2. mem'.held = [mem.held EXCEPT !.messages = Said]
      BY <3>1
    <3> QED
      BY <3>2, <1>m
  <2>3. CASE AppendResults \/ CommitResult \/ AppendFailure
    <3>1. \/ mem' = mem \/ mem' = [mem EXCEPT !.turn.blocked = TRUE]
          \/ \E s : mem' = [mem EXCEPT !.held.messages = s]
          \/ \E s, o : mem' = [mem EXCEPT !.held.messages = s, !.owed.pending = o]
      <4>1. CASE AppendResults
        BY <4>1, Zenon DEF AppendResults
      <4>2. CASE CommitResult
        BY <4>2, Zenon DEF CommitResult
      <4>3. CASE AppendFailure
        BY <4>3, Zenon DEF AppendFailure
      <4> QED
        BY <2>3, <4>1, <4>2, <4>3
    <3>2. ASSUME NEW s, mem' = [mem EXCEPT !.held.messages = s]
          PROVE  Gathers
      BY <3>2, <1>m
    <3>3. ASSUME NEW s, NEW o, mem' = [mem EXCEPT !.held.messages = s, !.owed.pending = o]
          PROVE  Gathers
      BY <3>3, <1>m
    <3> QED
      BY <3>1, <3>2, <3>3, HoldingGathers
  <2> QED
    BY <1>14, <2>1, <2>2, <2>3
<1>15. CASE BeginInference \/ Recover \/ StreamBlock \/ StreamThrows \/ TurnThrows
             \/ SettleCalls \/ Dispatch \/ ToolSettles \/ EndBatch \/ EnterSettlement \/ Settle
             \/ \E state \in Ending : StreamEnds(state)
  <2>1. mem'.held = mem.held
    BY <1>15 DEF BeginInference, Recover, StreamBlock, StreamThrows, TurnThrows, SettleCalls,
       Dispatch, ToolSettles, EndBatch, EnterSettlement, Settle, StreamEnds
  <2> QED
    BY <2>1, HoldingGathers
<1>16. CASE Execute \/ ToolCommitsEarly \/ ToolReloads \/ Finally
  BY <1>16, RunningDoes, FinallyDoes, HoldingGathers
<1>17. CASE FailTurn
  BY <1>17 DEF FailTurn, Gathers, HeldType
<1> QED
  BY <1>1, <1>2, <1>3, <1>4, <1>5, <1>6, <1>7, <1>8, <1>9, <1>10, <1>11, <1>12, <1>13, <1>14,
     <1>15, <1>16, <1>17
  DEF Next, vars, Callers, Publishing, RunStep, OpeningStep, LoopStage,
      LoadStep, TurnStage, CycleStep, StopCycle, NothingQueued, LeaveRequest, OpenStream,
      ResponseStep, ToolStep, ClosingStep, NothingToNote, LeaveRun, CloseTurn, CloseLoop, Rest

(* So all it ever held, dropped or not, has an identity that is claimed, and*)
(* an entry that is being offered is not among it.                          *)
KnownInv ==
    /\ \A e \in log.dropped \cup mem.held.waiting \cup mem.held.snapshot : e.msg \in store.ids
    /\ \A p \in mem.held.publishing : p.entry.msg \in store.ids

(* Every step keeps to that.                                                *)
LEMMA KnownStep ==
  ASSUME TypeOK, AcceptedInv, KnownInv, [Next]_vars
  PROVE  KnownInv'
<1>d. log'.dropped \subseteq log.dropped \cup mem.held.waiting
  BY DroppedSteps
<1>1. ASSUME Gathers, store.ids \subseteq store'.ids
      PROVE  KnownInv'
  <2>1. \A e \in store.queue : e.msg \in store'.ids
    BY <1>1 DEF AcceptedInv
  <2> QED
    BY <1>1, <1>d, <2>1 DEF KnownInv, Gathers
<1>2. ASSUME NEW m \in Msgs, NEW k \in Kinds, NEW via \in {"own", "outer"}, Offer(m, k, via)
      PROVE  KnownInv'
  <2>1. PICK e : /\ e.msg = m /\ store'.ids = store.ids \cup {m}
                 /\ \A q \in mem'.held.publishing : q.entry = e
    <3>1. PICK key \in QueueKey(k) :
            LET entry == [kind |-> k, key |-> key, msg |-> m]
            IN  /\ store' = [store EXCEPT
                       !.ids = @ \cup {m},
                       !.queue = @ \cup {entry},
                       !.owed = IF via = "own" THEN Recorded("inference")
                                ELSE [@ EXCEPT !.stage = "inference"]]
                /\ mem' = [mem EXCEPT
                       !.held.publishing = {[entry |-> entry, via |-> via]},
                       !.owed.pending = IF via = "own" THEN Owing("inference") ELSE @]
      BY <1>2, Zenon DEF Offer
    <3> DEFINE e == [kind |-> k, key |-> key, msg |-> m]
    <3>2. store'.ids = store.ids \cup {m}
      BY <3>1 DEF TypeOK, StoreType
    <3>3. mem'.held.publishing = {[entry |-> e, via |-> via]}
      BY <3>1 DEF TypeOK, MemType, HeldType
    <3>4. e.msg = m /\ \A q \in mem'.held.publishing : q.entry = e
      BY <3>3
    <3> QED
      BY <3>2, <3>4
  <2>2. mem'.held.waiting = mem.held.waiting /\ mem'.held.snapshot = mem.held.snapshot
    BY <1>2, OfferDoes DEF ViewKept
  <2> QED
    BY <1>d, <2>1, <2>2 DEF KnownInv
<1>3. CASE \E m \in Msgs, k \in Kinds, via \in {"own", "outer"} : Offer(m, k, via)
  BY <1>2, <1>3
<1>4. CASE store.ids \subseteq store'.ids
  BY <1>1, <1>3, <1>4, GatherSteps
<1>5. ASSUME NEW k \in Kinds, ConsumeQueue(k)
      PROVE  store'.ids = store.ids
  BY <1>5 DEF ConsumeQueue, TypeOK, StoreType
<1> QED
  BY <1>3, <1>4, <1>5, QueueSteps DEF QueueKept

(* What the promise speaks of, in the words of the invariants.              *)
LEMMA PromiseReads ==
  /\ Promise!Open = Unanswered(store.records)
  /\ \A r : Promise!WasSaid(r) <=> Occurs(r, store.records)
  /\ \A r : Promise!Says(r) <=> store'.records = Append(store.records, r)
  /\ \A m : Promise!User(m) = User(m)
  /\ \A c : Promise!Call(c) = Call(c) /\ Promise!Result(c) = Result(c)
  /\ Promise!Text = Text /\ Promise!System = System
  /\ Promise!MayOwe <=> Owes' \in {Owes, TRUE}
BY DEF Promise!Open, Promise!WasSaid, Promise!Says, Promise!User, Promise!Call, Promise!Result,
   Promise!Text, Promise!System, Promise!MayOwe, Unanswered, Occurs, User, Call, Result, Text,
   System

(* Parts of the promise that a step leaves alone.                           *)
InputKept == QueuedMsgs' = QueuedMsgs /\ DroppedMsgs' = DroppedMsgs
BatchKept == DecidedCalls' = DecidedCalls /\ log'.ran = log.ran
DebtKept == ExcusedCalls' = ExcusedCalls /\ (Due' <=> Due)

(* They are left alone with the fields that they are read from.             *)
LEMMA PartsKept ==
  /\ store'.queue = store.queue /\ log'.dropped = log.dropped => InputKept
  /\ store'.tools = store.tools => DecidedCalls' = DecidedCalls
  /\ DueKept => DebtKept
  /\ store'.owed = store.owed => (Owes' <=> Owes)
  /\ log'.excused = log.excused /\ log'.unowed = log.unowed => ExcusedCalls' = ExcusedCalls
BY DEF InputKept, QueuedMsgs, DroppedMsgs, DecidedCalls, DueKept, DebtKept, ExcusedCalls, Due, Owes

(* A step of the promise, or none.                                          *)
Promised == Promise!Next \/ UNCHANGED Promise!vars

(* A step that takes, says, decides and runs nothing at most owes work, or  *)
(* counts a response as given.                                              *)
LEMMA QuietStep ==
  ASSUME InputKept, DecidedCalls' = DecidedCalls, log'.ran = log.ran,
         store'.records = store.records, ExcusedCalls' = ExcusedCalls,
         \/ (Due' <=> Due) /\ (Owes' <=> Owes)
         \/ (Due' <=> Due) /\ Owes'
         \/ ~Due' /\ (Owes' <=> Owes)
  PROVE  Promised
<1> USE DEF Promise!vars, Promise!input, Promise!calls, InputKept
<1>b. /\ Due \in BOOLEAN /\ Due' \in BOOLEAN /\ Owes \in BOOLEAN /\ Owes' \in BOOLEAN
  BY DEF Due, Owes
<1>1. CASE (Due' <=> Due) /\ (Owes' <=> Owes)
  <2>1. Due' = Due /\ Owes' = Owes
    BY <1>b, <1>1
  <2> QED
    BY <2>1 DEF Promised
<1>2. CASE (Due' <=> Due) /\ Owes'
  <2>1. Due' = Due /\ Owes' = TRUE
    BY <1>b, <1>2
  <2>2. Promise!Owe
    BY <2>1 DEF Promise!Owe
  <2> QED
    BY <2>2 DEF Promised, Promise!Next
<1>3. CASE ~Due' /\ (Owes' <=> Owes)
  <2>1. Due' = FALSE /\ Owes' = Owes
    BY <1>b, <1>3
  <2>2. Promise!Respond
    BY <2>1 DEF Promise!Respond
  <2> QED
    BY <2>2 DEF Promised, Promise!Next
<1> QED
  BY <1>1, <1>2, <1>3

(* What an abort or a failure gives up, it gives up for all to see.         *)
LEMMA GivingUp ==
  ASSUME store' = store, log'.ran = log.ran, log.dropped \subseteq log'.dropped,
         log.excused \subseteq log'.excused,
         log'.excused \subseteq log.excused \cup Unanswered(store.records),
         log'.unowed = log.unowed, ~log'.answerDue
  PROVE  Promised
<1>1. QueuedMsgs' = QueuedMsgs /\ DecidedCalls' = DecidedCalls /\ Owes' = Owes
  BY DEF QueuedMsgs, DecidedCalls, Owes
<1>2. DroppedMsgs \subseteq DroppedMsgs' /\ DroppedMsgs' \subseteq QueuedMsgs
  BY DEF DroppedMsgs, QueuedMsgs
<1>3. ExcusedCalls \subseteq ExcusedCalls' /\ ExcusedCalls' \subseteq ExcusedCalls \cup Promise!Open
  BY PromiseReads DEF ExcusedCalls
<1>4. Due' = FALSE
  BY DEF Due
<1>5. Promise!GiveUp
  BY <1>1, <1>2, <1>3, <1>4 DEF Promise!GiveUp, Promise!calls
<1> QED
  BY <1>5 DEF Promised, Promise!Next

(* What holds before a step, and of what is owed after it.                  *)
Ground == TypeOK /\ OwedInv /\ AcceptedInv /\ KnownInv /\ ConversationInv
Outcome == SettledQueueDropped' /\ SettledMeansComplete' /\ AnswerDueIsOwed'

(* A work stage that is written, or skipped as written, owes work.          *)
LEMMA Written ==
  ASSUME OwedInv, NEW stage \in WorkStages, Writes(stage)
  PROVE  Owes'
BY RecordedOwesWork DEF Writes, OwedInv, WorkStages, Owes

(* An offer is an acceptance.                                               *)
LEMMA OfferPromised ==
  ASSUME Ground, [Next]_vars,
         NEW m \in Msgs, NEW k \in Kinds, NEW via \in {"own", "outer"}, Offer(m, k, via)
  PROVE  Promised
<1> USE DEF Ground
<1>1. /\ log' = log /\ store'.records = store.records /\ store'.tools = store.tools
  BY OfferDoes, ToolsSteps DEF Offer, SettleCalls, AppendResults, Dispatch, ToolCommitsEarly,
     CommitResult, TypeOK, StoreType
<1>2. PICK e : e.msg = m /\ store'.queue = store.queue \cup {e}
  <2>1. PICK key : store'.queue = store.queue \cup {[kind |-> k, key |-> key, msg |-> m]}
    BY DEF Offer, TypeOK, StoreType
  <2>2. [kind |-> k, key |-> key, msg |-> m].msg = m
    OBVIOUS
  <2> QED
    BY <2>1, <2>2
<1>3. m \notin store.ids
  BY DEF Offer, Claimed
<1>4. e \notin log.dropped /\ m \notin QueuedMsgs /\ ~Occurs(User(m), store.records)
  BY <1>2, <1>3 DEF KnownInv, AcceptedInv, QueuedMsgs
<1>5. QueuedMsgs' = QueuedMsgs \cup {m}
  BY <1>2 DEF QueuedMsgs
<1>6. DroppedMsgs' = DroppedMsgs
  BY <1>1, <1>2, <1>4 DEF DroppedMsgs
<1>7. Owes' = TRUE
  <2>1. CASE Writes("inference")
    BY <2>1, Written DEF WorkStages, Owes
  <2>2. CASE store'.owed = [store.owed EXCEPT !.stage = "inference"]
    BY <2>2 DEF Owes, TypeOK, StoreType, OwedRecord
  <2> QED
    BY <2>1, <2>2, OfferDoes
<1>8. DecidedCalls' = DecidedCalls /\ ExcusedCalls' = ExcusedCalls /\ Due' = Due
  BY <1>1 DEF DecidedCalls, ExcusedCalls, Due
<1>9. Promise!Accept(m)
  BY <1>1, <1>4, <1>5, <1>6, <1>7, <1>8, PromiseReads DEF Promise!Accept, Promise!calls
<1> QED
  BY <1>9 DEF Promised, Promise!Next

(* Taking a message from the queue is saying it.                            *)
LEMMA ConsumePromised ==
  ASSUME Ground, [Next]_vars, NEW k \in Kinds, ConsumeQueue(k)
  PROVE  Promised
<1> USE DEF Ground
<1>1. PICK e \in store.queue :
        /\ store'.queue = store.queue \ {e}
        /\ store'.records = Append(store.records, User(e.msg)) /\ store'.tools = store.tools
  BY DEF ConsumeQueue, Oldest, Consumable, OfKind, TypeOK, StoreType
<1>2. /\ pc = k /\ Writes("inference")
      /\ log'.excused = log.excused /\ log'.unowed = log.unowed
  BY ConsumeDoes
<1>3. log'.dropped = log.dropped /\ log'.ran = log.ran
  BY DEF ConsumeQueue, TypeOK, LogType
<1>4. \A f \in store.queue : f.msg = e.msg => f = e
  BY <1>1 DEF AcceptedInv
<1>5. e.msg \in Msgs /\ e.msg \in QueuedMsgs
  BY <1>1 DEF QueuedMsgs, TypeOK, StoreType, Entry
<1>6. QueuedMsgs' = QueuedMsgs \ {e.msg} /\ DroppedMsgs' = DroppedMsgs \ {e.msg}
  BY <1>1, <1>3, <1>4 DEF QueuedMsgs, DroppedMsgs
<1>7. Owes' = TRUE
  BY <1>2, Written DEF WorkStages, Owes
<1>8. DecidedCalls' = DecidedCalls /\ ExcusedCalls' = ExcusedCalls /\ Due' \in BOOLEAN
  BY <1>1, <1>2 DEF DecidedCalls, ExcusedCalls, Due
<1>9. Promise!Open = {}
  BY <1>2, PromiseReads DEF ConversationInv, OpenCallsInv, Asking, Kinds
<1>10. Promise!Take(e.msg)
  BY <1>1, <1>3, <1>5, <1>6, <1>7, <1>8, <1>9, PromiseReads DEF Promise!Take, Promise!calls
<1> QED
  BY <1>5, <1>10 DEF Promised, Promise!Next

(* A notice joins a conversation whose open calls, if any, are excused.     *)
LEMMA Noticed ==
  ASSUME store'.records = Append(store.records, System),
         Unanswered(store.records) \subseteq log.excused,
         InputKept, BatchKept, DebtKept, (Owes' <=> Owes) \/ Owes'
  PROVE  Promised
<1>1. Promise!Open \subseteq ExcusedCalls /\ Promise!Says(Promise!System)
  BY PromiseReads DEF ExcusedCalls
<1>2. Due' = Due /\ Owes' \in {Owes, TRUE}
  BY DEF DebtKept, Due, Owes
<1>3. Promise!Notice
  BY <1>1, <1>2, PromiseReads
  DEF Promise!Notice, Promise!input, Promise!calls, InputKept, BatchKept, DebtKept
<1> QED
  BY <1>3 DEF Promised, Promise!Next

(* A request says at most its notice.                                       *)
LEMMA RequestPromised ==
  ASSUME Ground, [Next]_vars, RequestInference
  PROVE  Promised
<1> USE DEF Ground
<1>1. store'.tools = store.tools
  BY DEF RequestInference, TypeOK, StoreType
<1>2. /\ pc = "request" /\ store'.queue = store.queue
      /\ log'.excused = log.excused /\ log'.unowed = log.unowed
  BY RequestDoes
<1>3. log'.dropped = log.dropped /\ log'.ran = log.ran
  BY DEF RequestInference, Failing, TypeOK, LogType
<1>4. InputKept /\ BatchKept /\ ExcusedCalls' = ExcusedCalls
  BY <1>1, <1>2, <1>3, PartsKept DEF BatchKept
<1>5. CASE store' = store /\ log'.unnamed = TRUE
  <2>1. store'.records = store.records /\ (Owes' <=> Owes) /\ ~Due'
    BY <1>5 DEF Owes, Due
  <2> QED
    BY <1>4, <2>1, QuietStep DEF BatchKept
<1>6. CASE /\ store'.owed = (IF mem.owed.pending = Requesting THEN store.owed ELSE Requesting)
           /\ HistoryKept
  <2>1. (Owes' <=> Owes) \/ Owes'
    BY <1>6 DEF Owes, Requesting
  <2>2. DebtKept /\ (Due' <=> Due)
    BY <1>6, PartsKept DEF HistoryKept, DebtKept
  <2>3. CASE store'.records = store.records
    BY <1>4, <2>1, <2>2, <2>3, QuietStep DEF BatchKept
  <2>4. CASE store'.records = Append(store.records, System)
    <3>1. Unanswered(store.records) = {}
      BY <1>2 DEF ConversationInv, OpenCallsInv, Asking
    <3> QED
      BY <1>4, <2>1, <2>2, <2>4, <3>1, Noticed
  <2> QED
    BY <1>6, <2>3, <2>4, RequestDoes
<1> QED
  BY <1>5, <1>6, RequestDoes

(* A failure is noted once the calls it left open are settled or excused.   *)
LEMMA NotePromised ==
  ASSUME Ground, [Next]_vars, AppendFailure
  PROVE  Promised
<1> USE DEF Ground
<1>1. store'.tools = store.tools /\ log'.dropped = log.dropped /\ log'.ran = log.ran
  BY DEF AppendFailure, Failing, TypeOK, StoreType, LogType
<1>2. pc = "note" /\ NotesFailure /\ store'.queue = store.queue /\ RecordKept /\ DueKept
  BY NoteDoes DEF HistoryKept, Fails
<1>3. InputKept /\ BatchKept /\ DebtKept /\ (Owes' <=> Owes)
  BY <1>1, <1>2, PartsKept DEF BatchKept, RecordKept
<1>4. CASE store'.records = store.records
  BY <1>3, <1>4, QuietStep DEF BatchKept, DebtKept
<1>5. CASE store'.records = Append(store.records, System)
  <2>1. Unanswered(store.records) \subseteq log.excused
    <3>1. CASE Failed
      BY <1>2, <3>1 DEF ConversationInv, KnownCallsInv
    <3>2. CASE ~Failed
      BY <1>2, <3>2 DEF ConversationInv, KnownCallsInv, NotesFailure, Failed
    <3> QED
      BY <3>1, <3>2
  <2> QED
    BY <1>3, <1>5, <2>1, Noticed
<1> QED
  BY <1>4, <1>5, NoteDoes

(* A block that finishes is said; the call it makes is owed or excused.     *)
LEMMA BlockPromised ==
  ASSUME Ground, [Next]_vars, StreamBlock
  PROVE  Promised
<1> USE DEF Ground
<1>1. store'.tools = store.tools /\ store'.queue = store.queue
  BY DEF StreamBlock, TypeOK, StoreType
<1>2. /\ pc = "stream" /\ RecordKept
      /\ log'.answerDue = log.answerDue /\ log'.unnamed = log.unnamed
      /\ log'.excused = log.excused
  BY BlockDoes
<1>3. log'.dropped = log.dropped /\ log'.ran = log.ran
  BY DEF StreamBlock, TypeOK, LogType
<1>4. InputKept /\ BatchKept /\ Due' = Due /\ Owes' = Owes
  BY <1>1, <1>2, <1>3, PartsKept DEF BatchKept, Due, Owes, RecordKept
<1>5. PICK r \in {Text} \cup {Call(c) : c \in Calls} :
        /\ r.type = "call" =>
              /\ ~Occurs(r, store.records)
              /\ \A c \in Calls : ~Occurs(Call(c), mem.turn.partial)
        /\ store'.records = Append(store.records, r)
        /\ log'.unowed = IF r.type = "call" /\ ~LateWork
                         THEN log.unowed \cup {r.ref} ELSE log.unowed
  BY DEF StreamBlock, TypeOK, StoreType, LogType
<1>6. CASE r = Text
  <2>1. ExcusedCalls' = ExcusedCalls
    BY <1>2, <1>5, <1>6 DEF Text, ExcusedCalls
  <2>2. Promise!SayText
    BY <1>4, <1>5, <1>6, <2>1, PromiseReads
    DEF Promise!SayText, Promise!input, Promise!calls, InputKept, BatchKept
  <2> QED
    BY <2>2 DEF Promised, Promise!Next
<1>7. ASSUME NEW c \in Calls, r = Call(c)
      PROVE  Promised
  <2>1. r.type = "call" /\ r.ref = c
    BY <1>7 DEF Call
  <2>2. ~Occurs(Call(c), store.records) /\ Unanswered(store.records) = {}
    BY <1>2, <1>5, <1>7, <2>1 DEF ConversationInv, OpenCallsInv
  <2>3. /\ ExcusedCalls' \in {ExcusedCalls, ExcusedCalls \cup {c}}
        /\ Owes \/ c \in ExcusedCalls'
    BY <1>2, <1>5, <2>1 DEF ExcusedCalls, LateWork, Owes
  <2>4. Promise!SayCall(c)
    BY <1>4, <1>5, <1>7, <2>2, <2>3, PromiseReads
    DEF Promise!SayCall, Promise!input, Promise!calls, InputKept, BatchKept
  <2> QED
    BY <2>4 DEF Promised, Promise!Next
<1> QED
  BY <1>5, <1>6, <1>7

(* Calls nobody will dispatch are decided as they are staged.               *)
LEMMA SettleCallsPromised ==
  ASSUME Ground, [Next]_vars, SettleCalls
  PROVE  Promised
<1> USE DEF Ground
<1>1. log'.dropped = log.dropped /\ log'.ran = log.ran
  BY DEF SettleCalls, Failing, TypeOK, LogType
<1>2. pc = "settleCalls" /\ SaidKept /\ DueKept /\ (RecordKept \/ Writes("tools"))
  BY SettleCallsDoes DEF HistoryKept, Fails
<1>3. InputKept /\ DebtKept
  BY <1>1, <1>2, PartsKept DEF SaidKept
<1>4. (Owes' <=> Owes) \/ Owes'
  BY <1>2, Written, PartsKept DEF RecordKept, WorkStages
<1>5. CASE store'.tools = store.tools
  <2>1. DecidedCalls' = DecidedCalls
    BY <1>5, PartsKept
  <2> QED
    BY <1>1, <1>2, <1>3, <1>4, <2>1, QuietStep DEF DebtKept, SaidKept
<1>6. CASE store'.tools # store.tools
  <2> DEFINE owed == Unanswered(mem.held.messages)
  <2>1. owed # {} /\ store'.tools = store.tools \cup {Entered(c, TRUE) : c \in owed}
    BY <1>6 DEF SettleCalls, TypeOK, StoreType
  <2>2. owed = Unanswered(store.records)
    BY <1>2, <2>1 DEF ConversationInv, KnownCallsInv
  <2>3. PICK c \in Calls : owed = {c}
    BY <2>1, <2>2 DEF ConversationInv, StoredCallsInv, Unanswered
  <2>4. store'.tools = store.tools \cup {Entered(c, TRUE)}
    BY <2>1, <2>3
  <2>5. DecidedCalls' = DecidedCalls \cup {c}
    <3>1. Entered(c, TRUE).call = c /\ Entered(c, TRUE).committed = TRUE
      BY DEF Entered
    <3> QED
      BY <2>4, <3>1 DEF DecidedCalls
  <2>6. c \in Promise!Open /\ Due' = Due /\ Owes' \in {Owes, TRUE}
    BY <1>3, <1>4, <2>2, <2>3, PromiseReads DEF DebtKept, Due, Owes
  <2>7. Promise!Decide(c)
    BY <1>1, <1>2, <1>3, <2>5, <2>6, PromiseReads
    DEF Promise!Decide, Promise!input, InputKept, DebtKept, SaidKept
  <2> QED
    BY <2>7 DEF Promised, Promise!Next
<1> QED
  BY <1>5, <1>6

(* A tool that commits its result decides its call.                         *)
LEMMA CommitsEarlyPromised ==
  ASSUME Ground, [Next]_vars, ToolCommitsEarly
  PROVE  Promised
<1> USE DEF Ground
<1>1. PICK t \in store.tools :
        /\ ~t.committed /\ log' = log
        /\ store'.tools = (store.tools \ {t}) \cup {[t EXCEPT !.committed = TRUE]}
  BY DEF ToolCommitsEarly, TypeOK, StoreType
<1>2. SaidKept /\ store'.owed = store.owed /\ DueKept
  BY RunningDoes DEF HistoryKept
<1>3. InputKept /\ DebtKept /\ (Owes' <=> Owes)
  BY <1>1, <1>2, PartsKept DEF SaidKept
<1>4. t.call \in Unanswered(store.records) /\ t.call \in Calls
  BY <1>1 DEF ConversationInv, StoredCallsInv, Entries, TypeOK, StoreType, BatchEntry
<1>5. DecidedCalls' = DecidedCalls \cup {t.call}
  <2>1. t \in BatchEntry
    BY DEF TypeOK, StoreType
  <2>2. [t EXCEPT !.committed = TRUE].call = t.call /\ [t EXCEPT !.committed = TRUE].committed
    BY <2>1 DEF BatchEntry
  <2> QED
    BY <1>1, <2>2 DEF DecidedCalls
<1>6. Due' = Due /\ Owes' = Owes
  BY <1>3 DEF DebtKept, Due, Owes
<1>7. Promise!Decide(t.call)
  BY <1>1, <1>2, <1>3, <1>4, <1>5, <1>6, PromiseReads
  DEF Promise!Decide, Promise!input, InputKept, DebtKept, SaidKept
<1> QED
  BY <1>4, <1>7 DEF Promised, Promise!Next

(* Dispatching a batch decides nothing.                                     *)
LEMMA DispatchPromised ==
  ASSUME Ground, [Next]_vars, Dispatch
  PROVE  Promised
<1> USE DEF Ground
<1>1. log'.dropped = log.dropped /\ log'.ran = log.ran
  BY DEF Dispatch, Failing, TypeOK, LogType
<1>2. DecidedCalls' = DecidedCalls
  <2>1. \/ store'.tools = store.tools
        \/ store'.tools = store.tools \cup {Entered(c, FALSE) : c \in mem.turn.batch}
    BY DEF Dispatch, TypeOK, StoreType
  <2>2. \A c : ~Entered(c, FALSE).committed
    BY DEF Entered
  <2> QED
    BY <2>1, <2>2 DEF DecidedCalls
<1>3. SaidKept /\ InputKept /\ log'.excused = log.excused /\ log'.unowed = log.unowed
      /\ log'.answerDue = log.answerDue
  BY <1>1, DispatchDoes, PartsKept DEF SaidKept, HistoryKept, DueKept
<1>4. \/ Writes("tools") /\ DueKept
      \/ RecordKept /\ log'.unnamed = (log.unnamed \/ ~LateWork)
  BY DispatchDoes DEF HistoryKept
<1>5. \/ (Due' <=> Due) /\ Owes'
      \/ (Owes' <=> Owes) /\ ((Due' <=> Due) \/ ~Due')
  <2>1. CASE Writes("tools") /\ DueKept
    BY <2>1, Written, PartsKept DEF WorkStages, DebtKept
  <2>2. CASE RecordKept /\ log'.unnamed = (log.unnamed \/ ~LateWork)
    BY <1>3, <2>2, PartsKept DEF RecordKept, Due
  <2> QED
    BY <1>4, <2>1, <2>2
<1> QED
  BY <1>1, <1>2, <1>3, <1>5, PartsKept, QuietStep DEF SaidKept

(* A call that executes is open, undecided, and fresh or retryable.         *)
LEMMA ExecutePromised ==
  ASSUME Ground, [Next]_vars, Execute
  PROVE  Promised
<1> USE DEF Ground
<1>1. pc = "execute" /\ store' = store
  BY Zenon DEF Execute
<1>2. HistoryKept /\ log'.dropped = log.dropped
  BY RunningDoes, DroppedSteps DEF Abort, LoadFails, FailTurn, OpenTurn, NextTurn, Execute
<1>3. InputKept /\ DecidedCalls' = DecidedCalls /\ DebtKept /\ (Owes' <=> Owes)
  BY <1>1, <1>2, PartsKept DEF HistoryKept
<1>4. \/ log' = log
      \/ \E c \in mem.turn.batch :
             ~Replays(c) /\ ~Refuses(c) /\ log' = [log EXCEPT !.ran[c] = @ + 1]
  BY Zenon DEF Execute
<1>5. CASE log' = log
  BY <1>1, <1>3, <1>5, QuietStep DEF DebtKept
<1>6. ASSUME NEW c \in mem.turn.batch, ~Replays(c), ~Refuses(c),
             log' = [log EXCEPT !.ran[c] = @ + 1]
      PROVE  Promised
  <2>1. c \in Unanswered(store.records) /\ c \in Calls
    BY <1>1 DEF ConversationInv, OpenCallsInv, Batching, Unanswered
  <2>2. c \notin DecidedCalls
    <3>1. \A t \in store.tools : t.committed /\ t.call = c => t = Entered(c, TRUE)
      BY DEF TypeOK, StoreType, BatchEntry, Entered
    <3> QED
      BY <1>6, <3>1 DEF DecidedCalls, Replays
  <2>3. c \in Retryable \/ log.ran[c] = 0
    BY <1>1, <1>6 DEF Refuses, ConversationInv, BatchInv
  <2>4. log'.ran = [log.ran EXCEPT ![c] = @ + 1]
    BY <1>6 DEF TypeOK, LogType
  <2>5. Due' = Due /\ Owes' = Owes
    BY <1>3 DEF DebtKept, Due, Owes
  <2>6. Promise!Run(c)
    BY <1>1, <1>3, <2>1, <2>2, <2>3, <2>4, <2>5, PromiseReads
    DEF Promise!Run, Promise!input, InputKept, DebtKept
  <2> QED
    BY <2>1, <2>6 DEF Promised, Promise!Next
<1> QED
  BY <1>4, <1>5, <1>6

(* A result that joins the conversation answers its call.                   *)
LEMMA Answered ==
  ASSUME Ground, NEW c \in mem.turn.batch, pc \in Batching \cup {"appendResults"},
         store'.records = Append(store.records, Result(c)), store'.tools = WithoutEntry(c),
         InputKept, log'.ran = log.ran, ExcusedCalls' = ExcusedCalls,
         (Owes' <=> Owes) \/ Owes', (Due' <=> Due) \/ (Due' => Owes')
  PROVE  Promised
<1> USE DEF Ground
<1>1. c \in Unanswered(store.records) /\ c \in Calls
  BY DEF ConversationInv, OpenCallsInv, Unanswered
<1>2. DecidedCalls' = DecidedCalls \ {c}
  BY DEF DecidedCalls, WithoutEntry
<1>3. Owes' \in {Owes, TRUE} /\ Due' \in {FALSE, Due, Owes'}
  BY DEF Due, Owes
<1>4. Promise!Answer(c)
  BY <1>1, <1>2, <1>3, PromiseReads DEF Promise!Answer, Promise!input, InputKept
<1> QED
  BY <1>1, <1>4 DEF Promised, Promise!Next

(* A staged result answers its call, and keeps the record standing.         *)
LEMMA ResultsPromised ==
  ASSUME Ground, [Next]_vars, AppendResults
  PROVE  Promised
<1> USE DEF Ground
<1>1. log'.dropped = log.dropped /\ log'.ran = log.ran
  BY DEF AppendResults, Failing, TypeOK, LogType
<1>2. pc = "appendResults" /\ store'.queue = store.queue /\ DueKept
  BY ResultsDo DEF HistoryKept, Fails
<1>3. InputKept /\ DebtKept
  BY <1>1, <1>2, PartsKept
<1>4. CASE store' = store
  <2>1. DecidedCalls' = DecidedCalls /\ (Owes' <=> Owes)
    BY <1>4, PartsKept
  <2> QED
    BY <1>1, <1>3, <1>4, <2>1, QuietStep DEF DebtKept
<1>5. CASE store' # store
  <2>1. Writes("inference")
    BY <1>5, ResultsDo
  <2>2. Owes'
    BY <2>1, Written DEF WorkStages
  <2>3. PICK c \in mem.turn.batch : /\ store'.records = Append(store.records, Result(c))
                                    /\ store'.tools = WithoutEntry(c)
    BY <1>5 DEF AppendResults, TypeOK, StoreType
  <2> QED
    BY <1>1, <1>2, <1>3, <2>2, <2>3, Answered DEF DebtKept
<1> QED
  BY <1>4, <1>5

(* A result of the batch answers its call, and makes an answer due.         *)
LEMMA CommitPromised ==
  ASSUME Ground, Outcome, [Next]_vars, CommitResult
  PROVE  Promised
<1> USE DEF Ground
<1>1. log'.dropped = log.dropped /\ log'.ran = log.ran
  BY DEF CommitResult, TypeOK, LogType
<1>2. /\ pc = "commit" /\ store'.queue = store.queue /\ RecordKept
      /\ log'.excused = log.excused /\ log'.unowed = log.unowed
  BY CommitDoes
<1>3. InputKept /\ ExcusedCalls' = ExcusedCalls /\ (Owes' <=> Owes)
  BY <1>1, <1>2, PartsKept DEF RecordKept
<1>4. PICK c \in mem.turn.batch : /\ store'.records = Append(store.records, Result(c))
                                  /\ store'.tools = WithoutEntry(c)
  BY DEF CommitResult, TypeOK, StoreType
<1>5. Due' => Owes'
  BY DEF Outcome, AnswerDueIsOwed, Due, Owes
<1> QED
  BY <1>1, <1>2, <1>3, <1>4, <1>5, Answered DEF Batching

(* A settlement that erases the record finds nothing left to do.            *)
LEMMA SettlePromised ==
  ASSUME Ground, Outcome, [Next]_vars, Settle
  PROVE  Promised
<1> USE DEF Ground
<1>1. /\ log'.dropped = log.dropped /\ log'.ran = log.ran /\ store'.tools = store.tools
  BY DEF Settle, Failing, TypeOK, StoreType, LogType
<1>2. SaidKept /\ DueKept /\ (store'.owed = SettledRecord \/ RecordKept)
  BY SettleDoes DEF HistoryKept, Fails
<1>3. InputKept /\ DecidedCalls' = DecidedCalls /\ DebtKept
  BY <1>1, <1>2, PartsKept DEF SaidKept
<1>4. CASE Owes' \/ (Owes' <=> Owes)
  BY <1>1, <1>2, <1>3, <1>4, QuietStep DEF DebtKept, SaidKept
<1>5. CASE ~Owes'
  <2>1. QueuedMsgs \subseteq DroppedMsgs
    BY <1>1, <1>2, <1>5 DEF Outcome, SettledQueueDropped, Owes, QueuedMsgs, DroppedMsgs, SaidKept
  <2>2. Promise!Open \subseteq ExcusedCalls
    BY <1>2, <1>5, PromiseReads
    DEF Outcome, SettledMeansComplete, Owes, ExcusedCalls, SaidKept, DueKept
  <2>3. ~Due /\ Due' = Due /\ Owes' = FALSE
    BY <1>3, <1>5 DEF Outcome, AnswerDueIsOwed, Owes, Due, DebtKept
  <2>4. Promise!Settle
    BY <1>1, <1>2, <1>3, <2>1, <2>2, <2>3
    DEF Promise!Settle, Promise!input, Promise!calls, InputKept, DebtKept, SaidKept
  <2> QED
    BY <2>4 DEF Promised, Promise!Next
<1> QED
  BY <1>4, <1>5

(* A turn that opens takes its input up again, over a record that owes one. *)
LEMMA TurnPromised ==
  ASSUME Ground, [Next]_vars, OpenTurn \/ NextTurn
  PROVE  Promised
<1> USE DEF Ground
<1>1. store' = store
  BY DEF OpenTurn, NextTurn
<1>2. log'.ran = log.ran
  BY RanSteps DEF OpenTurn, NextTurn, Execute
<1>3. DueKept
  BY OpenScopeDoes, BeginTurnDoes DEF OpenTurn, NextTurn, HistoryKept, DueKept, TypeOK
<1>4. DecidedCalls' = DecidedCalls /\ DebtKept /\ (Owes' <=> Owes) /\ QueuedMsgs' = QueuedMsgs
  BY <1>1, <1>3, PartsKept DEF QueuedMsgs
<1>5. CASE log'.dropped = log.dropped
  <2>1. InputKept
    BY <1>1, <1>5, PartsKept
  <2> QED
    BY <1>1, <1>2, <1>4, <2>1, QuietStep DEF DebtKept
<1>6. CASE LateWork /\ log'.dropped = {}
  <2>1. Owes /\ DroppedMsgs' = {}
    BY <1>6 DEF LateWork, Owes, DroppedMsgs
  <2>2. Due' = Due /\ Owes' = Owes
    BY <1>4 DEF DebtKept, Due, Owes
  <2>3. Promise!TakeUp
    BY <1>1, <1>2, <1>4, <2>1, <2>2 DEF Promise!TakeUp, Promise!calls, DebtKept
  <2> QED
    BY <2>3 DEF Promised, Promise!Next
<1>7. ~Abort /\ ~LoadFails /\ ~FailTurn
  <2>1. pc \in {"openTurn", "turnClosed"} /\ pc' # pc
    BY DEF OpenTurn, NextTurn, BeginTurn
  <2> QED
    BY <2>1 DEF Abort, LoadFails, FailTurn
<1> QED
  BY <1>5, <1>6, <1>7, DroppedSteps

(* An abort, a failed load, stream or turn.                                 *)
LEMMA FailurePromised ==
  ASSUME Ground, [Next]_vars, Abort \/ LoadFails \/ StreamThrows \/ FailTurn
  PROVE  Promised
<1> USE DEF Ground
<1>1. store' = store
  BY DEF Abort, LoadFails, StreamThrows, FailTurn
<1>2. log'.ran = log.ran
  BY RanSteps DEF Abort, LoadFails, StreamThrows, FailTurn, Execute
<1>3. CASE log' = Failing
  <2>1. log'.dropped = log.dropped /\ DueKept
    BY <1>3, FailingDoes DEF Failing, Fails, TypeOK, LogType
  <2>2. InputKept /\ DecidedCalls' = DecidedCalls /\ DebtKept /\ (Owes' <=> Owes)
    BY <1>1, <2>1, PartsKept
  <2> QED
    BY <1>1, <1>2, <2>2, QuietStep DEF DebtKept
<1>4. CASE ~(LoadFails /\ mem.turn.then = "settle")
  <2>1. log.dropped \subseteq log'.dropped
    BY DEF Abort, LoadFails, StreamThrows, FailTurn, Abandoning, Failing, TypeOK, LogType
  <2>2. /\ ~log'.answerDue /\ log'.unowed = log.unowed /\ log.excused \subseteq log'.excused
        /\ log'.excused \subseteq log.excused \cup Unanswered(store.records)
    BY <1>4, AbortDoes, LoadFailsDoes, StreamThrowsDoes, FailTurnDoes
  <2> QED
    BY <1>1, <1>2, <2>1, <2>2, GivingUp
<1> QED
  BY <1>3, <1>4 DEF LoadFails

(* Whatever else the run, its callers or a crash do is no step of the       *)
(* promise, unless a stage records that work is owed or a stream ends.      *)
LEMMA ElsewherePromised ==
  ASSUME Ground, [Next]_vars, log'.dropped = log.dropped,
         store'.records = store.records, store'.queue = store.queue, store'.tools = store.tools,
         log'.ran = log.ran, ExcusedCalls' = ExcusedCalls,
         \/ DueKept /\ (store'.owed = store.owed \/ Owes')
         \/ ~log'.answerDue /\ store' = store
  PROVE  Promised
<1>1. InputKept /\ DecidedCalls' = DecidedCalls
  BY PartsKept
<1>2. CASE DueKept /\ (store'.owed = store.owed \/ Owes')
  BY <1>1, <1>2, PartsKept, QuietStep DEF DebtKept
<1>3. CASE ~log'.answerDue /\ store' = store
  <2>1. ~Due' /\ (Owes' <=> Owes)
    BY <1>3, PartsKept DEF Due
  <2> QED
    BY <1>1, <2>1, QuietStep
<1> QED
  BY <1>2, <1>3

(* So it is with every step not named above.                                *)
LEMMA OthersPromised ==
  ASSUME Ground, [Next]_vars,
         ~(SettleCalls \/ AppendResults \/ Dispatch \/ ToolCommitsEarly \/ CommitResult),
         ~(Abort \/ LoadFails \/ FailTurn \/ OpenTurn \/ NextTurn \/ Execute),
         \/ Drain \/ Close \/ Publishing \/ Crash \/ Start
         \/ BeginRun \/ SettleLoaded \/ LoopStage \/ ReadHistory \/ AssignHistory \/ TurnStage
         \/ BeginInference \/ Recover \/ StopCycle \/ RefreshCommittedQueues \/ NothingQueued
         \/ LeaveRequest \/ OpenStream \/ TurnThrows \/ EndInference
         \/ \E state \in Ending : StreamEnds(state)
         \/ ToolSettles \/ ToolReloads \/ EndBatch
         \/ NothingToNote \/ LeaveRun \/ CloseTurn \/ CloseLoop \/ NextLoop
         \/ EnterSettlement \/ Finally \/ UNCHANGED vars
  PROVE  Promised
<1> USE DEF Ground
<1>1. /\ log'.dropped = log.dropped /\ store'.tools = store.tools /\ log'.ran = log.ran
  BY DroppedSteps, ToolsSteps, RanSteps
<1>d. DueKept => ExcusedCalls' = ExcusedCalls
  BY PartsKept DEF DueKept
<1>2. CASE store' = store /\ DueKept
  BY <1>1, <1>2, <1>d, ElsewherePromised
<1>3. CASE UNCHANGED <<store, log>>
  BY <1>2, <1>3 DEF DueKept
<1>4. CASE Drain \/ Close \/ Crash \/ Finally \/ TurnThrows
  BY <1>2, <1>4, StopDoes, CrashDoes, FinallyDoes, TurnThrowsDoes DEF HistoryKept, Fails
<1>5. CASE Publishing
  BY <1>2, <1>3, <1>5, PublishDoes, ActivateDoes, MarkDoes DEF Publishing, HistoryKept
<1>6. CASE LoopStage \/ TurnStage \/ CloseTurn \/ CloseLoop
  <2>1. SaidKept /\ DueKept /\ (Writes("inference") \/ RecordKept)
    BY <1>6, EnterStageDoes DEF LoopStage, TurnStage, CloseTurn, CloseLoop, HistoryKept, Fails
  <2>2. store'.owed = store.owed \/ Owes'
    BY <2>1, Written DEF WorkStages, RecordKept
  <2> QED
    BY <1>1, <1>d, <2>1, <2>2, ElsewherePromised DEF SaidKept
<1>7. CASE EndInference \/ EndBatch
  <2>1. SaidKept /\ DueKept /\ (Writes("inference") \/ RecordKept)
    BY <1>7, EndInferenceDoes, EndBatchDoes DEF HistoryKept, Fails
  <2>2. store'.owed = store.owed \/ Owes'
    BY <2>1, Written DEF WorkStages, RecordKept
  <2> QED
    BY <1>1, <1>d, <2>1, <2>2, ElsewherePromised DEF SaidKept
<1>8. CASE EnterSettlement
  <2>1. SaidKept /\ DueKept /\ (store'.owed = Owing("settlement") \/ RecordKept)
    BY <1>8, SettlingDoes DEF HistoryKept, Fails
  <2>2. store'.owed = store.owed \/ Owes'
    BY <2>1 DEF RecordKept, Owes, Owing
  <2> QED
    BY <1>1, <1>d, <2>1, <2>2, ElsewherePromised DEF SaidKept
<1>9. ASSUME NEW state \in Ending, StreamEnds(state)
      PROVE  Promised
  <2>1. store' = store /\ ~log'.answerDue /\ ExcusedCalls' = ExcusedCalls
    BY <1>9, StreamEndsDoes, PartsKept
  <2> QED
    BY <1>1, <2>1, ElsewherePromised
<1>10. CASE ToolSettles \/ ToolReloads \/ Start \/ BeginRun \/ SettleLoaded \/ ReadHistory
             \/ AssignHistory \/ BeginInference \/ Recover \/ StopCycle
             \/ RefreshCommittedQueues \/ NothingQueued \/ LeaveRequest \/ OpenStream
             \/ NothingToNote \/ LeaveRun \/ NextLoop \/ UNCHANGED vars
  <2>1. UNCHANGED <<store, log>>
    BY <1>10 DEF ToolSettles, ToolReloads, Start, BeginRun, SettleLoaded, ReadHistory,
       AssignHistory, BeginInference, Recover, StopCycle, RefreshCommittedQueues, NothingQueued,
       LeaveRequest, OpenStream, NothingToNote, LeaveRun, NextLoop, vars
  <2> QED
    BY <1>3, <2>1
<1> QED
  BY <1>4, <1>5, <1>6, <1>7, <1>8, <1>9, <1>10

(* Every step of the agent is a step of the promise, or none.               *)
LEMMA PromiseStep ==
  ASSUME Ground, Outcome, [Next]_vars
  PROVE  [Promise!Next]_(Promise!vars)
<1> SUFFICES Promised
  BY DEF Promised
<1>1. CASE \E m \in Msgs, k \in Kinds, via \in {"own", "outer"} : Offer(m, k, via)
  BY <1>1, OfferPromised
<1>2. CASE \E k \in Kinds : ConsumeQueue(k)
  BY <1>2, ConsumePromised
<1>3. CASE Abort \/ LoadFails \/ StreamThrows \/ FailTurn
  BY <1>3, FailurePromised
<1>4. CASE OpenTurn \/ NextTurn
  BY <1>4, TurnPromised
<1>5. CASE RequestInference \/ AppendFailure \/ StreamBlock
  BY <1>5, RequestPromised, NotePromised, BlockPromised
<1>6. CASE SettleCalls \/ ToolCommitsEarly \/ Dispatch \/ Execute
  BY <1>6, SettleCallsPromised, CommitsEarlyPromised, DispatchPromised, ExecutePromised
<1>7. CASE AppendResults \/ CommitResult \/ Settle
  BY <1>7, ResultsPromised, CommitPromised, SettlePromised
<1> QED
  BY <1>1, <1>2, <1>3, <1>4, <1>5, <1>6, <1>7, OthersPromised
  DEF Next, Callers, RunStep, OpeningStep, LoadStep, CycleStep, ResponseStep, ToolStep,
      ClosingStep, Rest

(* An agent that has done nothing has promised nothing.                     *)
LEMMA PromiseStart ==
  ASSUME Init
  PROVE  Promise!Init
BY DEF Init, Promise!Init, QueuedMsgs, DroppedMsgs, DecidedCalls, ExcusedCalls, Due, Owes, NotOwed

(* All of it holds everywhere.                                              *)
LEMMA GroundInductive == Spec => []Ground
<1>1. Init => AcceptedInv /\ KnownInv
  BY DEF Init, AcceptedInv, KnownInv, Occurs, Fresh
<1>2. TypeOK /\ AcceptedInv /\ KnownInv /\ [Next]_vars => AcceptedInv' /\ KnownInv'
  BY AcceptedStep, KnownStep
<1>3. Spec => [](AcceptedInv /\ KnownInv)
  BY <1>1, <1>2, TypeCorrect, PTL DEF Spec
<1> QED
  BY <1>3, TypeCorrect, OwedInductive, ConversationWhole, PTL DEF Ground

(* THEOREM: the run loop implements what DurableAgent promises.  Over any   *)
(* number of offers, aborts, failures, crashes and new owners: a message is *)
(* accepted once and said once, never between a call and its result; a call *)
(* is answered once; its tool does not start again once a result is durable,*)
(* and starts once if it may not be retried; and the record is erased over  *)
(* no message, call or answer still waited for (#consumeQueue,              *)
(* #dispatchToolBatch, #settleUnansweredCalls, #settleRecord).              *)
THEOREM AgentKeepsItsPromise == Spec => KeepsItsPromise
<1>1. Ground /\ SettledMeansComplete' /\ AnswerDueIsOwed' /\ OwedInv' /\ [Next]_vars
        => [Promise!Next]_(Promise!vars)
  BY PromiseStep DEF Outcome, OwedInv
<1> QED
  BY <1>1, PromiseStart, GroundInductive, OwedInductive, SettledIsComplete, AnswerIsOwed, PTL
  DEF Spec, KeepsItsPromise, Promise!Spec

(* What the promise is worth by itself: conversations are built of records, *)
(* so a call that is made is the only one that comes to be open.            *)
Spoken == store.records \in Seq(Record)

(* What is said opens the call it makes, and no other.                      *)
LEMMA SayingKeeps ==
  ASSUME Spoken, NEW r \in Record, store'.records = Append(store.records, r)
  PROVE  /\ Spoken'
         /\ (\A c \in Calls : r # Call(c)) => Promise!Open' \subseteq Promise!Open
         /\ \A c \in Calls : r = Call(c) => Promise!Open' \subseteq Promise!Open \cup {c}
<1>1. /\ Append(store.records, r) \in Seq(Record)
      /\ \A x : Occurs(x, Append(store.records, r)) <=> Occurs(x, store.records) \/ x = r
  BY Appended DEF Spoken
<1>2. Promise!Open = Unanswered(store.records) /\ Promise!Open' = Unanswered(store'.records)
  BY PromiseReads DEF Promise!Open, Promise!WasSaid, Promise!Call, Promise!Result, Call, Result,
     Unanswered, Occurs
<1>3. Unanswered(store'.records) = {c \in Calls : /\ Occurs(Call(c), store'.records)
                                                 /\ ~Occurs(Result(c), store'.records)}
  BY DEF Unanswered
<1>4. (\A c \in Calls : r # Call(c)) => Promise!Open' \subseteq Promise!Open
  BY <1>1, <1>2, <1>3 DEF Unanswered
<1>5. \A c \in Calls : r = Call(c) => Promise!Open' \subseteq Promise!Open \cup {c}
  BY <1>1, <1>2, <1>3, RecordsDiffer DEF Unanswered
<1> QED
  BY <1>1, <1>4, <1>5 DEF Spoken

(* No step the promise allows leaves work behind that nobody owes.          *)
LEMMA KeptStep ==
  ASSUME Spoken, Promise!Kept, [Promise!Next]_(Promise!vars)
  PROVE  Spoken' /\ Promise!Kept'
<1> USE DEF Promise!Kept, Promise!input, Promise!calls
<1>s. /\ \A m \in Msgs : User(m) \in Record /\ \A c \in Calls : User(m) # Call(c)
      /\ \A c \in Calls : /\ Call(c) \in Record /\ Result(c) \in Record
                          /\ \A d \in Calls : Result(c) # Call(d)
      /\ Text \in Record /\ System \in Record
      /\ \A c \in Calls : Text # Call(c) /\ System # Call(c)
  BY RecordTypes, RecordsDiffer
<1>k. ASSUME store'.records = store.records
      PROVE  Spoken' /\ Promise!Open' = Promise!Open
  BY <1>k DEF Spoken, Promise!Open, Promise!WasSaid, Promise!Call, Promise!Result
<1>o. Promise!MayOwe => (Owes => Owes')
  BY DEF Promise!MayOwe, Owes
<1>1. CASE \E m \in Msgs : Promise!Accept(m)
  BY <1>1, <1>k DEF Promise!Accept
<1>2. ASSUME NEW m \in Msgs, Promise!Take(m)
      PROVE  Spoken' /\ Promise!Kept'
  BY <1>2, <1>s, PromiseReads, SayingKeeps DEF Promise!Take
<1>3. CASE Promise!SayText
  BY <1>3, <1>s, PromiseReads, SayingKeeps DEF Promise!SayText
<1>4. ASSUME NEW c \in Calls, Promise!SayCall(c)
      PROVE  Spoken' /\ Promise!Kept'
  <2>1. Spoken' /\ Promise!Open' \subseteq {c}
    BY <1>4, <1>s, PromiseReads, SayingKeeps DEF Promise!SayCall
  <2> QED
    BY <1>4, <2>1 DEF Promise!SayCall
<1>5. CASE Promise!Notice
  <2>1. Spoken' /\ Promise!Open' \subseteq Promise!Open
    BY <1>5, <1>s, PromiseReads, SayingKeeps DEF Promise!Notice
  <2>2. (Owes => Owes') /\ (Due' <=> Due) /\ ExcusedCalls' = ExcusedCalls /\ QueuedMsgs' = QueuedMsgs
        /\ DroppedMsgs' = DroppedMsgs
    BY <1>5, <1>o DEF Promise!Notice
  <2> QED
    BY <2>1, <2>2
<1>6. ASSUME NEW c \in Calls, Promise!Answer(c)
      PROVE  Spoken' /\ Promise!Kept'
  <2>1. Spoken' /\ Promise!Open' \subseteq Promise!Open
    BY <1>6, <1>s, PromiseReads, SayingKeeps DEF Promise!Answer
  <2> QED
    BY <1>6, <2>1, PromiseReads DEF Promise!Answer, Owes, Due
<1>7. ASSUME NEW c \in Calls, Promise!Run(c) \/ Promise!Decide(c)
      PROVE  Spoken' /\ Promise!Kept'
  <2>1. Spoken' /\ Promise!Open' = Promise!Open
    BY <1>7, <1>k DEF Promise!Run, Promise!Decide
  <2>2. (Owes => Owes') /\ (Due' <=> Due) /\ ExcusedCalls' = ExcusedCalls
        /\ QueuedMsgs' = QueuedMsgs /\ DroppedMsgs' = DroppedMsgs
    BY <1>7, <1>o DEF Promise!Run, Promise!Decide
  <2> QED
    BY <2>1, <2>2
<1>8. CASE Promise!Respond \/ Promise!TakeUp \/ Promise!Owe \/ Promise!Settle
  BY <1>8, <1>k DEF Promise!Respond, Promise!TakeUp, Promise!Owe, Promise!Settle
<1>9. CASE Promise!GiveUp
  BY <1>9, <1>k DEF Promise!GiveUp
<1>10. CASE UNCHANGED Promise!vars
  BY <1>10, <1>k DEF Promise!vars
<1> QED
  BY <1>1, <1>2, <1>3, <1>4, <1>5, <1>6, <1>7, <1>8, <1>9, <1>10 DEF Promise!Next

(* THEOREM: whoever knows only the promise knows that an agent nobody will  *)
(* resume waits for no message but those that were dropped, has answered    *)
(* every call but those it is excused from, and owes no response.           *)
THEOREM PromiseSuffices == Promise!Spec => []Promise!Kept
<1>1. Promise!Init => Spoken /\ Promise!Kept
  BY DEF Promise!Init, Promise!Kept, Promise!Open, Promise!WasSaid, Spoken
<1>2. Spoken /\ Promise!Kept /\ [Promise!Next]_(Promise!vars) => Spoken' /\ Promise!Kept'
  BY KeptStep
<1> QED
  BY <1>1, <1>2, PTL DEF Promise!Spec

(* THEOREM: so an agent whose record owes nothing has nothing left to do, in*)
(* every state any of its processes leaves behind (#claimPendingWork,       *)
(* #settleRecord).                                                          *)
THEOREM NothingLeftBehind == Spec => []Promise!Kept
BY AgentKeepsItsPromise, PromiseSuffices, PTL DEF KeepsItsPromise
=============================================================================
