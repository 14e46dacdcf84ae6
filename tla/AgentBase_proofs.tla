-------------------------- MODULE AgentBase_proofs --------------------------
(***************************************************************************)
(* What TLAPS proves of AgentBase for every value of its constants:        *)
(*   TypeCorrect      TypeOK is an invariant;                              *)
(*   OwedInductive    so is OwedInv, which is inductive given TypeOK;      *)
(*   NoWorkForgotten  hence QueuedWorkIsOwed: accepted input is never left *)
(*                    behind a record that owes nothing.                   *)
(*                                                                         *)
(* The proof of TypeCorrect follows the groups of Next.  mem and log are   *)
(* nested records, so the lemmas *Fields and *Update first say what a field*)
(* of each holds and what replacing one gives; the steps then cite those   *)
(* and never expand the record types.                                      *)
(*                                                                         *)
(* OwedInductive calls a step Harmless when it neither queues a message nor*)
(* lowers the record; nearly every step is, and HarmlessPreserves settles  *)
(* those at once.  The others are argued one by one: Offer, the activation *)
(* of a commit, Crash, BeginTurn, the request, and the two steps of a      *)
(* settlement.                                                             *)
(***************************************************************************)
EXTENDS AgentBase, TLAPS

(* Every record and batch entry the code writes is one the types allow.     *)
LEMMA RecordTypes ==
  /\ \A m \in Msgs : User(m) \in Record
  /\ \A c \in Calls : Call(c) \in Record /\ Result(c) \in Record
  /\ Text \in Record /\ System \in Record
  /\ \A c \in Calls, b \in BOOLEAN : Entered(c, b) \in BatchEntry
BY DEF User, Call, Result, Text, System, Record, Entered, BatchEntry

(* The conversation stays a sequence of records when a block, a result, a   *)
(* notice or a whole response joins it (#collect, #requestInference).       *)
LEMMA ConversationTypes ==
  ASSUME NEW s \in Seq(Record)
  PROVE  /\ \A r \in Record : Append(s, r) \in Seq(Record)
         /\ \A t \in Seq(Record) : s \o t \in Seq(Record)
         /\ <<>> \in Seq(Record) /\ <<System>> \in Seq(Record)
BY RecordTypes

(* The heap of an instance that has only loaded its pending record is well  *)
(* typed (AgentBase.load).                                                  *)
LEMMA FreshType ==
  ASSUME NEW owed \in OwedRecord
  PROVE  Fresh(owed) \in MemType
<1>1. owed.open \in BOOLEAN
  BY DEF OwedRecord
<1>2. <<>> \in Seq(Record)
  OBVIOUS
<1> QED
  BY <1>1, <1>2, Zenon DEF Fresh, MemType, HeldType, RunType, OwedType, TurnType, After

(* Every pending record the code writes, or decides not to write again, is  *)
(* one of the stages (#pendingState, #recordPending, #settleRecord).        *)
LEMMA OwedTypes ==
  ASSUME NEW stage \in Stages, mem.owed.requestOpen \in BOOLEAN, store.owed \in OwedRecord
  PROVE  /\ NotOwed \in OwedRecord /\ Reopened \in OwedRecord /\ Requesting \in OwedRecord
         /\ Owing(stage) \in OwedRecord
         /\ Recorded(stage) \in OwedRecord
BY DEF NotOwed, Reopened, Requesting, Owing, Recorded, OwedRecord, Stages

(* A newly created agent is well typed.                                     *)
LEMMA InitType == Init => TypeOK
<1> SUFFICES ASSUME Init PROVE TypeOK
  OBVIOUS
<1>1. NotOwed \in OwedRecord
  BY DEF NotOwed, OwedRecord
<1>2. mem \in MemType
  BY <1>1, FreshType DEF Init
<1> QED
  BY <1>1, <1>2 DEF Init, TypeOK, StoreType, LogType, PcType

(* What each field of the live instance's heap holds.                       *)
LEMMA MemFields ==
  ASSUME NEW m \in MemType
  PROVE  /\ m.held.waiting \in SUBSET Entry
         /\ m.held.messages \in Seq(Record)
         /\ m.held.loaded \in BOOLEAN
         /\ m.held.snapshot \in SUBSET Entry
         /\ m.held.publishing \in SUBSET Publication
         /\ m.held.dirty \in BOOLEAN
         /\ m.held.abandoned \in SUBSET Entry
         /\ m.run.turnRequested \in BOOLEAN
         /\ m.run.abortDropped \in BOOLEAN
         /\ m.run.settleOnly \in BOOLEAN
         /\ m.run.reopened \in BOOLEAN
         /\ m.run.aborted \in BOOLEAN
         /\ m.run.draining \in BOOLEAN
         /\ m.run.closed \in BOOLEAN
         /\ m.run.toolsAbandoned \in BOOLEAN
         /\ m.owed.inherited \in OwedRecord
         /\ m.owed.pending \in OwedRecord
         /\ m.owed.requestOpen \in BOOLEAN
         /\ m.owed.recoveryChecked \in BOOLEAN
         /\ m.owed.resumeRequested \in BOOLEAN
         /\ m.turn.needs \in BOOLEAN
         /\ m.turn.blocked \in BOOLEAN
         /\ m.turn.state \in {"none"} \cup Ending
         /\ m.turn.partial \in Seq(Record)
         /\ m.turn.batch \in SUBSET Calls
         /\ m.turn.resumed \in BOOLEAN
         /\ m.turn.stopped \in BOOLEAN
         /\ m.turn.then \in After
BY Zenon DEF MemType, HeldType, RunType, OwedType, TurnType

(* Assigning one field of the heap a value of its type keeps the heap well  *)
(* typed.                                                                   *)
LEMMA MemUpdate ==
  ASSUME NEW m \in MemType
  PROVE  /\ \A x \in SUBSET Entry : [m EXCEPT !.held.waiting = x] \in MemType
         /\ \A x \in Seq(Record) : [m EXCEPT !.held.messages = x] \in MemType
         /\ \A x \in BOOLEAN : [m EXCEPT !.held.loaded = x] \in MemType
         /\ \A x \in SUBSET Entry : [m EXCEPT !.held.snapshot = x] \in MemType
         /\ \A x \in SUBSET Publication : [m EXCEPT !.held.publishing = x] \in MemType
         /\ \A x \in BOOLEAN : [m EXCEPT !.held.dirty = x] \in MemType
         /\ \A x \in SUBSET Entry : [m EXCEPT !.held.abandoned = x] \in MemType
         /\ \A x \in BOOLEAN : [m EXCEPT !.run.turnRequested = x] \in MemType
         /\ \A x \in BOOLEAN : [m EXCEPT !.run.abortDropped = x] \in MemType
         /\ \A x \in BOOLEAN : [m EXCEPT !.run.settleOnly = x] \in MemType
         /\ \A x \in BOOLEAN : [m EXCEPT !.run.reopened = x] \in MemType
         /\ \A x \in BOOLEAN : [m EXCEPT !.run.aborted = x] \in MemType
         /\ \A x \in BOOLEAN : [m EXCEPT !.run.draining = x] \in MemType
         /\ \A x \in BOOLEAN : [m EXCEPT !.run.closed = x] \in MemType
         /\ \A x \in BOOLEAN : [m EXCEPT !.run.toolsAbandoned = x] \in MemType
         /\ \A x \in OwedRecord : [m EXCEPT !.owed.inherited = x] \in MemType
         /\ \A x \in OwedRecord : [m EXCEPT !.owed.pending = x] \in MemType
         /\ \A x \in BOOLEAN : [m EXCEPT !.owed.requestOpen = x] \in MemType
         /\ \A x \in BOOLEAN : [m EXCEPT !.owed.recoveryChecked = x] \in MemType
         /\ \A x \in BOOLEAN : [m EXCEPT !.owed.resumeRequested = x] \in MemType
         /\ \A x \in BOOLEAN : [m EXCEPT !.turn.needs = x] \in MemType
         /\ \A x \in BOOLEAN : [m EXCEPT !.turn.blocked = x] \in MemType
         /\ \A x \in {"none"} \cup Ending : [m EXCEPT !.turn.state = x] \in MemType
         /\ \A x \in Seq(Record) : [m EXCEPT !.turn.partial = x] \in MemType
         /\ \A x \in SUBSET Calls : [m EXCEPT !.turn.batch = x] \in MemType
         /\ \A x \in BOOLEAN : [m EXCEPT !.turn.resumed = x] \in MemType
         /\ \A x \in BOOLEAN : [m EXCEPT !.turn.stopped = x] \in MemType
         /\ \A x \in After : [m EXCEPT !.turn.then = x] \in MemType
<1> USE DEF MemType, HeldType, RunType, OwedType, TurnType
<1>1. \A x \in SUBSET Entry : [m EXCEPT !.held.waiting = x] \in MemType
  BY Zenon
<1>2. \A x \in Seq(Record) : [m EXCEPT !.held.messages = x] \in MemType
  BY Zenon
<1>3. \A x \in BOOLEAN : [m EXCEPT !.held.loaded = x] \in MemType
  BY Zenon
<1>4. \A x \in SUBSET Entry : [m EXCEPT !.held.snapshot = x] \in MemType
  BY Zenon
<1>5. \A x \in SUBSET Publication : [m EXCEPT !.held.publishing = x] \in MemType
  BY Zenon
<1>6. \A x \in BOOLEAN : [m EXCEPT !.held.dirty = x] \in MemType
  BY Zenon
<1>7. \A x \in SUBSET Entry : [m EXCEPT !.held.abandoned = x] \in MemType
  BY Zenon
<1>8. \A x \in BOOLEAN : [m EXCEPT !.run.turnRequested = x] \in MemType
  BY Zenon
<1>9. \A x \in BOOLEAN : [m EXCEPT !.run.abortDropped = x] \in MemType
  BY Zenon
<1>10. \A x \in BOOLEAN : [m EXCEPT !.run.settleOnly = x] \in MemType
  BY Zenon
<1>11. \A x \in BOOLEAN : [m EXCEPT !.run.reopened = x] \in MemType
  BY Zenon
<1>12. \A x \in BOOLEAN : [m EXCEPT !.run.aborted = x] \in MemType
  BY Zenon
<1>13. \A x \in BOOLEAN : [m EXCEPT !.run.draining = x] \in MemType
  BY Zenon
<1>14. \A x \in BOOLEAN : [m EXCEPT !.run.closed = x] \in MemType
  BY Zenon
<1>15. \A x \in OwedRecord : [m EXCEPT !.owed.inherited = x] \in MemType
  BY Zenon
<1>16. \A x \in OwedRecord : [m EXCEPT !.owed.pending = x] \in MemType
  BY Zenon
<1>17. \A x \in BOOLEAN : [m EXCEPT !.owed.requestOpen = x] \in MemType
  BY Zenon
<1>18. \A x \in BOOLEAN : [m EXCEPT !.owed.recoveryChecked = x] \in MemType
  BY Zenon
<1>19. \A x \in BOOLEAN : [m EXCEPT !.owed.resumeRequested = x] \in MemType
  BY Zenon
<1>20. \A x \in BOOLEAN : [m EXCEPT !.turn.needs = x] \in MemType
  BY Zenon
<1>21. \A x \in BOOLEAN : [m EXCEPT !.turn.blocked = x] \in MemType
  BY Zenon
<1>22. \A x \in {"none"} \cup Ending : [m EXCEPT !.turn.state = x] \in MemType
  BY Zenon
<1>23. \A x \in Seq(Record) : [m EXCEPT !.turn.partial = x] \in MemType
  BY Zenon
<1>24. \A x \in SUBSET Calls : [m EXCEPT !.turn.batch = x] \in MemType
  BY Zenon
<1>25. \A x \in BOOLEAN : [m EXCEPT !.turn.resumed = x] \in MemType
  BY Zenon
<1>26. \A x \in BOOLEAN : [m EXCEPT !.turn.stopped = x] \in MemType
  BY Zenon
<1>27. \A x \in After : [m EXCEPT !.turn.then = x] \in MemType
  BY Zenon
<1>28. \A x \in BOOLEAN : [m EXCEPT !.run.toolsAbandoned = x] \in MemType
  BY Zenon
<1> HIDE DEF MemType, HeldType, RunType, OwedType, TurnType
<1> QED
  BY <1>1, <1>2, <1>3, <1>4, <1>5, <1>6, <1>7, <1>8, <1>9, <1>10,
     <1>11, <1>12, <1>13, <1>14, <1>15, <1>16, <1>17, <1>18, <1>19, <1>20, <1>21, <1>22,
     <1>23, <1>24, <1>25, <1>26, <1>27, <1>28

(* What each field of the history variables holds.                          *)
LEMMA LogFields ==
  ASSUME NEW l \in LogType
  PROVE  /\ l.dropped \in SUBSET Entry
         /\ l.answerDue \in BOOLEAN
         /\ l.ran \in [Calls -> Nat]
         /\ l.excused \in SUBSET Calls
         /\ l.unowed \in SUBSET Calls
         /\ l.cancelled \in BOOLEAN
         /\ l.unnamed \in BOOLEAN
         /\ l.atAbort \in SUBSET Msgs
         /\ l.faults \in Nat
         /\ l.aborts \in Nat
         /\ l.crashes \in Nat
         /\ l.stops \in Nat
BY Zenon DEF LogType

(* Replacing one history field by a value of its type keeps the history     *)
(* well typed.                                                              *)
LEMMA LogUpdate ==
  ASSUME NEW l \in LogType
  PROVE  /\ \A x \in SUBSET Entry : [l EXCEPT !.dropped = x] \in LogType
         /\ \A x \in BOOLEAN : [l EXCEPT !.answerDue = x] \in LogType
         /\ \A x \in [Calls -> Nat] : [l EXCEPT !.ran = x] \in LogType
         /\ \A x \in SUBSET Calls : [l EXCEPT !.excused = x] \in LogType
         /\ \A x \in SUBSET Calls : [l EXCEPT !.unowed = x] \in LogType
         /\ \A x \in BOOLEAN : [l EXCEPT !.cancelled = x] \in LogType
         /\ \A x \in BOOLEAN : [l EXCEPT !.unnamed = x] \in LogType
         /\ \A x \in SUBSET Msgs : [l EXCEPT !.atAbort = x] \in LogType
         /\ \A x \in Nat : [l EXCEPT !.faults = x] \in LogType
         /\ \A x \in Nat : [l EXCEPT !.aborts = x] \in LogType
         /\ \A x \in Nat : [l EXCEPT !.crashes = x] \in LogType
         /\ \A x \in Nat : [l EXCEPT !.stops = x] \in LogType
<1> USE DEF LogType
<1>1. \A x \in SUBSET Entry : [l EXCEPT !.dropped = x] \in LogType
  BY Zenon
<1>2. \A x \in BOOLEAN : [l EXCEPT !.answerDue = x] \in LogType
  BY Zenon
<1>3. \A x \in [Calls -> Nat] : [l EXCEPT !.ran = x] \in LogType
  BY Zenon
<1>4. \A x \in SUBSET Calls : [l EXCEPT !.excused = x] \in LogType
  BY Zenon
<1>5. \A x \in BOOLEAN : [l EXCEPT !.cancelled = x] \in LogType
  BY Zenon
<1>6. \A x \in BOOLEAN : [l EXCEPT !.unnamed = x] \in LogType
  BY Zenon
<1>7. \A x \in SUBSET Msgs : [l EXCEPT !.atAbort = x] \in LogType
  BY Zenon
<1>8. \A x \in Nat : [l EXCEPT !.faults = x] \in LogType
  BY Zenon
<1>9. \A x \in Nat : [l EXCEPT !.aborts = x] \in LogType
  BY Zenon
<1>10. \A x \in Nat : [l EXCEPT !.crashes = x] \in LogType
  BY Zenon
<1>11. \A x \in Nat : [l EXCEPT !.stops = x] \in LogType
  BY Zenon
<1>12. \A x \in SUBSET Calls : [l EXCEPT !.unowed = x] \in LogType
  BY Zenon
<1> HIDE DEF LogType
<1> QED
  BY <1>1, <1>2, <1>3, <1>4, <1>5, <1>6, <1>7, <1>8, <1>9, <1>10, <1>11, <1>12

(* What each part of the durable store holds.                               *)
LEMMA StoreFields ==
  ASSUME NEW s \in StoreType
  PROVE  /\ s.queue \in SUBSET Entry
         /\ s.ids \in SUBSET Msgs
         /\ s.records \in Seq(Record)
         /\ s.owed \in OwedRecord
         /\ s.tools \in SUBSET BatchEntry
BY Zenon DEF StoreType

(* Writing one part of the store with a value of its type keeps the store   *)
(* well typed.                                                              *)
LEMMA StoreUpdate ==
  ASSUME NEW s \in StoreType
  PROVE  /\ \A x \in SUBSET Entry : [s EXCEPT !.queue = x] \in StoreType
         /\ \A x \in SUBSET Msgs : [s EXCEPT !.ids = x] \in StoreType
         /\ \A x \in Seq(Record) : [s EXCEPT !.records = x] \in StoreType
         /\ \A x \in OwedRecord : [s EXCEPT !.owed = x] \in StoreType
         /\ \A x \in SUBSET BatchEntry : [s EXCEPT !.tools = x] \in StoreType
<1> USE DEF StoreType
<1>1. \A x \in SUBSET Entry : [s EXCEPT !.queue = x] \in StoreType
  BY Zenon
<1>2. \A x \in SUBSET Msgs : [s EXCEPT !.ids = x] \in StoreType
  BY Zenon
<1>3. \A x \in Seq(Record) : [s EXCEPT !.records = x] \in StoreType
  BY Zenon
<1>4. \A x \in OwedRecord : [s EXCEPT !.owed = x] \in StoreType
  BY Zenon
<1>5. \A x \in SUBSET BatchEntry : [s EXCEPT !.tools = x] \in StoreType
  BY Zenon
<1> HIDE DEF StoreType
<1> QED
  BY <1>1, <1>2, <1>3, <1>4, <1>5


(* The shared building blocks of the run (claiming the flags of a run,      *)
(* opening a scope, abandoning the queue) keep heap and history well typed. *)
LEMMA HelperTypes ==
  ASSUME TypeOK
  PROVE  /\ Failing \in LogType
         /\ \A l \in LogType : Abandoning(l) \in LogType
         /\ \A m \in MemType, b \in BOOLEAN : NewRun(m, b) \in MemType
         /\ \A m \in MemType : Opening(m) \in MemType /\ OpenScope(m) \in MemType
         /\ Started \in PcType
<1>0. mem \in MemType /\ log \in LogType /\ pc \in PcType
  BY DEF TypeOK
<1>1. Failing \in LogType
  BY <1>0, LogFields, LogUpdate DEF Failing
<1>2. \A l \in LogType : Abandoning(l) \in LogType
  BY <1>0, MemFields, LogFields, LogUpdate DEF Abandoning
<1>3. \A m \in MemType, b \in BOOLEAN : NewRun(m, b) \in MemType
  BY MemUpdate DEF NewRun
<1>4. \A m \in MemType : Opening(m) \in MemType /\ OpenScope(m) \in MemType
  BY <1>3, MemUpdate DEF Opening, OpenScope
<1>5. Started \in PcType
  BY <1>0 DEF Started, PcType
<1> QED
  BY <1>1, <1>2, <1>3, <1>4, <1>5

(* #enterStage keeps types, whether its write commits or fails.             *)
LEMMA EnterStageType ==
  ASSUME TypeOK, NEW from, NEW to \in PcType, NEW stage \in Stages, EnterStage(from, stage, to)
  PROVE  TypeOK'
<1>0. mem \in MemType /\ store \in StoreType /\ log \in LogType
  BY DEF TypeOK
<1>1. Owing(stage) \in OwedRecord /\ Recorded(stage) \in OwedRecord
  BY <1>0, MemFields, StoreFields, OwedTypes
<1>2. mem' \in MemType
  BY <1>0, <1>1, MemUpdate DEF EnterStage
<1>3. store' \in StoreType
  BY <1>0, <1>1, StoreUpdate DEF EnterStage
<1>4. log' \in LogType
  BY <1>0, HelperTypes DEF EnterStage
<1> QED
  BY <1>2, <1>3, <1>4 DEF EnterStage, TypeOK

(* A committed offer keeps types: the new entry sorts at a position within  *)
(* the bound of the queue (#enqueueIndependently, #enqueueInTransaction).   *)
LEMMA OfferType ==
  ASSUME TypeOK, NEW m \in Msgs, NEW k \in Kinds, NEW via \in {"own", "outer"}, Offer(m, k, via)
  PROVE  TypeOK'
<1>0. mem \in MemType /\ store \in StoreType
  BY DEF TypeOK
<1>1. PICK key \in QueueKey(k) :
        LET entry == [kind |-> k, key |-> key, msg |-> m]
        IN  /\ store' = [store EXCEPT
                   !.ids = @ \cup {m},
                   !.queue = @ \cup {entry},
                   !.owed = IF via = "own" THEN Recorded("inference")
                            ELSE [@ EXCEPT !.stage = "inference"]]
            /\ mem' = [mem EXCEPT
                   !.held.publishing = {[entry |-> entry, via |-> via]},
                   !.owed.pending = IF via = "own" THEN Owing("inference") ELSE @]
  BY DEF Offer
<1> DEFINE entry == [kind |-> k, key |-> key, msg |-> m]
<1>2. entry \in Entry
  BY DEF Entry, QueueKey, Positions
<1>3. {[entry |-> entry, via |-> via]} \in SUBSET Publication
  BY <1>2 DEF Publication
<1>4. /\ Owing("inference") \in OwedRecord /\ Recorded("inference") \in OwedRecord
      /\ [store.owed EXCEPT !.stage = "inference"] \in OwedRecord
  <2>1. Owing("inference") \in OwedRecord /\ Recorded("inference") \in OwedRecord
    BY <1>0, MemFields, StoreFields, OwedTypes DEF Stages
  <2>2. [store.owed EXCEPT !.stage = "inference"] \in OwedRecord
    BY <1>0, StoreFields, Zenon DEF OwedRecord, Stages
  <2> QED
    BY <2>1, <2>2
<1> HIDE DEF entry
<1>5. mem' \in MemType
  BY <1>0, <1>1, <1>3, <1>4, MemFields, MemUpdate DEF entry
<1>6. store' \in StoreType
  BY <1>0, <1>1, <1>2, <1>4, StoreFields, StoreUpdate, ZenonT(60) DEF entry
<1> QED
  BY <1>5, <1>6 DEF Offer, TypeOK

(* Offers and their publication, aborts, drain, close, a crash and a start  *)
(* keep types.                                                              *)
LEMMA CallersType ==
  ASSUME TypeOK, Callers \/ Publishing \/ Crash \/ Start
  PROVE  TypeOK'
<1>0. mem \in MemType /\ store \in StoreType /\ log \in LogType /\ pc \in PcType
  BY DEF TypeOK
<1>1. CASE \E m \in Msgs, k \in Kinds, via \in {"own", "outer"} : Offer(m, k, via)
  BY <1>1, OfferType
<1>2. CASE Abort
  <2>1. mem' \in MemType
    BY <1>0, <1>2, MemFields, MemUpdate DEF Abort
  <2>2. Abandoning(log) \in LogType /\ log.aborts + 1 \in Nat
    BY <1>0, LogFields, HelperTypes
  <2>3. {e.msg : e \in store.queue} \in SUBSET Msgs
    BY <1>0, StoreFields DEF Entry
  <2>4. Abandoning(log).aborts = log.aborts
    BY <1>0, Zenon DEF Abandoning, LogType
  <2>5. log' \in LogType
    BY <1>2, <2>2, <2>3, <2>4, LogUpdate DEF Abort
  <2> QED
    BY <1>2, <2>1, <2>5 DEF Abort, TypeOK
<1>3. CASE Drain
  <2>1. mem' \in MemType
    BY <1>0, <1>3, MemUpdate DEF Drain
  <2>2. log.stops + 1 \in Nat
    BY <1>0, LogFields
  <2>3. log' \in LogType
    BY <1>0, <1>3, <2>2, LogUpdate DEF Drain
  <2> QED
    BY <1>3, <2>1, <2>3 DEF Drain, TypeOK
<1>4. CASE Close
  <2>0. (~mem.run.draining) \in BOOLEAN
    OBVIOUS
  <2>1. mem' \in MemType
    <3> DEFINE shut == [mem EXCEPT !.run.closed = TRUE]
               abandoned == ~mem.run.draining
    <3>1. shut \in MemType
      BY <1>0, MemUpdate
    <3>2. \A x \in BOOLEAN : [shut EXCEPT !.run.toolsAbandoned = x] \in MemType
      BY <3>1, MemUpdate
    <3>3. mem' = [shut EXCEPT !.run.toolsAbandoned = abandoned]
      BY <1>4 DEF Close
    <3> QED
      BY <2>0, <3>2, <3>3, Zenon
  <2>2. log.stops + 1 \in Nat
    BY <1>0, LogFields
  <2>3. log' \in LogType
    BY <1>0, <1>4, <2>2, LogUpdate DEF Close
  <2> QED
    BY <1>4, <2>1, <2>3 DEF Close, TypeOK
<1>5. CASE Publish
  <2>1. PICK p \in mem.held.publishing :
          mem' = Opening([mem EXCEPT !.held.waiting = @ \cup {p.entry},
                                     !.run.turnRequested = TRUE,
                                     !.held.publishing = {}])
    BY <1>5 DEF Publish
  <2>2. p.entry \in Entry
    BY <1>0, MemFields DEF Publication
  <2> DEFINE published == [mem EXCEPT !.held.waiting = @ \cup {p.entry},
                                      !.run.turnRequested = TRUE,
                                      !.held.publishing = {}]
  <2>a. mem.held.waiting \cup {p.entry} \in SUBSET Entry /\ {} \in SUBSET Publication
    BY <1>0, <2>2, MemFields
  <2>b. published \in MemType
    BY <1>0, <2>a, MemUpdate
  <2>3. mem' \in MemType
    BY <2>1, <2>b, HelperTypes
  <2>4. log' \in LogType /\ pc' \in PcType
    BY <1>0, <1>5, LogUpdate, HelperTypes DEF Publish
  <2> QED
    BY <1>5, <2>3, <2>4 DEF Publish, TypeOK
<1>6. CASE MarkCommitted
  <2>1. PICK p \in mem.held.publishing :
          mem' = [mem EXCEPT !.held.dirty = TRUE,
                             !.held.publishing = {[p EXCEPT !.via = "marked"]}]
    BY <1>6 DEF MarkCommitted
  <2>2. [p EXCEPT !.via = "marked"] \in Publication
    BY <1>0, MemFields DEF Publication
  <2>3. mem' \in MemType
    BY <1>0, <2>1, <2>2, MemUpdate, ZenonT(60)
  <2> QED
    BY <1>6, <2>3 DEF MarkCommitted, TypeOK
<1>7. CASE ActivateCommitted
  <2>1. store.owed \in OwedRecord /\ store.owed.open \in BOOLEAN
    BY <1>0, StoreFields DEF OwedRecord
  <2> DEFINE activated == [mem EXCEPT
                 !.owed.pending = IF pc = "idle" THEN store.owed ELSE @,
                 !.owed.requestOpen = IF pc = "idle" THEN store.owed.open ELSE @,
                 !.run.turnRequested = TRUE,
                 !.held.publishing = {}]
  <2>a. activated \in MemType
    BY <1>0, <2>1, MemFields, MemUpdate, ZenonT(60)
  <2>2. mem' \in MemType
    BY <1>7, <2>a, HelperTypes DEF ActivateCommitted
  <2>3. log' \in LogType /\ pc' \in PcType
    BY <1>0, <1>7, LogUpdate, HelperTypes DEF ActivateCommitted
  <2> QED
    BY <1>7, <2>2, <2>3 DEF ActivateCommitted, TypeOK
<1>8. CASE Crash
  <2>1. mem' \in MemType
    BY <1>0, <1>8, StoreFields, FreshType DEF Crash
  <2>a. log.crashes + 1 \in Nat
    BY <1>0, LogFields
  <2>2. log' \in LogType
    BY <1>0, <1>8, <2>a, LogUpdate DEF Crash
  <2> QED
    BY <1>8, <2>1, <2>2 DEF Crash, TypeOK, PcType
<1>9. CASE Start
  <2>1. mem' \in MemType /\ pc' \in PcType
    BY <1>0, <1>9, MemUpdate, HelperTypes DEF Start
  <2> QED
    BY <1>9, <2>1 DEF Start, TypeOK
<1> QED
  BY <1>1, <1>2, <1>3, <1>4, <1>5, <1>6, <1>7, <1>8, <1>9 DEF Callers, Publishing

(* Opening a turn (#runTurn up to its load) keeps types.                    *)
LEMMA BeginTurnType ==
  ASSUME TypeOK, NEW m \in MemType, BeginTurn(m)
  PROVE  mem' \in MemType /\ log' \in LogType /\ pc' \in PcType
<1>1. mem' \in MemType
  BY MemFields, MemUpdate, ZenonT(60) DEF BeginTurn, After
<1>2. log' \in LogType
  BY LogUpdate DEF BeginTurn, TypeOK
<1> QED
  BY <1>1, <1>2 DEF BeginTurn, PcType

(* The opening and loading steps of a run (#runTurns, #runLoops,            *)
(* #loadHistory) keep types.                                                *)
LEMMA OpeningStepType ==
  ASSUME TypeOK, OpeningStep \/ LoadStep
  PROVE  TypeOK'
<1>0. mem \in MemType /\ store \in StoreType /\ log \in LogType
  BY DEF TypeOK
<1>1. CASE BeginRun
  BY <1>0, <1>1, MemUpdate, HelperTypes DEF BeginRun, TypeOK, PcType, After
<1>2. CASE SettleLoaded
  BY <1>0, <1>2, HelperTypes DEF SettleLoaded, TypeOK, PcType
<1>3. CASE LoopStage
  BY <1>3, EnterStageType DEF LoopStage, Stages, PcType
<1>4. CASE OpenTurn
  BY <1>0, <1>4, BeginTurnType DEF OpenTurn, TypeOK, PcType
<1>5. CASE ReadHistory
  BY <1>0, <1>5, StoreFields, MemUpdate DEF ReadHistory, TypeOK, PcType
<1>6. CASE AssignHistory
  <2>1. /\ store.records \in Seq(Record)
        /\ {t.call : t \in store.tools} \in SUBSET Calls
        /\ Unanswered(store.records) \in SUBSET Calls
    BY <1>0, StoreFields DEF BatchEntry, Unanswered
  <2>2. mem' \in MemType
    BY <1>0, <1>6, <2>1, MemFields, MemUpdate, ZenonT(60) DEF AssignHistory
  <2> QED
    BY <1>6, <2>2 DEF AssignHistory, TypeOK, PcType
<1>7. CASE LoadFails
  <2>1. Unanswered(store.records) \in SUBSET Calls
    BY DEF Unanswered
  <2>a. mem.held.abandoned \cup mem.held.waiting \in SUBSET Entry
    BY <1>0, MemFields
  <2>2. mem' \in MemType
    <3>1. [mem EXCEPT !.held.snapshot = {}] \in MemType
      BY <1>0, MemUpdate
    <3>2. [mem EXCEPT !.held.snapshot = {},
                      !.held.abandoned = @ \cup mem.held.waiting] \in MemType
      BY <3>1, <2>a, MemFields, MemUpdate
    <3> QED
      BY <1>7, <3>1, <3>2, Zenon DEF LoadFails
  <2>b. Failing \in LogType /\ Abandoning(Failing) \in LogType
    BY HelperTypes
  <2>c. Abandoning(Failing).excused \cup Unanswered(store.records) \in SUBSET Calls
    BY <2>1, <2>b, LogFields
  <2>3. log' \in LogType
    BY <1>7, <2>b, <2>c, LogUpdate DEF LoadFails
  <2> QED
    BY <1>7, <2>2, <2>3 DEF LoadFails, TypeOK, PcType
<1>8. CASE TurnStage
  BY <1>8, EnterStageType DEF TurnStage, Stages, PcType
<1> QED
  BY <1>1, <1>2, <1>3, <1>4, <1>5, <1>6, <1>7, <1>8 DEF OpeningStep, LoadStep

(* The steps of the inference cycle up to the provider call                 *)
(* (#runInferenceAttempt, #consumeQueue, #requestInference) keep types.     *)
LEMMA CycleStepType ==
  ASSUME TypeOK, CycleStep
  PROVE  TypeOK'
<1>0. mem \in MemType /\ store \in StoreType /\ log \in LogType
  BY DEF TypeOK
<1>1. CASE BeginInference
  <2>1. \A open, needs \in BOOLEAN :
          [mem EXCEPT !.owed.requestOpen = open, !.turn.state = "none",
                      !.turn.stopped = FALSE, !.turn.needs = needs] \in MemType
    BY <1>0, MemUpdate, ZenonT(60)
  <2>2. /\ (mem.owed.requestOpen /\ ~InheritedRequestAnswered) \in BOOLEAN
        /\ (mem.turn.batch # {}) \in BOOLEAN
    OBVIOUS
  <2>3. mem' \in MemType
    BY <1>0, <1>1, <2>1, <2>2, Zenon DEF BeginInference
  <2> QED
    BY <1>1, <2>3 DEF BeginInference, TypeOK, PcType
<1>2. CASE Recover
  BY <1>0, <1>2, MemFields, MemUpdate DEF Recover, TypeOK, PcType
<1>3. CASE StopCycle
  BY <1>3 DEF StopCycle, TypeOK, PcType
<1>4. CASE RefreshCommittedQueues
  BY <1>0, <1>4, MemFields, StoreFields, MemUpdate DEF RefreshCommittedQueues, TypeOK, PcType
<1>5. CASE \E k \in Kinds : ConsumeQueue(k)
  <2>1. PICK k \in Kinds : ConsumeQueue(k)
    BY <1>5
  <2>2. PICK e \in Oldest(Consumable(k)) :
          /\ store' = [store EXCEPT
                 !.queue = @ \ {e},
                 !.records = Append(@, User(e.msg)),
                 !.owed = Recorded("inference")]
          /\ mem' = [mem EXCEPT
                 !.held.waiting = @ \ {e},
                 !.held.messages = Append(@, User(e.msg)),
                 !.owed.pending = Owing("inference"),
                 !.run.turnRequested = StillRequested(mem.held.waiting \ {e})]
    BY <2>1 DEF ConsumeQueue
  <2>3. User(e.msg) \in Record
    <3>1. e \in Entry
      BY <1>0, StoreFields DEF Oldest, Consumable, OfKind
    <3> QED
      BY <3>1, RecordTypes DEF Entry
  <2>4. Owing("inference") \in OwedRecord /\ Recorded("inference") \in OwedRecord
    BY <1>0, MemFields, StoreFields, OwedTypes DEF Stages
  <2>5. StillRequested(mem.held.waiting \ {e}) \in BOOLEAN
    BY <1>0, MemFields DEF StillRequested
  <2>6. mem' \in MemType
    BY <1>0, <2>2, <2>3, <2>4, <2>5, MemFields, MemUpdate, ConversationTypes
  <2>7. store' \in StoreType
    BY <1>0, <2>2, <2>3, <2>4, StoreFields, StoreUpdate, ConversationTypes
  <2>8. log' \in LogType
    BY <1>0, <2>1, LogUpdate, MemFields DEF ConsumeQueue
  <2> QED
    BY <2>1, <2>6, <2>7, <2>8 DEF ConsumeQueue, TypeOK, PcType
<1>6. CASE NothingQueued
  BY <1>6 DEF NothingQueued, TypeOK, PcType
<1>7. CASE LeaveRequest
  BY <1>7 DEF LeaveRequest, TypeOK, PcType
<1>8. CASE RequestInference
  <2> DEFINE notice == IF EndsWithResponse(mem.held.messages) THEN <<System>> ELSE <<>>
  <2>1. /\ mem.held.messages \in Seq(Record) /\ store.records \in Seq(Record)
        /\ notice \in Seq(Record) /\ <<>> \in Seq(Record)
    BY <1>0, MemFields, StoreFields, ConversationTypes
  <2>2. Requesting \in OwedRecord
    BY DEF Requesting, OwedRecord, Stages
  <2>3. /\ mem.held.messages \o notice \in Seq(Record)
        /\ store.records \o notice \in Seq(Record)
    BY <2>1, ConversationTypes
  <2>a. \/ mem' = [mem EXCEPT
               !.owed.requestOpen = TRUE, !.owed.pending = Requesting,
               !.held.messages = @ \o notice, !.turn.partial = <<>>]
        \/ mem' = [mem EXCEPT !.owed.requestOpen = TRUE, !.turn.partial = <<>>]
    BY <1>8, Zenon DEF RequestInference
  <2>b. \/ store' = [store EXCEPT
               !.owed = IF mem.owed.pending = Requesting THEN @ ELSE Requesting,
               !.records = @ \o notice]
        \/ store' = store
    BY <1>8, Zenon DEF RequestInference
  <2> HIDE DEF notice
  <2>4. mem' \in MemType
    <3>1. [mem EXCEPT !.owed.requestOpen = TRUE, !.owed.pending = Requesting] \in MemType
      BY <1>0, <2>2, MemUpdate
    <3>2. [mem EXCEPT
               !.owed.requestOpen = TRUE, !.owed.pending = Requesting,
               !.held.messages = @ \o notice] \in MemType
      BY <3>1, <2>3, MemUpdate, Zenon
    <3>3. [mem EXCEPT
               !.owed.requestOpen = TRUE, !.owed.pending = Requesting,
               !.held.messages = @ \o notice, !.turn.partial = <<>>] \in MemType
      BY <3>2, <2>1, MemUpdate, Zenon
    <3>4. [mem EXCEPT !.owed.requestOpen = TRUE, !.turn.partial = <<>>] \in MemType
      BY <1>0, <2>1, MemUpdate
    <3> QED
      BY <2>a, <3>3, <3>4
  <2>5. store' \in StoreType
    <3>1. [store EXCEPT !.owed = IF mem.owed.pending = Requesting THEN @ ELSE Requesting]
            \in StoreType
      BY <1>0, <2>2, StoreFields, StoreUpdate
    <3>2. [store EXCEPT
               !.owed = IF mem.owed.pending = Requesting THEN @ ELSE Requesting,
               !.records = @ \o notice] \in StoreType
      BY <1>0, <3>1, <2>3, StoreUpdate, Zenon
    <3> QED
      BY <1>0, <2>b, <3>2
  <2>6. log' \in LogType
    BY <1>0, <1>8, HelperTypes, LogUpdate DEF RequestInference
  <2> QED
    BY <1>8, <2>4, <2>5, <2>6 DEF RequestInference, TypeOK, PcType
<1>9. CASE OpenStream
  BY <1>9 DEF OpenStream, TypeOK, PcType
<1> QED
  BY <1>1, <1>2, <1>3, <1>4, <1>5, <1>6, <1>7, <1>8, <1>9 DEF CycleStep

(* The steps of a response and of the settling of its open calls (#collect, *)
(* #settleUnansweredCalls) keep types.                                      *)
LEMMA ResponseStepType ==
  ASSUME TypeOK, ResponseStep
  PROVE  TypeOK'
<1>0. mem \in MemType /\ store \in StoreType /\ log \in LogType
  BY DEF TypeOK
<1>a. \A stage \in Stages : Owing(stage) \in OwedRecord /\ Recorded(stage) \in OwedRecord
  BY <1>0, MemFields, StoreFields, OwedTypes
<1>b. "tools" \in Stages /\ "inference" \in Stages
  BY DEF Stages
<1>1. CASE StreamBlock
  <2>1. PICK r \in {Text} \cup {Call(c) : c \in Calls} :
          /\ store' = [store EXCEPT !.records = Append(@, r)]
          /\ mem' = [mem EXCEPT !.turn.partial = Append(@, r)]
    BY <1>1 DEF StreamBlock
  <2>2. r \in Record
    BY RecordTypes
  <2>3. mem' \in MemType
    BY <1>0, <2>1, <2>2, MemFields, MemUpdate, ConversationTypes
  <2>4. store' \in StoreType
    BY <1>0, <2>1, <2>2, StoreFields, StoreUpdate, ConversationTypes
  <2>5. log' \in LogType
    <3>1. log.unowed \in SUBSET Calls /\ \A c \in Calls : Call(c).ref = c
      BY <1>0, LogFields DEF Call
    <3>2. PICK q \in {Text} \cup {Call(c) : c \in Calls} :
            log' = [log EXCEPT !.unowed =
                      IF q.type = "call" /\ ~LateWork THEN @ \cup {q.ref} ELSE @]
      BY <1>1, Zenon DEF StreamBlock
    <3>3. PICK x : x = IF q.type = "call" /\ ~LateWork THEN log.unowed \cup {q.ref} ELSE log.unowed
      OBVIOUS
    <3>4. x \in SUBSET Calls
      BY <3>1, <3>2, <3>3 DEF Text
    <3>5. log' = [log EXCEPT !.unowed = x]
      BY <3>2, <3>3, Zenon
    <3> QED
      BY <1>0, <3>4, <3>5, LogUpdate
  <2> QED
    BY <1>1, <2>3, <2>4, <2>5 DEF StreamBlock, TypeOK
<1>2. CASE StreamThrows
  <2>1. mem' \in MemType
    BY <1>0, <1>2, MemUpdate DEF StreamThrows, After
  <2>2. Failing \in LogType /\ Failing.excused \cup Unanswered(store.records) \in SUBSET Calls
    BY HelperTypes, LogFields DEF Unanswered
  <2>3. log' \in LogType
    BY <1>2, <2>2, LogUpdate DEF StreamThrows
  <2> QED
    BY <1>2, <2>1, <2>3 DEF StreamThrows, TypeOK, PcType
<1>3. CASE TurnThrows
  <2>1. (mem.owed.requestOpen \/ pc = "request") \in BOOLEAN /\ "catch" \in After
    BY DEF After
  <2>2. mem' \in MemType
    BY <1>0, <1>3, <2>1, MemUpdate, Zenon DEF TurnThrows
  <2> QED
    BY <1>3, <2>2, HelperTypes DEF TurnThrows, TypeOK, PcType
<1>4. CASE \E state \in Ending : StreamEnds(state)
  <2>1. PICK state \in Ending : StreamEnds(state)
    BY <1>4
  <2>2. \A b \in BOOLEAN :
          [mem EXCEPT !.turn.state = state, !.owed.requestOpen = FALSE,
                      !.run.turnRequested = b] \in MemType
    BY <1>0, MemUpdate
  <2>3. mem' \in MemType
    BY <2>1, <2>2, Zenon DEF StreamEnds
  <2>4. log' \in LogType
    BY <1>0, <2>1, LogUpdate DEF StreamEnds
  <2> QED
    BY <2>1, <2>3, <2>4 DEF StreamEnds, TypeOK, PcType
<1>5. CASE EndInference
  <2> DEFINE calls == {c \in Calls : Occurs(Call(c), mem.turn.partial)}
             ended == [mem EXCEPT
                !.held.messages = Said, !.turn.partial = <<>>, !.turn.needs = FALSE,
                !.turn.batch = calls, !.turn.resumed = FALSE, !.turn.then = "response"]
  <2>1. Said \in Seq(Record) /\ <<>> \in Seq(Record) /\ "response" \in After
    BY <1>0, MemFields, ConversationTypes DEF Said, After
  <2>2. ASSUME NEW c \in SUBSET Calls, NEW s \in Seq(Record)
        PROVE  [mem EXCEPT
             !.held.messages = s, !.turn.partial = <<>>, !.turn.needs = FALSE,
             !.turn.batch = c, !.turn.resumed = FALSE, !.turn.then = "response"] \in MemType
    BY <1>0, <2>1, MemUpdate
  <2>3. ended \in MemType
    BY <2>1, <2>2, Zenon
  <2>4. \/ mem' = [ended EXCEPT !.owed.pending = Owing("inference")]
        \/ mem' = ended
    BY <1>5, Zenon DEF EndInference
  <2> HIDE DEF ended
  <2>5. mem' \in MemType
    BY <1>a, <1>b, <2>3, <2>4, MemUpdate
  <2>6. store' \in StoreType /\ log' \in LogType
    BY <1>0, <1>5, <1>a, <1>b, StoreUpdate, HelperTypes DEF EndInference
  <2> QED
    BY <1>5, <2>5, <2>6 DEF EndInference, TypeOK, PcType
<1>6. CASE SettleCalls
  <2> DEFINE owed == Unanswered(mem.held.messages)
  <2>1. /\ owed \in SUBSET Calls
        /\ store.tools \cup {Entered(c, TRUE) : c \in owed} \in SUBSET BatchEntry
    BY <1>0, StoreFields, RecordTypes DEF Unanswered
  <2>2. mem' \in MemType
    <3>1. [mem EXCEPT !.turn.blocked = TRUE] \in MemType
      BY <1>0, MemUpdate
    <3>2. [mem EXCEPT !.owed.pending = Owing("tools"), !.turn.batch = owed] \in MemType
      BY <1>0, <1>a, <1>b, <2>1, MemUpdate
    <3> QED
      BY <1>0, <1>6, <3>1, <3>2, Zenon DEF SettleCalls
  <2>3. store' \in StoreType
    <3>1. [store EXCEPT
             !.tools = @ \cup {Entered(c, TRUE) : c \in owed},
             !.owed = Recorded("tools")] \in StoreType
      BY <1>0, <1>a, <1>b, <2>1, StoreUpdate, Zenon
    <3> QED
      BY <1>0, <1>6, <3>1, Zenon DEF SettleCalls
  <2>4. log' \in LogType
    BY <1>0, <1>6, HelperTypes DEF SettleCalls
  <2>5. pc' \in PcType
    BY <1>6 DEF SettleCalls, AfterResponse, PcType
  <2> QED
    BY <2>2, <2>3, <2>4, <2>5 DEF TypeOK
<1>7. CASE AppendResults
  <2>1. CASE \E c \in mem.turn.batch :
               /\ store' = [store EXCEPT
                     !.records = Append(@, Result(c)),
                     !.tools = WithoutEntry(c),
                     !.owed = Recorded("inference")]
               /\ mem' = [mem EXCEPT
                     !.held.messages = Append(@, Result(c)),
                     !.owed.pending = Owing("inference")]
               /\ UNCHANGED log
    <3>1. PICK c \in mem.turn.batch :
               /\ store' = [store EXCEPT
                     !.records = Append(@, Result(c)),
                     !.tools = WithoutEntry(c),
                     !.owed = Recorded("inference")]
               /\ mem' = [mem EXCEPT
                     !.held.messages = Append(@, Result(c)),
                     !.owed.pending = Owing("inference")]
      BY <2>1
    <3>2. Result(c) \in Record /\ WithoutEntry(c) \in SUBSET BatchEntry
      BY <1>0, MemFields, StoreFields, RecordTypes DEF WithoutEntry
    <3>3. mem' \in MemType
      BY <1>0, <1>a, <1>b, <3>1, <3>2, MemFields, MemUpdate, ConversationTypes
    <3>4. store' \in StoreType
      BY <1>0, <1>a, <1>b, <3>1, <3>2, StoreFields, StoreUpdate, ConversationTypes
    <3> QED
      BY <1>7, <2>1, <3>3, <3>4 DEF AppendResults, AfterResponse, TypeOK, PcType
  <2>2. CASE mem' = [mem EXCEPT !.turn.blocked = TRUE] /\ store' = store /\ log' = Failing
    BY <1>0, <1>7, <2>2, MemUpdate, HelperTypes DEF AppendResults, AfterResponse, TypeOK, PcType
  <2> QED
    BY <1>7, <2>1, <2>2 DEF AppendResults
<1> QED
  BY <1>1, <1>2, <1>3, <1>4, <1>5, <1>6, <1>7 DEF ResponseStep

(* The steps of the tool batch (#dispatchToolBatch, #executeToolCall) keep  *)
(* types.                                                                   *)
LEMMA ToolStepType ==
  ASSUME TypeOK, ToolStep
  PROVE  TypeOK'
<1>0. mem \in MemType /\ store \in StoreType /\ log \in LogType
  BY DEF TypeOK
<1>a. \A stage \in Stages : Owing(stage) \in OwedRecord /\ Recorded(stage) \in OwedRecord
  BY <1>0, MemFields, StoreFields, OwedTypes
<1>b. "tools" \in Stages /\ "inference" \in Stages
  BY DEF Stages
<1>1. CASE Dispatch
  <2>1. store.tools \cup {Entered(c, FALSE) : c \in mem.turn.batch} \in SUBSET BatchEntry
    BY <1>0, MemFields, StoreFields, RecordTypes
  <2>2. mem' \in MemType
    BY <1>0, <1>1, <1>a, <1>b, MemUpdate DEF Dispatch
  <2>3. store' \in StoreType
    <3>1. \A t \in SUBSET BatchEntry :
            [store EXCEPT !.tools = t, !.owed = Recorded("tools")] \in StoreType
      BY <1>0, <1>a, <1>b, StoreUpdate
    <3> QED
      BY <1>0, <1>1, <2>1, <3>1, StoreFields, Zenon DEF Dispatch
  <2>4. log' \in LogType
    <3>1. \A b \in BOOLEAN : [Failing EXCEPT !.unnamed = b] \in LogType
      BY <1>0, HelperTypes, LogUpdate
    <3>2. Failing.unnamed \in BOOLEAN
      BY <1>0, HelperTypes, LogFields
    <3>3. (Failing.unnamed \/ ~LateWork) \in BOOLEAN
      BY <3>2
    <3> QED
      BY <1>0, <1>1, <3>1, <3>3 DEF Dispatch
  <2> QED
    BY <1>1, <2>2, <2>3, <2>4 DEF Dispatch, TypeOK, PcType
<1>2. CASE Execute
  <2>1. \A c \in Calls : [log EXCEPT !.ran[c] = @ + 1] \in LogType
    <3> SUFFICES ASSUME NEW c \in Calls
                 PROVE  [log EXCEPT !.ran = [log.ran EXCEPT ![c] = @ + 1]] \in LogType
      BY Zenon
    <3>1. [log.ran EXCEPT ![c] = @ + 1] \in [Calls -> Nat]
      BY <1>0, LogFields
    <3> QED
      BY <1>0, <3>1, LogUpdate
  <2>2. mem' \in MemType
    <3>1. \A b \in BOOLEAN : [mem EXCEPT !.turn.stopped = b] \in MemType
      BY <1>0, MemUpdate
    <3> QED
      BY <1>0, <1>2, <3>1, Zenon DEF Execute
  <2>3. log' \in LogType
    BY <1>0, <1>2, <2>1, MemFields DEF Execute
  <2> QED
    BY <1>2, <2>2, <2>3 DEF Execute, TypeOK, PcType
<1>3. CASE ToolCommitsEarly
  <2>1. PICK t \in store.tools :
          store' = [store EXCEPT !.tools = (@ \ {t}) \cup {[t EXCEPT !.committed = TRUE]}]
    BY <1>3 DEF ToolCommitsEarly
  <2>2. [t EXCEPT !.committed = TRUE] \in BatchEntry
    BY <1>0, StoreFields DEF BatchEntry
  <2>3. store' \in StoreType
    BY <1>0, <2>1, <2>2, StoreFields, StoreUpdate
  <2> QED
    BY <1>3, <2>3 DEF ToolCommitsEarly, TypeOK
<1>4. CASE ToolSettles
  <2>1. \A b \in BOOLEAN : [mem EXCEPT !.turn.stopped = b] \in MemType
    BY <1>0, MemUpdate
  <2>2. mem' \in MemType
    BY <1>4, <2>1, Zenon DEF ToolSettles
  <2> QED
    BY <1>4, <2>2 DEF ToolSettles, TypeOK, PcType
<1>5. CASE ToolReloads
  BY <1>5 DEF ToolReloads, BatchCutShort, TypeOK, PcType
<1>6. CASE CommitResult
  <2>1. PICK c \in mem.turn.batch :
          /\ store' = [store EXCEPT
                !.records = Append(@, Result(c)),
                !.tools = WithoutEntry(c)]
          /\ mem' = [mem EXCEPT !.held.messages = Append(@, Result(c))]
    BY <1>6 DEF CommitResult
  <2>2. Result(c) \in Record /\ WithoutEntry(c) \in SUBSET BatchEntry
    BY <1>0, MemFields, StoreFields, RecordTypes DEF WithoutEntry
  <2>3. mem' \in MemType
    BY <1>0, <2>1, <2>2, MemFields, MemUpdate, ConversationTypes
  <2>4. store' \in StoreType
    BY <1>0, <2>1, <2>2, StoreFields, StoreUpdate, ConversationTypes
  <2>5. log' \in LogType
    BY <1>0, <1>6, LogUpdate, MemFields DEF CommitResult
  <2> QED
    BY <1>6, <2>3, <2>4, <2>5 DEF CommitResult, TypeOK, PcType
<1>7. CASE EndBatch
  <2>1. mem' \in MemType
    BY <1>0, <1>7, <1>a, <1>b, MemUpdate DEF EndBatch
  <2>2. store' \in StoreType
    BY <1>0, <1>7, <1>a, <1>b, StoreUpdate DEF EndBatch
  <2> QED
    BY <1>7, <2>1, <2>2 DEF EndBatch, BatchCutShort, TypeOK, PcType
<1> QED
  BY <1>1, <1>2, <1>3, <1>4, <1>5, <1>6, <1>7 DEF ToolStep

(* The steps that end a turn, a loop and the run (#appendFailure,           *)
(* #enterSettlementStage, #settleRecord, the finally of #startRun) keep     *)
(* types.                                                                   *)
LEMMA ClosingStepType ==
  ASSUME TypeOK, ClosingStep
  PROVE  TypeOK'
<1>0. mem \in MemType /\ store \in StoreType /\ log \in LogType
  BY DEF TypeOK
<1>1. CASE AppendFailure
  <2>a. Append(mem.held.messages, System) \in Seq(Record)
    BY <1>0, MemFields, RecordTypes, ConversationTypes
  <2>1. mem' \in MemType
    BY <1>0, <1>1, <2>a, MemUpdate, ZenonT(60) DEF AppendFailure
  <2>2. store' \in StoreType
    BY <1>0, <1>1, StoreFields, StoreUpdate, RecordTypes, ConversationTypes, ZenonT(60) DEF AppendFailure
  <2>3. log' \in LogType
    BY <1>0, <1>1, HelperTypes DEF AppendFailure
  <2> QED
    BY <1>1, <2>1, <2>2, <2>3 DEF AppendFailure, TypeOK, PcType
<1>2. CASE NothingToNote
  BY <1>2 DEF NothingToNote, TypeOK, PcType
<1>3. CASE FailTurn
  <2>1. mem.held.abandoned \cup mem.held.waiting \in SUBSET Entry
    BY <1>0, MemFields
  <2>2. \A b \in BOOLEAN, a \in SUBSET Entry :
          [mem EXCEPT !.run.turnRequested = b, !.held.abandoned = a] \in MemType
    BY <1>0, MemUpdate
  <2>3. StillRequested(mem.held.waiting) \in BOOLEAN
    BY <1>0, MemFields DEF StillRequested
  <2>4. mem' \in MemType
    BY <1>3, <2>1, <2>2, <2>3, Zenon DEF FailTurn
  <2> QED
    BY <1>0, <1>3, <2>4, HelperTypes DEF FailTurn, TypeOK, PcType
<1>4. CASE LeaveRun
  BY <1>4 DEF LeaveRun, TypeOK, PcType
<1>5. CASE CloseTurn
  BY <1>5, EnterStageType DEF CloseTurn, Stages, PcType
<1>6. CASE NextTurn
  <2>1. OpenScope(mem) \in MemType
    BY <1>0, HelperTypes
  <2> QED
    BY <1>0, <1>6, <2>1, BeginTurnType DEF NextTurn, TypeOK, PcType
<1>7. CASE CloseLoop
  BY <1>7, EnterStageType DEF CloseLoop, Stages, PcType
<1>8. CASE NextLoop
  BY <1>0, <1>8, HelperTypes DEF NextLoop, TypeOK, PcType
<1>9. CASE EnterSettlement
  <2>1. Owing("settlement") \in OwedRecord
    BY <1>0, MemFields, StoreFields, OwedTypes DEF Stages
  <2>2. mem' \in MemType
    BY <1>0, <1>9, <2>1, MemUpdate DEF EnterSettlement
  <2>3. store' \in StoreType
    BY <1>0, <1>9, <2>1, StoreUpdate DEF EnterSettlement
  <2>4. log' \in LogType
    BY <1>0, <1>9, HelperTypes DEF EnterSettlement
  <2> QED
    BY <1>9, <2>2, <2>3, <2>4 DEF EnterSettlement, TypeOK, PcType
<1>10. CASE Settle
  <2>1. SettledRecord \in OwedRecord /\ LateWork \in BOOLEAN
    BY DEF SettledRecord, Reopened, NotOwed, OwedRecord, Stages, LateWork
  <2>2. \A b \in BOOLEAN : \A o \in OwedRecord :
          [mem EXCEPT !.owed.pending = o, !.owed.requestOpen = FALSE,
                      !.run.reopened = b] \in MemType
    BY <1>0, MemUpdate
  <2>3. mem' \in MemType
    BY <1>0, <1>10, <2>1, <2>2, ZenonT(60) DEF Settle
  <2>4. store' \in StoreType
    BY <1>0, <1>10, <2>1, StoreUpdate DEF Settle
  <2>5. log' \in LogType
    BY <1>0, <1>10, HelperTypes DEF Settle
  <2> QED
    BY <1>10, <2>3, <2>4, <2>5 DEF Settle, TypeOK, PcType
<1>11. CASE Finally
  <2>1. /\ [mem EXCEPT !.run.reopened = FALSE] \in MemType
        /\ [mem EXCEPT !.run.reopened = FALSE, !.run.turnRequested = TRUE] \in MemType
        /\ [mem EXCEPT !.run.reopened = FALSE, !.run.settleOnly = FALSE] \in MemType
    BY <1>0, MemUpdate
  <2>2. mem' \in MemType
    BY <1>11, <2>1, HelperTypes DEF Finally
  <2>3. log' \in LogType
    BY <1>0, <1>11, LogUpdate DEF Finally
  <2> QED
    BY <1>11, <2>2, <2>3 DEF Finally, TypeOK, PcType
<1> QED
  BY <1>1, <1>2, <1>3, <1>4, <1>5, <1>6, <1>7, <1>8, <1>9, <1>10, <1>11 DEF ClosingStep

(* Type correctness: in every reachable state of the agent, store, heap,    *)
(* program counter and history hold values the code can give them.          *)
THEOREM TypeCorrect == Spec => []TypeOK
<1>1. Init => TypeOK
  BY InitType
<1>2. TypeOK /\ [Next]_vars => TypeOK'
  <2> SUFFICES ASSUME TypeOK, [Next]_vars PROVE TypeOK'
    OBVIOUS
  <2>1. CASE Rest \/ UNCHANGED vars
    BY <2>1 DEF Rest, vars, TypeOK
  <2>2. CASE RunStep
    BY <2>2, OpeningStepType, CycleStepType, ResponseStepType, ToolStepType, ClosingStepType
       DEF RunStep
  <2> QED
    BY <2>1, <2>2, CallersType DEF Next
<1> QED
  BY <1>1, <1>2, PTL DEF Spec

(***************************************************************************)
(* QueuedWorkIsOwed.                                                       *)
(***************************************************************************)
WorkStages == {"inference", "tools"}

(* A step that queues no message, leaves the record alone or records a work *)
(* stage, and abandons only what is dropped.                                *)
Harmless ==
  /\ store'.queue \subseteq store.queue
  /\ \/ store'.owed = store.owed /\ mem'.owed.pending = mem.owed.pending
     \/ \E stage \in WorkStages :
           store'.owed = Recorded(stage) /\ mem'.owed.pending = Owing(stage)
  /\ log.dropped \subseteq log'.dropped
  /\ mem'.held.abandoned \subseteq mem.held.abandoned \cup log'.dropped

(* A record written for a work stage leaves the store owing work even when  *)
(* the write is skipped, because the cached record never owes more than the *)
(* store (#recordPending).                                                  *)
LEMMA RecordedOwesWork ==
  ASSUME CachedWorkIsOwed, NEW stage \in WorkStages
  PROVE  Recorded(stage).stage \in WorkStages /\ Owing(stage).stage \in WorkStages
BY DEF Recorded, Owing, CachedWorkIsOwed, LateWork, WorkStages

(* A harmless step preserves the invariant of the pending record.           *)
LEMMA HarmlessPreserves ==
  ASSUME OwedInv, Harmless
  PROVE  OwedInv'
<1>1. CASE store'.owed = store.owed /\ mem'.owed.pending = mem.owed.pending
  BY <1>1 DEF OwedInv, Harmless, SettledQueueDropped, AbandonedIsDropped, CachedWorkIsOwed,
     LateWork
<1>2. ASSUME NEW stage \in WorkStages,
             store'.owed = Recorded(stage), mem'.owed.pending = Owing(stage)
      PROVE  OwedInv'
  BY <1>2, RecordedOwesWork DEF OwedInv, Harmless, SettledQueueDropped, AbandonedIsDropped,
     CachedWorkIsOwed, LateWork, WorkStages
<1> QED
  BY <1>1, <1>2 DEF Harmless

(* #enterStage at a work stage is harmless: it only records that work is    *)
(* owed.                                                                    *)
LEMMA EnterStageHarmless ==
  ASSUME TypeOK, NEW from, NEW to, NEW stage \in WorkStages, EnterStage(from, stage, to)
  PROVE  Harmless
<1> USE DEF TypeOK, StoreType, MemType, HeldType, RunType, OwedType, TurnType, LogType
<1>1. mem'.held.abandoned = mem.held.abandoned
  BY DEF EnterStage
<1>2. store'.queue = store.queue /\ log'.dropped = log.dropped
  BY DEF EnterStage, Failing
<1>3. \/ store'.owed = store.owed /\ mem'.owed.pending = mem.owed.pending
      \/ store'.owed = Recorded(stage) /\ mem'.owed.pending = Owing(stage)
  BY DEF EnterStage
<1> QED
  BY <1>1, <1>2, <1>3 DEF Harmless

(* Starting a run or opening a scope leaves the queues and the pending      *)
(* record of the heap alone.                                                *)
LEMMA OpeningKeeps ==
  ASSUME NEW m \in MemType
  PROVE  /\ Opening(m).held = m.held /\ Opening(m).owed = m.owed
         /\ OpenScope(m).held = m.held /\ OpenScope(m).owed = m.owed
BY DEF Opening, NewRun, OpenScope, MemType, RunType

(* Offers, their publication, aborts, drain, close, a crash and a start     *)
(* preserve the invariant: an offer commits its record with its queue       *)
(* entry, and an owner coming up caches the stored record.                  *)
LEMMA CallersPreserve ==
  ASSUME TypeOK, OwedInv, Callers \/ Publishing \/ Crash \/ Start
  PROVE  OwedInv'
<1> USE DEF TypeOK, StoreType, MemType, HeldType, RunType, OwedType, TurnType, LogType
<1>1. ASSUME NEW m \in Msgs, NEW k \in Kinds, NEW via \in {"own", "outer"}, Offer(m, k, via)
      PROVE  OwedInv'
  <2>1. mem'.held.abandoned = mem.held.abandoned /\ log' = log
    BY <1>1 DEF Offer
  <2>2. CASE via = "own"
    <3>1. store'.owed = Recorded("inference") /\ mem'.owed.pending = Owing("inference")
      BY <1>1, <2>2 DEF Offer
    <3> QED
      BY <2>1, <3>1, RecordedOwesWork DEF OwedInv, SettledQueueDropped, AbandonedIsDropped,
         CachedWorkIsOwed, LateWork, WorkStages
  <2>3. CASE via = "outer"
    <3>1. store'.owed = [store.owed EXCEPT !.stage = "inference"]
      BY <1>1, <2>3 DEF Offer
    <3>2. mem'.owed.pending = mem.owed.pending
      BY <1>1, <2>3 DEF Offer
    <3>3. store'.owed.stage = "inference"
      BY <3>1 DEF OwedRecord
    <3> QED
      BY <2>1, <3>2, <3>3 DEF OwedInv, SettledQueueDropped, AbandonedIsDropped,
         CachedWorkIsOwed, LateWork
  <2> QED
    BY <2>2, <2>3
<1>2. CASE Abort
  <2>1. /\ mem'.held.abandoned = mem.held.abandoned \cup mem.held.waiting
        /\ mem'.owed.pending = mem.owed.pending
    BY <1>2 DEF Abort
  <2>2. log'.dropped = log.dropped \cup mem.held.waiting
    BY <1>2 DEF Abort, Abandoning
  <2>3. Harmless
    BY <1>2, <2>1, <2>2 DEF Harmless, Abort
  <2> QED
    BY <2>3, HarmlessPreserves
<1>3. CASE Drain \/ Close
  <2>1. /\ mem'.held.abandoned = mem.held.abandoned /\ mem'.owed.pending = mem.owed.pending
        /\ log'.dropped = log.dropped
    BY <1>3 DEF Drain, Close
  <2>2. Harmless
    BY <1>3, <2>1 DEF Harmless, Drain, Close
  <2> QED
    BY <2>2, HarmlessPreserves
<1>4. CASE Publish \/ MarkCommitted
  <2>1. mem'.held.abandoned = mem.held.abandoned /\ mem'.owed.pending = mem.owed.pending
    <3>1. CASE Publish
      <4>1. PICK p \in mem.held.publishing :
              mem' = Opening([mem EXCEPT !.held.waiting = @ \cup {p.entry},
                                         !.run.turnRequested = TRUE,
                                         !.held.publishing = {}])
        BY <3>1 DEF Publish
      <4> QED
        BY <4>1 DEF Opening, NewRun
    <3>2. CASE MarkCommitted
      <4>1. PICK p \in mem.held.publishing :
              mem' = [mem EXCEPT !.held.dirty = TRUE,
                                 !.held.publishing = {[p EXCEPT !.via = "marked"]}]
        BY <3>2 DEF MarkCommitted
      <4> QED
        BY <4>1
    <3> QED
      BY <1>4, <3>1, <3>2
  <2>2. store' = store /\ log'.dropped = log.dropped
    BY <1>4 DEF Publish, MarkCommitted
  <2>3. Harmless
    BY <2>1, <2>2 DEF Harmless
  <2> QED
    BY <2>3, HarmlessPreserves
<1>5. CASE ActivateCommitted
  <2> DEFINE activated == [mem EXCEPT
                 !.owed.pending = IF pc = "idle" THEN store.owed ELSE @,
                 !.owed.requestOpen = IF pc = "idle" THEN store.owed.open ELSE @,
                 !.run.turnRequested = TRUE,
                 !.held.publishing = {}]
  <2>a. activated.held.abandoned = mem.held.abandoned
    OBVIOUS
  <2>b. activated.owed.pending = IF pc = "idle" THEN store.owed ELSE mem.owed.pending
    OBVIOUS
  <2>c. Opening(activated).held = activated.held /\ Opening(activated).owed = activated.owed
    BY DEF Opening, NewRun
  <2>d. mem' = Opening(activated)
    BY <1>5, Zenon DEF ActivateCommitted
  <2> HIDE DEF activated
  <2>1. mem'.held.abandoned = mem.held.abandoned
    BY <2>a, <2>c, <2>d
  <2>2. mem'.owed.pending \in {store.owed, mem.owed.pending}
    BY <2>b, <2>c, <2>d
  <2>3. store' = store /\ log'.dropped = log.dropped
    BY <1>5 DEF ActivateCommitted
  <2> QED
    BY <2>1, <2>2, <2>3 DEF OwedInv, SettledQueueDropped, AbandonedIsDropped,
       CachedWorkIsOwed, LateWork
<1>6. CASE Crash
  <2>1. mem'.held.abandoned = {} /\ mem'.owed.pending = store.owed
    BY <1>6 DEF Crash, Fresh
  <2>2. store' = store /\ log'.dropped = log.dropped
    BY <1>6 DEF Crash
  <2> QED
    BY <2>1, <2>2 DEF OwedInv, SettledQueueDropped, AbandonedIsDropped,
       CachedWorkIsOwed, LateWork
<1>7. CASE Start
  <2>1. mem'.held.abandoned = mem.held.abandoned /\ mem'.owed.pending = mem.owed.pending
    BY <1>7 DEF Start, Opening, NewRun
  <2>2. Harmless
    BY <1>7, <2>1 DEF Harmless, Start
  <2> QED
    BY <2>2, HarmlessPreserves
<1> QED
  BY <1>1, <1>2, <1>3, <1>4, <1>5, <1>6, <1>7 DEF Callers, Publishing

(* Opening a turn preserves the invariant: the abandoned keys are cleared,  *)
(* and the drop is forgotten only over a record that owes a turn.           *)
LEMMA BeginTurnPreserves ==
  ASSUME TypeOK, OwedInv, store' = store, NEW m \in MemType, BeginTurn(m),
         m.held.abandoned = mem.held.abandoned, m.owed.pending = mem.owed.pending
  PROVE  OwedInv'
<1> USE DEF TypeOK, MemType, HeldType, RunType, OwedType, TurnType, LogType
<1>1. mem'.owed.pending = mem.owed.pending
  BY DEF BeginTurn
<1>2. CASE m.run.aborted
  <2>1. mem'.held.abandoned = mem.held.abandoned /\ log' = log
    BY <1>2 DEF BeginTurn
  <2> QED
    BY <1>1, <2>1 DEF OwedInv, SettledQueueDropped, AbandonedIsDropped, CachedWorkIsOwed,
       LateWork
<1>3. CASE ~m.run.aborted
  <2>1. mem'.held.abandoned = {}
    BY <1>3 DEF BeginTurn
  <2>2. log' = log \/ LateWork
    BY <1>3 DEF BeginTurn
  <2> QED
    BY <1>1, <2>1, <2>2 DEF OwedInv, SettledQueueDropped, AbandonedIsDropped,
       CachedWorkIsOwed, LateWork
<1> QED
  BY <1>2, <1>3

(* The opening and loading steps of a run preserve the invariant.           *)
LEMMA OpeningPreserves ==
  ASSUME TypeOK, OwedInv, OpeningStep \/ LoadStep
  PROVE  OwedInv'
<1> USE DEF TypeOK, StoreType, MemType, HeldType, RunType, OwedType, TurnType, LogType
<1>1. CASE BeginRun \/ SettleLoaded \/ ReadHistory \/ AssignHistory
  <2>1. mem'.held.abandoned = mem.held.abandoned /\ mem'.owed.pending = mem.owed.pending
    <3>1. CASE BeginRun
      BY <3>1 DEF BeginRun, OpenScope
    <3>2. CASE SettleLoaded
      BY <3>2 DEF SettleLoaded, OpenScope
    <3>3. CASE ReadHistory
      BY <3>3 DEF ReadHistory
    <3>4. CASE AssignHistory
      BY <3>4 DEF AssignHistory
    <3> QED
      BY <1>1, <3>1, <3>2, <3>3, <3>4
  <2>2. Harmless
    BY <1>1, <2>1 DEF Harmless, BeginRun, SettleLoaded, ReadHistory, AssignHistory
  <2> QED
    BY <2>2, HarmlessPreserves
<1>2. CASE LoopStage \/ TurnStage
  BY <1>2, EnterStageHarmless, HarmlessPreserves DEF LoopStage, TurnStage, WorkStages
<1>3. CASE OpenTurn
  <2>1. CASE BeginTurn(mem)
    BY <1>3, <2>1, BeginTurnPreserves DEF OpenTurn
  <2>2. CASE UNCHANGED <<store, mem, log>>
    BY <2>2, HarmlessPreserves DEF Harmless
  <2> QED
    BY <1>3, <2>1, <2>2 DEF OpenTurn
<1>4. CASE LoadFails
  <2>1. mem'.owed.pending = mem.owed.pending
    BY <1>4 DEF LoadFails
  <2>2. \/ mem'.held.abandoned = mem.held.abandoned /\ log'.dropped = log.dropped
        \/ /\ mem'.held.abandoned = mem.held.abandoned \cup mem.held.waiting
           /\ log'.dropped = log.dropped \cup mem.held.waiting
    <3>1. CASE mem.turn.then = "settle"
      BY <1>4, <3>1 DEF LoadFails, Failing
    <3>2. CASE mem.turn.then # "settle"
      <4>1. /\ mem' = [mem EXCEPT
                  !.held.snapshot = {}, !.held.abandoned = @ \cup mem.held.waiting]
            /\ log' = [Abandoning(Failing) EXCEPT
                  !.excused = @ \cup Unanswered(store.records)]
        BY <1>4, <3>2 DEF LoadFails
      <4>2. mem'.held.abandoned = mem.held.abandoned \cup mem.held.waiting
        BY <4>1
      <4>3. log'.dropped = log.dropped \cup mem.held.waiting
        BY <4>1 DEF Abandoning, Failing
      <4> QED
        BY <4>2, <4>3
    <3> QED
      BY <3>1, <3>2
  <2>3. Harmless
    BY <1>4, <2>1, <2>2 DEF Harmless, LoadFails
  <2> QED
    BY <2>3, HarmlessPreserves
<1> QED
  BY <1>1, <1>2, <1>3, <1>4 DEF OpeningStep, LoadStep

(* The steps of the inference cycle preserve the invariant: consuming a     *)
(* message records the inference it makes due in the same transaction.      *)
LEMMA CyclePreserves ==
  ASSUME TypeOK, OwedInv, CycleStep
  PROVE  OwedInv'
<1> USE DEF TypeOK, StoreType, MemType, HeldType, RunType, OwedType, TurnType, LogType
<1>1. CASE BeginInference \/ Recover
  <2>1. mem'.held.abandoned = mem.held.abandoned /\ mem'.owed.pending = mem.owed.pending
    <3>1. CASE BeginInference
      <4>1. CASE mem' = mem
        BY <4>1
      <4>2. CASE mem' = [mem EXCEPT
                  !.owed.requestOpen = @ /\ ~InheritedRequestAnswered,
                  !.turn.state = "none", !.turn.stopped = FALSE,
                  !.turn.needs = mem.turn.batch # {}]
        BY <4>2, Zenon
      <4> QED
        BY <3>1, <4>1, <4>2, Zenon DEF BeginInference
    <3>2. CASE Recover
      BY <3>2 DEF Recover
    <3> QED
      BY <1>1, <3>1, <3>2
  <2>2. Harmless
    BY <1>1, <2>1, Zenon DEF Harmless, BeginInference, Recover
  <2> QED
    BY <2>2, HarmlessPreserves
<1>2. CASE StopCycle \/ NothingQueued \/ LeaveRequest \/ OpenStream
  <2>1. Harmless
    BY <1>2 DEF Harmless, StopCycle, NothingQueued, LeaveRequest, OpenStream
  <2> QED
    BY <2>1, HarmlessPreserves
<1>3. CASE RefreshCommittedQueues
  <2>1. mem'.held.abandoned = mem.held.abandoned /\ mem'.owed.pending = mem.owed.pending
    BY <1>3 DEF RefreshCommittedQueues
  <2>2. Harmless
    BY <1>3, <2>1 DEF Harmless, RefreshCommittedQueues
  <2> QED
    BY <2>2, HarmlessPreserves
<1>4. ASSUME NEW k \in Kinds, ConsumeQueue(k)
      PROVE  OwedInv'
  <2>1. PICK e \in Oldest(Consumable(k)) :
          /\ store' = [store EXCEPT
                 !.queue = @ \ {e},
                 !.records = Append(@, User(e.msg)),
                 !.owed = Recorded("inference")]
          /\ mem' = [mem EXCEPT
                 !.held.waiting = @ \ {e},
                 !.held.messages = Append(@, User(e.msg)),
                 !.owed.pending = Owing("inference"),
                 !.run.turnRequested = StillRequested(mem.held.waiting \ {e})]
    BY <1>4 DEF ConsumeQueue
  <2>2. mem'.held.abandoned = mem.held.abandoned /\ mem'.owed.pending = Owing("inference")
    BY <2>1
  <2>3. store'.queue = store.queue \ {e} /\ store'.owed = Recorded("inference")
    BY <2>1
  <2>4. log'.dropped = log.dropped
    BY <1>4 DEF ConsumeQueue
  <2>5. Harmless
    BY <2>2, <2>3, <2>4 DEF Harmless, WorkStages
  <2> QED
    BY <2>5, HarmlessPreserves
<1>5. CASE RequestInference
  <2> DEFINE notice == IF EndsWithResponse(mem.held.messages) THEN <<System>> ELSE <<>>
  <2>1. CASE /\ store' = [store EXCEPT
                  !.owed = IF mem.owed.pending = Requesting THEN @ ELSE Requesting,
                  !.records = @ \o notice]
             /\ mem' = [mem EXCEPT
                  !.owed.requestOpen = TRUE, !.owed.pending = Requesting,
                  !.held.messages = @ \o notice, !.turn.partial = <<>>]
             /\ log' = log
    <3> HIDE DEF notice
    <3>1. mem'.held.abandoned = mem.held.abandoned /\ mem'.owed.pending = Requesting
      BY <2>1
    <3>2. /\ store'.queue = store.queue /\ log'.dropped = log.dropped
          /\ store'.owed = IF mem.owed.pending = Requesting THEN store.owed ELSE Requesting
      BY <2>1
    <3> QED
      BY <3>1, <3>2 DEF OwedInv, SettledQueueDropped, AbandonedIsDropped,
         CachedWorkIsOwed, LateWork, Requesting
  <2>2. CASE /\ mem' = [mem EXCEPT !.owed.requestOpen = TRUE, !.turn.partial = <<>>]
             /\ log' = [Failing EXCEPT !.unnamed = TRUE]
             /\ store' = store
    <3>1. mem'.held.abandoned = mem.held.abandoned /\ mem'.owed.pending = mem.owed.pending
      BY <2>2
    <3>2. log'.dropped = log.dropped
      BY <2>2 DEF Failing
    <3>3. Harmless
      BY <2>2, <3>1, <3>2 DEF Harmless
    <3> QED
      BY <3>3, HarmlessPreserves
  <2> QED
    BY <1>5, <2>1, <2>2, Zenon DEF RequestInference
<1> QED
  BY <1>1, <1>2, <1>3, <1>4, <1>5 DEF CycleStep

(* The steps of a response and of the settling of its open calls preserve   *)
(* the invariant.                                                           *)
LEMMA ResponsePreserves ==
  ASSUME TypeOK, OwedInv, ResponseStep
  PROVE  OwedInv'
<1> USE DEF TypeOK, StoreType, MemType, HeldType, RunType, OwedType, TurnType, LogType
<1> SUFFICES Harmless
  BY HarmlessPreserves
<1>1. CASE StreamBlock
  <2>1. PICK r \in {Text} \cup {Call(c) : c \in Calls} :
          /\ store' = [store EXCEPT !.records = Append(@, r)]
          /\ mem' = [mem EXCEPT !.turn.partial = Append(@, r)]
    BY <1>1 DEF StreamBlock
  <2>2. mem'.held.abandoned = mem.held.abandoned /\ mem'.owed.pending = mem.owed.pending
    BY <2>1
  <2>3. store'.queue = store.queue /\ store'.owed = store.owed
    BY <2>1
  <2>4. log'.dropped = log.dropped
    BY <1>1 DEF StreamBlock
  <2> QED
    BY <2>2, <2>3, <2>4 DEF Harmless
<1>2. CASE StreamThrows
  <2>1. mem'.held.abandoned = mem.held.abandoned /\ mem'.owed.pending = mem.owed.pending
    BY <1>2 DEF StreamThrows
  <2>2. store' = store /\ log'.dropped = log.dropped
    BY <1>2 DEF StreamThrows, Failing
  <2> QED
    BY <2>1, <2>2 DEF Harmless
<1>3. CASE TurnThrows
  <2>1. mem'.held.abandoned = mem.held.abandoned /\ mem'.owed.pending = mem.owed.pending
    BY <1>3 DEF TurnThrows
  <2>2. store' = store /\ log'.dropped = log.dropped
    BY <1>3 DEF TurnThrows, Failing
  <2> QED
    BY <2>1, <2>2 DEF Harmless
<1>4. ASSUME NEW state \in Ending, StreamEnds(state)
      PROVE  Harmless
  <2>1. mem'.held.abandoned = mem.held.abandoned /\ mem'.owed.pending = mem.owed.pending
    BY <1>4 DEF StreamEnds
  <2>2. store' = store /\ log'.dropped = log.dropped
    BY <1>4 DEF StreamEnds
  <2> QED
    BY <2>1, <2>2 DEF Harmless
<1>5. CASE EndInference
  <2> DEFINE ended == [mem EXCEPT
                !.held.messages = Said, !.turn.partial = <<>>, !.turn.needs = FALSE,
                !.turn.batch = {c \in Calls : Occurs(Call(c), mem.turn.partial)},
                !.turn.resumed = FALSE, !.turn.then = "response"]
  <2>1. /\ ended.held.abandoned = mem.held.abandoned
        /\ ended.owed.pending = mem.owed.pending
        /\ DOMAIN ended = DOMAIN mem /\ ended.owed = mem.owed
    BY SMT
  <2>2. \/ /\ mem' = [ended EXCEPT !.owed.pending = Owing("inference")]
           /\ store'.owed = Recorded("inference")
        \/ mem' = ended /\ store'.owed = store.owed
    BY <1>5, Zenon DEF EndInference
  <2>3. "owed" \in DOMAIN ended /\ "pending" \in DOMAIN mem.owed
    BY <2>1, Zenon
  <2> HIDE DEF ended
  <2>4. [ended EXCEPT !.owed.pending = Owing("inference")].owed.pending = Owing("inference")
    BY <2>1, <2>3
  <2>5. [ended EXCEPT !.owed.pending = Owing("inference")].held.abandoned
          = mem.held.abandoned
    BY <2>1, <2>3
  <2>6. \/ store'.owed = store.owed /\ mem'.owed.pending = mem.owed.pending
        \/ store'.owed = Recorded("inference") /\ mem'.owed.pending = Owing("inference")
    BY <2>1, <2>2, <2>4, Zenon
  <2>7. mem'.held.abandoned = mem.held.abandoned
    BY <2>1, <2>2, <2>5, Zenon
  <2>8. store'.queue = store.queue /\ log'.dropped = log.dropped
    BY <1>5 DEF EndInference, Failing
  <2> QED
    BY <2>6, <2>7, <2>8 DEF Harmless, WorkStages
<1>6. CASE SettleCalls
  <2> DEFINE owed == Unanswered(mem.held.messages)
  <2>1. CASE store' = store /\ mem' \in {mem, [mem EXCEPT !.turn.blocked = TRUE]}
    <3>1. mem'.held.abandoned = mem.held.abandoned /\ mem'.owed.pending = mem.owed.pending
      BY <2>1
    <3>2. log'.dropped = log.dropped
      BY <1>6 DEF SettleCalls, Failing
    <3> QED
      BY <2>1, <3>1, <3>2 DEF Harmless
  <2>2. CASE /\ store' = [store EXCEPT
                    !.tools = @ \cup {Entered(c, TRUE) : c \in owed},
                    !.owed = Recorded("tools")]
             /\ mem' = [mem EXCEPT !.owed.pending = Owing("tools"), !.turn.batch = owed]
             /\ log' = log
    <3> HIDE DEF owed
    <3>1. mem'.held.abandoned = mem.held.abandoned /\ mem'.owed.pending = Owing("tools")
      BY <2>2
    <3>2. store'.queue = store.queue /\ store'.owed = Recorded("tools")
      BY <2>2
    <3> QED
      BY <2>2, <3>1, <3>2 DEF Harmless, WorkStages
  <2> QED
    BY <1>6, <2>1, <2>2, Zenon DEF SettleCalls
<1>7. CASE AppendResults
  <2>1. ASSUME NEW c \in mem.turn.batch,
               store' = [store EXCEPT
                  !.records = Append(@, Result(c)),
                  !.tools = WithoutEntry(c),
                  !.owed = Recorded("inference")],
               mem' = [mem EXCEPT
                  !.held.messages = Append(@, Result(c)),
                  !.owed.pending = Owing("inference")],
               log' = log
        PROVE  Harmless
    <3>1. /\ mem'.held.abandoned = mem.held.abandoned
          /\ mem'.owed.pending = Owing("inference")
      BY <2>1
    <3>2. store'.queue = store.queue /\ store'.owed = Recorded("inference")
      BY <2>1
    <3> QED
      BY <2>1, <3>1, <3>2 DEF Harmless, WorkStages
  <2>2. CASE mem' = [mem EXCEPT !.turn.blocked = TRUE] /\ store' = store /\ log' = Failing
    <3>1. mem'.held.abandoned = mem.held.abandoned /\ mem'.owed.pending = mem.owed.pending
      BY <2>2
    <3>2. log'.dropped = log.dropped
      BY <2>2 DEF Failing
    <3> QED
      BY <2>2, <3>1, <3>2 DEF Harmless
  <2> QED
    BY <1>7, <2>1, <2>2, Zenon DEF AppendResults
<1> QED
  BY <1>1, <1>2, <1>3, <1>4, <1>5, <1>6, <1>7 DEF ResponseStep

(* The steps of the tool batch preserve the invariant.                      *)
LEMMA ToolPreserves ==
  ASSUME TypeOK, OwedInv, ToolStep
  PROVE  OwedInv'
<1> USE DEF TypeOK, StoreType, MemType, HeldType, RunType, OwedType, TurnType, LogType
<1> SUFFICES Harmless
  BY HarmlessPreserves
<1>1. CASE Dispatch
  <2>1. mem'.held.abandoned = mem.held.abandoned
    BY <1>1 DEF Dispatch
  <2>2. store'.queue = store.queue /\ log'.dropped = log.dropped
    BY <1>1 DEF Dispatch, Failing
  <2>3. \/ store'.owed = store.owed /\ mem'.owed.pending = mem.owed.pending
        \/ store'.owed = Recorded("tools") /\ mem'.owed.pending = Owing("tools")
    <3>1. CASE mem' = mem /\ store' = store
      BY <3>1
    <3>2. CASE /\ mem' = [mem EXCEPT !.owed.pending = Owing("tools")]
               /\ store' = [store EXCEPT
                    !.tools = IF mem.turn.resumed THEN @
                              ELSE @ \cup {Entered(c, FALSE) : c \in mem.turn.batch},
                    !.owed = Recorded("tools")]
      <4>1. mem'.owed.pending = Owing("tools")
        BY <3>2
      <4>2. store'.owed = Recorded("tools")
        BY <3>2, Zenon
      <4> QED
        BY <4>1, <4>2
    <3> QED
      BY <1>1, <3>1, <3>2, Zenon DEF Dispatch
  <2> QED
    BY <2>1, <2>2, <2>3 DEF Harmless, WorkStages
<1>2. CASE Execute \/ ToolSettles
  <2>1. mem'.held.abandoned = mem.held.abandoned /\ mem'.owed.pending = mem.owed.pending
    <3>1. CASE Execute
      BY <3>1 DEF Execute
    <3>2. CASE ToolSettles
      BY <3>2 DEF ToolSettles
    <3> QED
      BY <1>2, <3>1, <3>2
  <2>2. store' = store /\ log'.dropped = log.dropped
    BY <1>2, ZenonT(60) DEF Execute, ToolSettles
  <2> QED
    BY <2>1, <2>2 DEF Harmless
<1>3. CASE ToolCommitsEarly \/ ToolReloads
  <2>1. store'.queue = store.queue /\ store'.owed = store.owed /\ UNCHANGED <<mem, log>>
    BY <1>3 DEF ToolCommitsEarly, ToolReloads
  <2> QED
    BY <2>1 DEF Harmless
<1>4. CASE CommitResult
  <2>1. mem'.held.abandoned = mem.held.abandoned /\ mem'.owed.pending = mem.owed.pending
    BY <1>4 DEF CommitResult
  <2>2. /\ store'.queue = store.queue /\ store'.owed = store.owed
        /\ log'.dropped = log.dropped
    BY <1>4 DEF CommitResult
  <2> QED
    BY <2>1, <2>2 DEF Harmless
<1>5. CASE EndBatch
  <2>1. /\ mem'.held.abandoned = mem.held.abandoned
        /\ mem'.owed.pending = Owing("inference")
    BY <1>5 DEF EndBatch
  <2>2. /\ store'.queue = store.queue /\ store'.owed = Recorded("inference")
        /\ log'.dropped = log.dropped
    BY <1>5 DEF EndBatch
  <2> QED
    BY <2>1, <2>2 DEF Harmless, WorkStages
<1> QED
  BY <1>1, <1>2, <1>3, <1>4, <1>5 DEF ToolStep

(* The steps that end a turn, a loop and the run preserve the invariant: a  *)
(* settlement is recorded only over an abandoned queue, and is not erased   *)
(* over work accepted since (#enterSettlementStage, #settleRecord).         *)
LEMMA ClosingPreserves ==
  ASSUME TypeOK, OwedInv, ClosingStep
  PROVE  OwedInv'
<1> USE DEF TypeOK, StoreType, MemType, HeldType, RunType, OwedType, TurnType, LogType
<1>1. CASE AppendFailure
  <2>1. mem'.held.abandoned = mem.held.abandoned /\ mem'.owed.pending = mem.owed.pending
    <3>1. CASE mem' = mem
      BY <3>1
    <3>2. CASE mem' = [mem EXCEPT !.held.messages = Append(@, System)]
      BY <3>2
    <3> QED
      BY <1>1, <3>1, <3>2, Zenon DEF AppendFailure
  <2>2. /\ store'.queue = store.queue /\ store'.owed = store.owed
        /\ log'.dropped = log.dropped
    BY <1>1 DEF AppendFailure, Failing
  <2>3. Harmless
    BY <2>1, <2>2 DEF Harmless
  <2> QED
    BY <2>3, HarmlessPreserves
<1>2. CASE NothingToNote \/ LeaveRun
  <2>1. Harmless
    BY <1>2 DEF Harmless, NothingToNote, LeaveRun
  <2> QED
    BY <2>1, HarmlessPreserves
<1>3. CASE FailTurn
  <2>1. /\ mem'.held.abandoned = mem.held.abandoned \cup mem.held.waiting
        /\ mem'.owed.pending = mem.owed.pending
    BY <1>3 DEF FailTurn
  <2>2. store' = store /\ log'.dropped = log.dropped \cup mem.held.waiting
    BY <1>3 DEF FailTurn, Abandoning
  <2>3. Harmless
    BY <2>1, <2>2 DEF Harmless
  <2> QED
    BY <2>3, HarmlessPreserves
<1>4. CASE CloseTurn \/ CloseLoop
  BY <1>4, EnterStageHarmless, HarmlessPreserves DEF CloseTurn, CloseLoop, WorkStages
<1>5. CASE NextTurn
  <2>1. CASE UNCHANGED <<mem, log>>
    <3>1. Harmless
      BY <1>5, <2>1 DEF Harmless, NextTurn
    <3> QED
      BY <3>1, HarmlessPreserves
  <2>2. CASE BeginTurn(OpenScope(mem))
    <3>1. OpenScope(mem) \in MemType
      BY HelperTypes
    <3>2. OpenScope(mem).held = mem.held /\ OpenScope(mem).owed = mem.owed
      BY OpeningKeeps
    <3> QED
      BY <1>5, <2>2, <3>1, <3>2, BeginTurnPreserves DEF NextTurn
  <2> QED
    BY <1>5, <2>1, <2>2 DEF NextTurn
<1>6. CASE NextLoop
  <2>1. mem'.held.abandoned = mem.held.abandoned /\ mem'.owed.pending = mem.owed.pending
    BY <1>6 DEF NextLoop, OpenScope
  <2>2. Harmless
    BY <1>6, <2>1 DEF Harmless, NextLoop
  <2> QED
    BY <2>2, HarmlessPreserves
<1>7. CASE EnterSettlement
  <2>1. mem'.held.abandoned = mem.held.abandoned
    BY <1>7 DEF EnterSettlement
  <2>2. store'.queue = store.queue /\ log'.dropped = log.dropped
    BY <1>7 DEF EnterSettlement, Failing
  <2>3. \/ store'.owed = store.owed /\ mem'.owed.pending = mem.owed.pending
        \/ /\ store.queue \subseteq mem.held.abandoned
           /\ mem'.owed.pending = Owing("settlement")
    BY <1>7 DEF EnterSettlement, QueueAbandoned
  <2> QED
    BY <2>1, <2>2, <2>3 DEF OwedInv, SettledQueueDropped, AbandonedIsDropped, CachedWorkIsOwed,
       LateWork, Owing
<1>8. CASE Settle
  <2>1. mem'.held.abandoned = mem.held.abandoned
    BY <1>8 DEF Settle
  <2>2. store'.queue = store.queue /\ log'.dropped = log.dropped
    BY <1>8 DEF Settle, Failing
  <2>3. \/ store'.owed = store.owed /\ mem'.owed.pending = mem.owed.pending
        \/ store'.owed = SettledRecord /\ mem'.owed.pending = SettledRecord
    <3>1. CASE mem' = mem /\ store' = store
      BY <3>1
    <3>2. CASE /\ mem' = [mem EXCEPT !.owed.pending = SettledRecord,
                                     !.owed.requestOpen = FALSE, !.run.reopened = LateWork]
               /\ store' = [store EXCEPT !.owed = SettledRecord]
      <4>1. mem'.owed.pending = SettledRecord
        BY <3>2, Zenon
      <4>2. store'.owed = SettledRecord
        BY <3>2, Zenon
      <4> QED
        BY <4>1, <4>2
    <3> QED
      BY <1>8, <3>1, <3>2, Zenon DEF Settle
  <2>4. store.owed.stage \in Stages \cup {"none"}
    BY DEF OwedRecord
  <2> QED
    BY <2>1, <2>2, <2>3, <2>4 DEF OwedInv, SettledQueueDropped, AbandonedIsDropped,
       CachedWorkIsOwed, LateWork, SettledRecord, Reopened, NotOwed, Stages
<1>9. CASE Finally
  <2>1. mem'.held.abandoned = mem.held.abandoned /\ mem'.owed.pending = mem.owed.pending
    BY <1>9, ZenonT(60) DEF Finally, NewRun
  <2>2. store' = store /\ log'.dropped = log.dropped
    BY <1>9 DEF Finally
  <2>3. Harmless
    BY <2>1, <2>2 DEF Harmless
  <2> QED
    BY <2>3, HarmlessPreserves
<1> QED
  BY <1>1, <1>2, <1>3, <1>4, <1>5, <1>6, <1>7, <1>8, <1>9 DEF ClosingStep

(* The invariant behind NoWorkForgotten: a record owing no turn stands over *)
(* a dropped queue, what the instance abandoned was dropped, and its cached *)
(* record owes no turn the store does not.                                  *)
THEOREM OwedInductive == Spec => []OwedInv
<1>1. Init => OwedInv
  BY DEF Init, Fresh, NotOwed, OwedInv, SettledQueueDropped, AbandonedIsDropped,
     CachedWorkIsOwed, LateWork
<1>2. TypeOK /\ OwedInv /\ [Next]_vars => OwedInv'
  <2> SUFFICES ASSUME TypeOK, OwedInv, [Next]_vars PROVE OwedInv'
    OBVIOUS
  <2>1. CASE Rest \/ UNCHANGED vars
    BY <2>1 DEF Rest, vars, OwedInv, SettledQueueDropped, AbandonedIsDropped, CachedWorkIsOwed,
       LateWork
  <2>2. CASE RunStep
    BY <2>2, OpeningPreserves, CyclePreserves, ResponsePreserves, ToolPreserves,
       ClosingPreserves DEF RunStep
  <2> QED
    BY <2>1, <2>2, CallersPreserve DEF Next
<1> QED
  BY <1>1, <1>2, TypeCorrect, PTL DEF Spec

(* Accepted input that no abort or failed turn dropped always has a pending *)
(* record standing for it, over every interleaving of offers, aborts,       *)
(* failures and crashes: an owner coming up starts the agent for it         *)
(* (#claimPendingWork, #settleRecord).                                      *)
THEOREM NoWorkForgotten == Spec => []QueuedWorkIsOwed
<1>1. OwedInv => QueuedWorkIsOwed
  BY DEF OwedInv, SettledQueueDropped, QueuedWorkIsOwed
<1> QED
  BY <1>1, OwedInductive, PTL
=============================================================================
