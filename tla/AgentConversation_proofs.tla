----------------------- MODULE AgentConversation_proofs -----------------------
(***************************************************************************)
(* What TLAPS proves of the conversation of an AgentBase, for every value  *)
(* of its constants: a message accepted is in it or in the queue, once     *)
(* (AcceptedOnce); it stays whole (ConversationWhole); and, from that, a   *)
(* call has one result (OneResult), nothing comes between the two          *)
(* (NothingBetween), and a call that may not be retried runs once          *)
(* (NoSecondRun).                                                          *)
(*                                                                         *)
(* ConversationInv speaks of places of the run, so there is a lemma for    *)
(* each group of places that says what it takes to arrive there; what a    *)
(* step says to the conversation is Speaks, proved along with it.          *)
(***************************************************************************)
EXTENDS AgentBase_proofs, FiniteSetTheorems, SequenceTheorems

(* What a sequence holds once a record joins it.                            *)
LEMMA Appended ==
  ASSUME NEW S, NEW s \in Seq(S), NEW x \in S
  PROVE  /\ DOMAIN s = 1 .. Len(s) /\ Len(s) \in Nat
         /\ Append(s, x) \in Seq(S)
         /\ DOMAIN Append(s, x) = 1 .. (Len(s) + 1)
         /\ \A i \in DOMAIN s : i \in 1 .. (Len(s) + 1) /\ Append(s, x)[i] = s[i]
         /\ Append(s, x)[Len(s) + 1] = x
         /\ \A i \in DOMAIN Append(s, x) : i \in DOMAIN s \/ i = Len(s) + 1
         /\ \A r : Occurs(r, Append(s, x)) <=> Occurs(r, s) \/ r = x
<1>1. /\ DOMAIN s = 1 .. Len(s) /\ Len(s) \in Nat
      /\ Append(s, x) \in Seq(S)
      /\ DOMAIN Append(s, x) = 1 .. (Len(s) + 1)
  BY AppendProperties, LenProperties
<1>2. /\ \A i \in DOMAIN s : i \in 1 .. (Len(s) + 1) /\ Append(s, x)[i] = s[i]
      /\ Append(s, x)[Len(s) + 1] = x
      /\ \A i \in DOMAIN Append(s, x) : i \in DOMAIN s \/ i = Len(s) + 1
  BY <1>1, AppendProperties
<1>3. \A r : Occurs(r, Append(s, x)) <=> Occurs(r, s) \/ r = x
  BY <1>1, <1>2 DEF Occurs
<1> QED
  BY <1>1, <1>2, <1>3

(* A continuation notice, if there is one, joins the conversation like any  *)
(* record.                                                                  *)
LEMMA NoticeAppended ==
  ASSUME NEW s \in Seq(Record)
  PROVE  s \o <<>> = s /\ s \o <<System>> = Append(s, System)
BY RecordTypes, ConcatEmptySeq, AppendIsConcat

(* Records of different kinds differ, and so do those of different calls.   *)
LEMMA RecordsDiffer ==
  /\ \A m \in Msgs, c \in Calls : User(m) # Call(c) /\ User(m) # Result(c)
  /\ \A m \in Msgs : User(m) # Text /\ User(m) # System
  /\ \A c, d \in Calls : Call(c) # Result(d)
  /\ \A c \in Calls : /\ Call(c) # Text /\ Call(c) # System
                      /\ Result(c) # Text /\ Result(c) # System
  /\ \A c, d \in Calls : (Call(c) = Call(d) => c = d) /\ (Result(c) = Result(d) => c = d)
  /\ \A m, n \in Msgs : User(m) = User(n) => m = n
<1>1. /\ \A m : User(m).type = "user" /\ User(m).ref = m
      /\ \A c : Call(c).type = "call" /\ Call(c).ref = c
      /\ \A c : Result(c).type = "result" /\ Result(c).ref = c
      /\ Text.type = "text" /\ System.type = "system"
  BY DEF User, Call, Result, Text, System
<1> QED
  BY <1>1
-----------------------------------------------------------------------------
(* AcceptedExactlyOnce                                                      *)

(* Steps that leave the queue and the claimed identities alone, and say     *)
(* nothing or something that is no user's.                                  *)
QueueKept ==
    /\ store'.queue = store.queue /\ store'.ids = store.ids
    /\ \/ store'.records = store.records
       \/ \E x \in Record : /\ \A m \in Msgs : x # User(m)
                            /\ store'.records = Append(store.records, x)

(* Only an offer and the consumption of the queue are not of that kind.     *)
LEMMA QueueSteps ==
  ASSUME TypeOK, [Next]_vars
  PROVE  \/ \E m \in Msgs, k \in Kinds, via \in {"own", "outer"} : Offer(m, k, via)
         \/ \E k \in Kinds : ConsumeQueue(k)
         \/ QueueKept
<1> USE DEF TypeOK, StoreType
<1>1. CASE UNCHANGED store
  BY <1>1 DEF QueueKept
<1>2. CASE LoopStage \/ TurnStage \/ CloseTurn \/ CloseLoop
  BY <1>2 DEF LoopStage, TurnStage, CloseTurn, CloseLoop, EnterStage, QueueKept
<1>3. CASE RequestInference
  <2>1. store.records \o <<>> = store.records
        /\ store.records \o <<System>> = Append(store.records, System)
    BY NoticeAppended
  <2>2. /\ store'.queue = store.queue /\ store'.ids = store.ids
        /\ store'.records \in {store.records, store.records \o <<System>>, store.records \o <<>>}
    BY <1>3 DEF RequestInference
  <2> QED
    BY <2>1, <2>2, RecordTypes, RecordsDiffer DEF QueueKept
<1>4. CASE StreamBlock
  BY <1>4, RecordTypes, RecordsDiffer DEF StreamBlock, QueueKept
<1>5. CASE EndInference \/ SettleCalls \/ Dispatch \/ ToolCommitsEarly \/ EndBatch
           \/ EnterSettlement \/ Settle
  BY <1>5 DEF EndInference, SettleCalls, Dispatch, ToolCommitsEarly, EndBatch, EnterSettlement,
     Settle, QueueKept
<1>6. CASE AppendResults \/ CommitResult
  <2>1. mem.turn.batch \subseteq Calls
    BY MemFields
  <2> QED
    <3>1. store'.queue = store.queue /\ store'.ids = store.ids
      BY <1>6 DEF AppendResults, CommitResult
    <3>2. \/ store'.records = store.records
          \/ \E c \in mem.turn.batch : store'.records = Append(store.records, Result(c))
      BY <1>6 DEF AppendResults, CommitResult
    <3> QED
      BY <2>1, <3>1, <3>2, RecordTypes, RecordsDiffer DEF QueueKept
<1>7. CASE AppendFailure
  BY <1>7, RecordTypes, RecordsDiffer DEF AppendFailure, QueueKept
<1> QED
  BY <1>1, <1>2, <1>3, <1>4, <1>5, <1>6, <1>7
  DEF Next, vars, Callers, Abort, Drain, Close, Publishing, Publish, MarkCommitted,
      ActivateCommitted, Crash, Start, RunStep, OpeningStep, BeginRun, SettleLoaded, OpenTurn,
      LoadStep, ReadHistory, AssignHistory, LoadFails, CycleStep, BeginInference, Recover,
      StopCycle, RefreshCommittedQueues, NothingQueued, LeaveRequest, OpenStream, ResponseStep,
      StreamThrows, TurnThrows, StreamEnds, ToolStep, Execute, ToolSettles, ToolReloads,
      ClosingStep, NothingToNote, FailTurn, LeaveRun, NextTurn, NextLoop, Finally, Rest

(* An identity claimed stands for one entry of the queue or one record, and *)
(* only claimed identities are in either.                                   *)
AcceptedInv ==
    /\ \A e, f \in store.queue : e.msg = f.msg => e = f
    /\ \A m \in Msgs : \A i, j \in DOMAIN store.records :
           store.records[i] = User(m) /\ store.records[j] = User(m) => i = j
    /\ \A e \in store.queue : e.msg \in store.ids /\ ~Occurs(User(e.msg), store.records)
    /\ \A m \in Msgs : Occurs(User(m), store.records) => m \in store.ids
    /\ \A m \in store.ids :
           Occurs(User(m), store.records) \/ \E e \in store.queue : e.msg = m

(* Every step keeps to that.                                                *)
LEMMA AcceptedStep ==
  ASSUME TypeOK, AcceptedInv, [Next]_vars
  PROVE  AcceptedInv'
<1> USE DEF TypeOK, StoreType
<1>r. store.records \in Seq(Record)
  OBVIOUS
<1>e. \A e \in store.queue : e.msg \in Msgs
  BY DEF Entry
<1>1. ASSUME NEW m \in Msgs, NEW k \in Kinds, NEW via \in {"own", "outer"}, Offer(m, k, via)
      PROVE  AcceptedInv'
  <2>1. m \notin store.ids
    BY <1>1 DEF Offer, Claimed
  <2>2. PICK e : /\ e.msg = m /\ store'.queue = store.queue \cup {e}
                 /\ store'.ids = store.ids \cup {m} /\ store'.records = store.records
    <3>1. PICK key : /\ store'.queue = store.queue \cup {[kind |-> k, key |-> key, msg |-> m]}
                     /\ store'.ids = store.ids \cup {m} /\ store'.records = store.records
      BY <1>1 DEF Offer
    <3>2. [kind |-> k, key |-> key, msg |-> m].msg = m
      OBVIOUS
    <3> QED
      BY <3>1, <3>2
  <2>3. ~Occurs(User(m), store.records) /\ \A f \in store.queue : f.msg # m
    BY <2>1 DEF AcceptedInv
  <2>4. \A f, g \in store'.queue : f.msg = g.msg => f = g
    BY <2>2, <2>3 DEF AcceptedInv
  <2>5. \A f \in store'.queue :
            f.msg \in store'.ids /\ ~Occurs(User(f.msg), store'.records)
    BY <2>2, <2>3 DEF AcceptedInv
  <2>6. \A n \in store'.ids :
            Occurs(User(n), store'.records) \/ \E f \in store'.queue : f.msg = n
    BY <2>2 DEF AcceptedInv
  <2> QED
    BY <2>2, <2>4, <2>5, <2>6 DEF AcceptedInv
<1>2. ASSUME NEW k \in Kinds, ConsumeQueue(k)
      PROVE  AcceptedInv'
  <2>1. PICK e \in store.queue :
            /\ store'.queue = store.queue \ {e} /\ store'.ids = store.ids
            /\ store'.records = Append(store.records, User(e.msg))
    BY <1>2 DEF ConsumeQueue, Oldest, Consumable, OfKind
  <2>2. User(e.msg) \in Record
    BY <1>e, RecordTypes
  <2>3. /\ \A m : Occurs(User(m), store'.records) <=>
                    Occurs(User(m), store.records) \/ User(m) = User(e.msg)
        /\ \A m \in Msgs : User(m) = User(e.msg) <=> m = e.msg
    BY <2>1, <2>2, <1>e, <1>r, Appended, RecordsDiffer
  <2>4. \A m \in Msgs : \A i, j \in DOMAIN store'.records :
           store'.records[i] = User(m) /\ store'.records[j] = User(m) => i = j
    <3> SUFFICES ASSUME NEW m \in Msgs, NEW i \in DOMAIN store'.records,
                        NEW j \in DOMAIN store'.records,
                        store'.records[i] = User(m), store'.records[j] = User(m)
                 PROVE  i = j
      OBVIOUS
    <3>1. CASE i \in DOMAIN store.records /\ j \in DOMAIN store.records
      BY <3>1, <2>1, <2>2, <1>r, Appended DEF AcceptedInv
    <3>2. CASE i = Len(store.records) + 1 /\ j = Len(store.records) + 1
      BY <3>2
    <3>3. ~Occurs(User(e.msg), store.records)
      BY DEF AcceptedInv
    <3> QED
      BY <3>1, <3>2, <3>3, <2>1, <2>2, <2>3, <1>r, <1>e, Appended DEF Occurs
  <2>5. \A f \in store.queue : f.msg = e.msg => f = e
    BY DEF AcceptedInv
  <2> QED
    BY <2>1, <2>3, <2>4, <2>5, <1>e DEF AcceptedInv
<1>3. CASE QueueKept
  <2>1. CASE store'.records = store.records
    BY <2>1, <1>3 DEF QueueKept, AcceptedInv
  <2>2. ASSUME NEW x \in Record, \A m \in Msgs : x # User(m),
               store'.records = Append(store.records, x)
        PROVE  AcceptedInv'
    <3>1. \A m \in Msgs : Occurs(User(m), store'.records) <=> Occurs(User(m), store.records)
      BY <2>2, <1>r, Appended
    <3>2. \A m \in Msgs : \A i \in DOMAIN store'.records : store'.records[i] = User(m) =>
              i \in DOMAIN store.records /\ store.records[i] = User(m)
      BY <2>2, <1>r, Appended
    <3> QED
      BY <3>1, <3>2, <1>3, <1>e DEF QueueKept, AcceptedInv
  <2> QED
    BY <2>1, <2>2, <1>3 DEF QueueKept
<1> QED
  BY <1>1, <1>2, <1>3, QueueSteps

(* Which is what AcceptedExactlyOnce counts.                                *)
LEMMA AcceptedCounts ==
  ASSUME TypeOK, AcceptedInv
  PROVE  AcceptedExactlyOnce
<1> USE DEF TypeOK, StoreType
<1> SUFFICES ASSUME NEW m \in store.ids
             PROVE  Cardinality({e \in store.queue : e.msg = m})
                      + Cardinality({i \in DOMAIN store.records : store.records[i] = User(m)}) = 1
  BY DEF AcceptedExactlyOnce
<1> DEFINE Q == {e \in store.queue : e.msg = m}
           R == {i \in DOMAIN store.records : store.records[i] = User(m)}
<1>m. m \in Msgs
  OBVIOUS
<1>1. CASE Occurs(User(m), store.records)
  <2>1. PICK i \in DOMAIN store.records : store.records[i] = User(m)
    BY <1>1 DEF Occurs
  <2>2. R = {i}
    BY <2>1, <1>m DEF AcceptedInv
  <2>3. Q = {}
    BY <1>1 DEF AcceptedInv
  <2> QED
    <3>1. Cardinality(R) = 1 /\ Cardinality(Q) = 0
      BY <2>2, <2>3, FS_EmptySet, FS_Singleton
    <3> QED
      BY <3>1
<1>2. CASE ~Occurs(User(m), store.records)
  <2>1. R = {}
    BY <1>2 DEF Occurs
  <2>2. PICK e \in store.queue : e.msg = m
    BY <1>2 DEF AcceptedInv
  <2>3. Q = {e}
    BY <2>2 DEF AcceptedInv
  <2> QED
    <3>1. Cardinality(R) = 0 /\ Cardinality(Q) = 1
      BY <2>1, <2>3, FS_EmptySet, FS_Singleton
    <3> QED
      BY <3>1
<1> QED
  BY <1>1, <1>2

(* THEOREM: an accepted message is in the queue or in the conversation, and *)
(* once, through any offers, retries of offers, aborts, failures and crashes*)
(* (#enqueueIndependently, #consumeQueue).                                  *)
THEOREM AcceptedOnce == Spec => []AcceptedExactlyOnce
<1>1. Init => AcceptedInv
  BY DEF Init, AcceptedInv, Occurs
<1>2. TypeOK /\ AcceptedInv /\ [Next]_vars => AcceptedInv'
  BY AcceptedStep
<1>3. TypeOK /\ AcceptedInv => AcceptedExactlyOnce
  BY AcceptedCounts
<1> QED
  BY <1>1, <1>2, <1>3, TypeCorrect, PTL DEF Spec

-----------------------------------------------------------------------------
(* ConversationInv                                                          *)

(* Which calls are open once a record joins a conversation.                 *)
LEMMA OpenAfter ==
  ASSUME NEW s \in Seq(Record)
  PROVE  /\ \A x \in Record : (\A c \in Calls : x # Call(c) /\ x # Result(c)) =>
                Unanswered(Append(s, x)) = Unanswered(s)
         /\ \A c \in Calls : Unanswered(Append(s, Result(c))) = Unanswered(s) \ {c}
         /\ \A c \in Calls : ~Occurs(Result(c), s) =>
                Unanswered(Append(s, Call(c))) = Unanswered(s) \cup {c}
<1>1. ASSUME NEW x \in Record, \A c \in Calls : x # Call(c) /\ x # Result(c)
      PROVE  Unanswered(Append(s, x)) = Unanswered(s)
  BY <1>1, Appended DEF Unanswered
<1>2. ASSUME NEW c \in Calls PROVE Unanswered(Append(s, Result(c))) = Unanswered(s) \ {c}
  <2>1. Result(c) \in Record
    BY RecordTypes
  <2> QED
    BY <2>1, Appended, RecordsDiffer DEF Unanswered
<1>3. ASSUME NEW c \in Calls, ~Occurs(Result(c), s)
      PROVE  Unanswered(Append(s, Call(c))) = Unanswered(s) \cup {c}
  <2>1. Call(c) \in Record
    BY RecordTypes
  <2> QED
    BY <2>1, <1>3, Appended, RecordsDiffer DEF Unanswered
<1> QED
  BY <1>1, <1>2, <1>3

(* The calls in the store depend on these alone.                            *)
LEMMA StoredKept ==
  ASSUME StoredCallsInv, store'.records = store.records, store'.tools = store.tools,
         log'.ran = log.ran
  PROVE  StoredCallsInv'
BY DEF StoredCallsInv, Entries

(* A record that is neither a call nor a result changes nothing for them.   *)
LEMMA OtherSaid ==
  ASSUME TypeOK, StoredCallsInv, NEW x \in Record,
         \A c \in Calls : x # Call(c) /\ x # Result(c),
         store'.records = Append(store.records, x), store'.tools = store.tools,
         log'.ran = log.ran
  PROVE  StoredCallsInv' /\ Unanswered(store'.records) = Unanswered(store.records)
<1>1. store.records \in Seq(Record)
  BY DEF TypeOK, StoreType
<1>2. Unanswered(store'.records) = Unanswered(store.records)
  BY <1>1, OpenAfter
<1>3. \A c \in Calls : /\ Occurs(Result(c), store'.records) <=> Occurs(Result(c), store.records)
                       /\ Occurs(Call(c), store'.records) <=> Occurs(Call(c), store.records)
  BY <1>1, Appended
<1>4. \A c \in Calls : \A i \in DOMAIN store'.records :
          store'.records[i] \in {Call(c), Result(c)} =>
              i \in DOMAIN store.records /\ store'.records[i] = store.records[i]
  BY <1>1, Appended
<1>5. Entries' = Entries
  BY DEF Entries
<1> QED
  BY <1>2, <1>3, <1>4, <1>5 DEF StoredCallsInv

(* A result answers the one open call, whose entry leaves the batch with it.*)
LEMMA CallAnswered ==
  ASSUME TypeOK, StoredCallsInv, NEW c \in Unanswered(store.records),
         store'.records = Append(store.records, Result(c)), store'.tools = WithoutEntry(c),
         log'.ran = log.ran
  PROVE  StoredCallsInv' /\ Unanswered(store'.records) = {}
<1>1. store.records \in Seq(Record) /\ c \in Calls /\ Result(c) \in Record
  BY RecordTypes DEF TypeOK, StoreType, Unanswered
<1>2. Unanswered(store.records) = {c}
  BY DEF StoredCallsInv
<1>3. Unanswered(store'.records) = {}
  BY <1>1, <1>2, OpenAfter
<1>4. Entries' = {}
  <2>1. Entries \subseteq {c}
    BY <1>2 DEF StoredCallsInv
  <2>2. \A t \in store'.tools : t \in store.tools /\ t.call # c
    BY DEF WithoutEntry
  <2>3. \A t \in store.tools : t.call = c
    BY <2>1 DEF Entries
  <2>4. store'.tools = {}
    BY <2>2, <2>3
  <2> QED
    BY <2>4 DEF Entries
<1>5. \A d \in Calls :
          /\ Occurs(Result(d), store'.records) <=> Occurs(Result(d), store.records) \/ d = c
          /\ Occurs(Call(d), store'.records) <=> Occurs(Call(d), store.records)
  BY <1>1, Appended, RecordsDiffer
<1>6. Occurs(Call(c), store.records) /\ ~Occurs(Result(c), store.records)
  BY DEF Unanswered
<1>7. ASSUME NEW d \in Calls, NEW i \in DOMAIN store'.records, NEW j \in DOMAIN store'.records,
             store'.records[i] = Call(d), store'.records[j] = Result(d)
      PROVE  i < j
  <2>1. i \in DOMAIN store.records /\ store.records[i] = Call(d)
    BY <1>1, <1>7, Appended, RecordsDiffer
  <2>2. CASE j \in DOMAIN store.records
    BY <1>1, <1>7, <2>1, <2>2, Appended DEF StoredCallsInv
  <2>3. CASE j = Len(store.records) + 1
    BY <1>1, <2>1, <2>3, Appended
  <2> QED
    BY <1>1, <2>2, <2>3, Appended
<1>8. \A d \in Calls : log'.ran[d] > 0 => d \in Entries' \/ Occurs(Result(d), store'.records)
  BY <1>2, <1>5 DEF StoredCallsInv
<1> QED
  BY <1>3, <1>4, <1>5, <1>6, <1>7, <1>8 DEF StoredCallsInv

(* A new call, made when none is open, is the one open call; it has not been*)
(* executed.                                                                *)
LEMMA CallMade ==
  ASSUME TypeOK, StoredCallsInv, NEW c \in Calls, ~Occurs(Call(c), store.records),
         Unanswered(store.records) = {},
         store'.records = Append(store.records, Call(c)), store'.tools = store.tools,
         log'.ran = log.ran
  PROVE  StoredCallsInv' /\ Unanswered(store'.records) = {c} /\ log.ran[c] = 0
<1>1. store.records \in Seq(Record) /\ Call(c) \in Record
  BY RecordTypes DEF TypeOK, StoreType
<1>2. ~Occurs(Result(c), store.records)
  BY DEF StoredCallsInv
<1>3. Unanswered(store'.records) = {c}
  BY <1>1, <1>2, OpenAfter
<1>4. Entries = {} /\ Entries' = {}
  BY DEF StoredCallsInv, Entries
<1>5. \A d \in Calls :
          /\ Occurs(Result(d), store'.records) <=> Occurs(Result(d), store.records)
          /\ Occurs(Call(d), store'.records) <=> Occurs(Call(d), store.records) \/ d = c
  BY <1>1, Appended, RecordsDiffer
<1>6. log.ran[c] = 0
  <2>1. log.ran[c] \in Nat
    BY LogFields DEF TypeOK
  <2>2. ~(log.ran[c] > 0)
    BY <1>2, <1>4 DEF StoredCallsInv
  <2> QED
    BY <2>1, <2>2
<1>7. ASSUME NEW d \in Calls, NEW i \in DOMAIN store'.records, NEW j \in DOMAIN store'.records,
             store'.records[i] = Call(d), store'.records[j] = Result(d)
      PROVE  i < j
  <2>1. j \in DOMAIN store.records /\ store.records[j] = Result(d)
    BY <1>1, <1>7, Appended, RecordsDiffer
  <2>2. CASE i \in DOMAIN store.records
    BY <1>1, <1>7, <2>1, <2>2, Appended DEF StoredCallsInv
  <2>3. CASE i = Len(store.records) + 1
    <3>1. d = c
      BY <1>1, <1>7, <2>3, Appended, RecordsDiffer
    <3> QED
      BY <3>1, <2>1, <1>2 DEF Occurs
  <2> QED
    BY <1>1, <2>2, <2>3, Appended
<1> QED
  BY <1>3, <1>4, <1>5, <1>6, <1>7 DEF StoredCallsInv

(* A step that says nothing, or says what cannot come between a call and its*)
(* result, or answers an open call, or makes a call for the first time.     *)
Speaks ==
    /\ log.excused \subseteq log'.excused
    /\ \/ store'.records = store.records
       \/ \E x \in Record :
             /\ \A c \in Calls : x # Call(c) /\ x # Result(c)
             /\ x = Text \/ Unanswered(store.records) \subseteq log.excused
             /\ store'.records = Append(store.records, x)
       \/ \E c \in Unanswered(store.records) :
             store'.records = Append(store.records, Result(c))
       \/ \E c \in Calls :
             /\ ~Occurs(Call(c), store.records)
             /\ store'.records = Append(store.records, Call(c))

(* Where the run is when it holds no conversation it relies on.             *)
Elsewhere ==
    {"idle", "begin", "settleLoaded", "loopStage", "openTurn", "fail", "turnDone", "turnClosed",
     "closeLoop", "loopClosed", "enterSettlement", "settle", "finally"}

(* There, only what is in the store matters.                                *)
LEMMA GoneElsewhere ==
  ASSUME StoredCallsInv', pc' \in Elsewhere
  PROVE  ConversationInv'
BY DEF ConversationInv, LiveContextMatchesStore, KnownCallsInv, OpenCallsInv, BatchInv, Batching,
   Asking, Elsewhere

(* What the run knows, and its batch, as ConversationInv sees them.         *)
known == <<mem.held.messages, mem.turn.partial, mem.turn.batch, mem.turn.resumed, mem.turn.then,
           store.records, store.tools, log.ran>>

(* A step that changes none of this, and leaves the run where it is, or has *)
(* it go elsewhere.                                                         *)
Aside ==
    /\ UNCHANGED known /\ log.excused \subseteq log'.excused
    /\ pc' = pc \/ pc' \in Elsewhere

(* Such a step keeps the conversation.                                      *)
LEMMA AsideKeeps ==
  ASSUME ConversationInv, Aside
  PROVE  ConversationInv' /\ Speaks
<1>1. /\ store'.records = store.records /\ store'.tools = store.tools /\ log'.ran = log.ran
      /\ mem'.held.messages = mem.held.messages /\ mem'.turn.partial = mem.turn.partial
      /\ mem'.turn.batch = mem.turn.batch /\ mem'.turn.resumed = mem.turn.resumed
      /\ mem'.turn.then = mem.turn.then
  BY DEF Aside, known
<1>2. StoredCallsInv'
  BY <1>1, StoredKept DEF ConversationInv
<1>3. ASSUME pc' \in Elsewhere PROVE ConversationInv'
  BY <1>2, <1>3, GoneElsewhere
<1>4. ASSUME pc' = pc PROVE ConversationInv'
  <2>1. LiveContextMatchesStore' /\ KnownCallsInv'
    BY <1>1, <1>4 DEF Aside, ConversationInv, LiveContextMatchesStore, KnownCallsInv, Failed
  <2>2. OpenCallsInv'
    BY <1>1, <1>4 DEF ConversationInv, OpenCallsInv
  <2>3. BatchInv'
    BY <1>1, <1>4 DEF ConversationInv, BatchInv, Entries
  <2> QED
    BY <1>2, <2>1, <2>2, <2>3 DEF ConversationInv
<1> QED
  BY <1>1, <1>3, <1>4 DEF Aside, Speaks

(* Entering a stage writes the pending record alone.                        *)
LEMMA EnterStageAside ==
  ASSUME TypeOK, NEW from, NEW stage, NEW to \in Elsewhere, EnterStage(from, stage, to)
  PROVE  Aside
<1> USE DEF TypeOK, StoreType, MemType, HeldType, RunType, OwedType, TurnType, LogType
<1>1. store'.records = store.records /\ store'.tools = store.tools
  BY DEF EnterStage
<1>2. mem'.held = mem.held /\ mem'.turn = mem.turn
  BY DEF EnterStage
<1>3. log'.ran = log.ran /\ log'.excused = log.excused
  BY DEF EnterStage, Failing
<1>4. pc' = to
  BY DEF EnterStage
<1> QED
  BY <1>1, <1>2, <1>3, <1>4 DEF Aside, known

(* What callers do, and the publication of commits, is aside.               *)
LEMMA CallersAside ==
  ASSUME TypeOK, Callers \/ Publishing \/ Start
  PROVE  Aside
<1> USE DEF TypeOK, StoreType, MemType, HeldType, RunType, OwedType, TurnType, LogType
<1>2. Started \in {pc, "begin"}
  BY DEF Started
<1>3. ASSUME NEW m \in Msgs, NEW k \in Kinds, NEW via \in {"own", "outer"}, Offer(m, k, via)
      PROVE  Aside
  <2>1. /\ store'.records = store.records /\ store'.tools = store.tools
        /\ pc' = pc /\ log' = log
    BY <1>3 DEF Offer
  <2>2. PICK key : mem' = [mem EXCEPT
                      !.held.publishing = {[entry |-> [kind |-> k, key |-> key, msg |-> m],
                                            via |-> via]},
                      !.owed.pending = IF via = "own" THEN Owing("inference") ELSE @]
    BY <1>3, Zenon DEF Offer
  <2>3. mem'.held.messages = mem.held.messages /\ mem'.turn = mem.turn
    BY <2>2
  <2> QED
    BY <2>1, <2>3 DEF Aside, known
<1>4. CASE Abort \/ Drain \/ Close
  <2>1. store' = store /\ pc' = pc
    BY <1>4 DEF Abort, Drain, Close
  <2>3. mem'.held.messages = mem.held.messages /\ mem'.turn = mem.turn
    <3>1. CASE Abort
      BY <3>1 DEF Abort
    <3>2. CASE Drain
      BY <3>2 DEF Drain
    <3>3. CASE Close
      BY <3>3 DEF Close
    <3> QED
      BY <1>4, <3>1, <3>2, <3>3
  <2>2. log'.ran = log.ran /\ log'.excused = log.excused
    BY <1>4 DEF Abort, Drain, Close, Abandoning
  <2> QED
    BY <2>1, <2>2, <2>3 DEF Aside, known
<1>5. CASE MarkCommitted
  <2>1. store' = store /\ pc' = pc /\ log' = log
    BY <1>5 DEF MarkCommitted
  <2>2. PICK p \in mem.held.publishing :
            mem' = [mem EXCEPT !.held.dirty = TRUE,
                               !.held.publishing = {[p EXCEPT !.via = "marked"]}]
    BY <1>5 DEF MarkCommitted
  <2>3. mem'.held.messages = mem.held.messages /\ mem'.turn = mem.turn
    BY <2>2
  <2> QED
    BY <2>1, <2>3 DEF Aside, known
<1>6. CASE Publish \/ ActivateCommitted \/ Start
  <2>1. /\ store' = store /\ pc' = Started
        /\ log'.ran = log.ran /\ log'.excused = log.excused
    BY <1>6 DEF Publish, ActivateCommitted, Start
  <2>2. mem'.held.messages = mem.held.messages /\ mem'.turn = mem.turn
    <3>1. CASE Publish
      <4>1. PICK p \in mem.held.publishing :
              mem' = Opening([mem EXCEPT !.held.waiting = @ \cup {p.entry},
                                         !.run.turnRequested = TRUE,
                                         !.held.publishing = {}])
        BY <3>1 DEF Publish
      <4> QED
        BY <4>1 DEF Opening, NewRun
    <3>2. CASE ActivateCommitted
      <4> DEFINE m == [mem EXCEPT
                 !.owed.pending = IF pc = "idle" THEN store.owed ELSE @,
                 !.owed.requestOpen = IF pc = "idle" THEN store.owed.open ELSE @,
                 !.run.turnRequested = TRUE,
                 !.held.publishing = {}]
      <4>1. mem' = Opening(m)
        BY <3>2, Zenon DEF ActivateCommitted
      <4>2. m.held.messages = mem.held.messages /\ m.turn = mem.turn
        OBVIOUS
      <4>3. Opening(m).held = m.held /\ Opening(m).turn = m.turn
        BY DEF Opening, NewRun
      <4> HIDE DEF m
      <4> QED
        BY <4>1, <4>2, <4>3
    <3>3. CASE Start
      BY <3>3 DEF Start, Opening, NewRun
    <3> QED
      BY <1>6, <3>1, <3>2, <3>3
  <2> QED
    BY <1>2, <2>1, <2>2 DEF Aside, known, Elsewhere
<1> QED
  BY <1>3, <1>4, <1>5, <1>6 DEF Callers, Publishing

(* While it loads, the run only has to have left a failure behind.          *)
LEMMA LoadingKeeps ==
  ASSUME StoredCallsInv', pc' \in {"load", "assign"}, ~Failed'
  PROVE  ConversationInv'
BY DEF ConversationInv, LiveContextMatchesStore, KnownCallsInv, OpenCallsInv, BatchInv, Batching,
   Asking

(* A turn opens on a load, whatever ended the one before it.                *)
LEMMA BeginTurnKeeps ==
  ASSUME TypeOK, ConversationInv, store' = store, NEW m \in MemType, BeginTurn(m)
  PROVE  ConversationInv' /\ Speaks
<1> USE DEF TypeOK, MemType, HeldType, RunType, OwedType, TurnType, LogType
<1>1. mem'.turn.then = "turn" /\ pc' = "load"
  BY DEF BeginTurn
<1>2. log'.ran = log.ran /\ log'.excused = log.excused
  BY DEF BeginTurn
<1>3. StoredCallsInv'
  BY <1>2, StoredKept DEF ConversationInv
<1> QED
  BY <1>1, <1>2, <1>3, LoadingKeeps DEF Failed, Speaks

(* The steps that open a run and a loop, and load the conversation.         *)
LEMMA OpeningKeepsCalls ==
  ASSUME TypeOK, ConversationInv, OpeningStep \/ LoadStep
  PROVE  ConversationInv' /\ Speaks
<1> USE DEF TypeOK, StoreType, MemType, HeldType, RunType, OwedType, TurnType, LogType
<1>1. CASE BeginRun
  <2>1. store' = store /\ log' = log
    BY <1>1 DEF BeginRun
  <2>2. StoredCallsInv'
    BY <2>1, StoredKept DEF ConversationInv
  <2>3. \/ pc' \in Elsewhere
        \/ pc' = "load" /\ mem'.turn.then = "settle"
    BY <1>1 DEF BeginRun, Elsewhere
  <2> QED
    BY <2>1, <2>2, <2>3, GoneElsewhere, LoadingKeeps DEF Speaks, Failed
<1>2. CASE SettleLoaded
  <2>1. store' = store /\ log' = log /\ pc' \in Elsewhere
    BY <1>2 DEF SettleLoaded, Elsewhere
  <2>2. StoredCallsInv'
    BY <2>1, StoredKept DEF ConversationInv
  <2> QED
    BY <2>1, <2>2, GoneElsewhere DEF Speaks
<1>3. CASE LoopStage
  BY <1>3, EnterStageAside, AsideKeeps DEF LoopStage, Elsewhere
<1>4. CASE OpenTurn
  <2>1. CASE pc' = "finally" /\ UNCHANGED <<store, mem, log>>
    BY <2>1, AsideKeeps DEF Aside, known, Elsewhere
  <2>2. CASE BeginTurn(mem) /\ store' = store
    BY <2>2, BeginTurnKeeps
  <2> QED
    BY <1>4, <2>1, <2>2 DEF OpenTurn
<1>5. CASE ReadHistory
  <2>1. /\ store' = store /\ log' = log /\ mem'.turn.then = mem.turn.then
        /\ pc = "load" /\ pc' = "assign"
    BY <1>5 DEF ReadHistory
  <2>2. StoredCallsInv' /\ ~Failed
    BY <2>1, StoredKept DEF ConversationInv, KnownCallsInv
  <2> QED
    BY <2>1, <2>2, LoadingKeeps DEF Failed, Speaks
<1>6. CASE AssignHistory
  <2>1. /\ store' = store /\ log' = log /\ pc = "assign"
        /\ pc' = IF mem.turn.then = "settle" THEN "settleLoaded" ELSE "turnStage"
    BY <1>6 DEF AssignHistory
  <2>2. /\ mem'.held.messages = store.records /\ mem'.turn.then = mem.turn.then
        /\ mem'.turn.resumed = (Entries # {})
        /\ mem'.turn.batch = IF Entries # {} THEN Entries ELSE Unanswered(store.records)
    <3>1. PICK batch : batch = IF Entries # {} THEN Entries ELSE Unanswered(store.records)
      OBVIOUS
    <3>2. mem' = [mem EXCEPT !.held.messages = store.records, !.held.waiting = mem.held.snapshot,
                             !.held.snapshot = {}, !.held.loaded = TRUE, !.held.dirty = FALSE,
                             !.turn.batch = batch, !.turn.resumed = (Entries # {})]
      BY <1>6, <3>1 DEF AssignHistory, Entries
    <3>3. mem \in MemType /\ mem.held \in HeldType /\ mem.turn \in TurnType
      BY DEF TypeOK
    <3>4. mem'.held.messages = store.records
      BY <3>2, <3>3
    <3>5. mem'.turn.then = mem.turn.then
      BY <3>2, <3>3
    <3>6. mem'.turn.resumed = (Entries # {})
      BY <3>2, <3>3
    <3>7. mem'.turn.batch = batch
      BY <3>2, <3>3
    <3> QED
      BY <3>1, <3>4, <3>5, <3>6, <3>7, Zenon
  <2>3. StoredCallsInv' /\ ~Failed
    BY <2>1, StoredKept DEF ConversationInv, KnownCallsInv
  <2>4. mem'.turn.batch = Unanswered(store.records)
    <3>1. /\ Entries \subseteq Unanswered(store.records)
          /\ \A c, d \in Unanswered(store.records) : c = d
      BY DEF ConversationInv, StoredCallsInv
    <3>2. CASE Entries # {}
      <4>2. PICK c : c \in Entries
        BY <3>2
      <4>1. Entries = Unanswered(store.records)
        <5>1. Unanswered(store.records) \subseteq Entries
          BY <3>1, <4>2
        <5> QED
          BY <3>1, <5>1
      <4> QED
        BY <2>2, <3>2, <4>1
    <3> QED
      BY <2>2, <3>2
  <2>5. ASSUME Entries = {}, NEW c \in Unanswered(store.records) PROVE log.ran[c] = 0
    <3>1. c \in Calls /\ ~Occurs(Result(c), store.records)
      BY DEF Unanswered
    <3>2. log.ran[c] \in Nat /\ ~(log.ran[c] > 0)
      BY <2>5, <3>1 DEF ConversationInv, StoredCallsInv
    <3> QED
      BY <3>2
  <2>6. Entries' = Entries
    BY <2>1 DEF Entries
  <2>7. CASE pc' = "turnStage"
    <3>1. LiveContextMatchesStore' /\ KnownCallsInv'
      BY <2>1, <2>2, <2>3, <2>7 DEF LiveContextMatchesStore, KnownCallsInv, Failed
    <3>2. OpenCallsInv'
      BY <2>1, <2>4, <2>7 DEF OpenCallsInv, Asking
    <3>3. BatchInv'
      <4>1. CASE Entries = {}
        <5>1. ~mem'.turn.resumed
          BY <2>2, <4>1, Zenon
        <5>2. \A c \in mem'.turn.batch : log'.ran[c] = 0
          BY <2>1, <2>4, <2>5, <4>1
        <5> QED
          BY <5>1, <5>2, <2>7 DEF BatchInv
      <4>2. CASE Entries # {}
        <5>1. mem'.turn.resumed /\ mem'.turn.batch \subseteq Entries'
          BY <2>2, <2>6, <4>2
        <5> QED
          BY <5>1, <2>7 DEF BatchInv
      <4> QED
        BY <4>1, <4>2
    <3> QED
      BY <2>1, <2>3, <3>1, <3>2, <3>3 DEF ConversationInv, Speaks
  <2>8. CASE pc' = "settleLoaded"
    BY <2>1, <2>3, <2>8, GoneElsewhere DEF Elsewhere, Speaks
  <2> QED
    BY <2>1, <2>7, <2>8
<1>7. CASE LoadFails
  <2>1. store' = store /\ log'.ran = log.ran /\ pc' \in Elsewhere
    <3>1. store' = store /\ pc' \in Elsewhere
      BY <1>7 DEF LoadFails, Elsewhere
    <3>2. log'.ran = log.ran
      BY <1>7 DEF LoadFails, Failing, Abandoning
    <3> QED
      BY <3>1, <3>2
  <2>2. log.excused \subseteq log'.excused
    <3>1. Failing.excused = log.excused /\ Abandoning(Failing).excused = log.excused
      BY DEF Failing, Abandoning
    <3>2. Abandoning(Failing) \in LogType /\ Failing \in LogType
      BY HelperTypes DEF TypeOK
    <3>3. \/ log' = Failing
          \/ log' = [Abandoning(Failing) EXCEPT !.excused = @ \cup Unanswered(store.records)]
      BY <1>7 DEF LoadFails
    <3>4. PICK f : f = Abandoning(Failing)
      OBVIOUS
    <3>5. \A x : [f EXCEPT !.excused = @ \cup x].excused = f.excused \cup x
      BY <3>2, <3>4
    <3>6. \/ log' = Failing
          \/ log' = [f EXCEPT !.excused = @ \cup Unanswered(store.records)]
      BY <3>3, <3>4, Zenon
    <3>7. CASE log' = Failing
      BY <3>1, <3>7
    <3>8. CASE log' = [f EXCEPT !.excused = @ \cup Unanswered(store.records)]
      <4>1. PICK x : x = Unanswered(store.records)
        OBVIOUS
      <4>2. log'.excused = f.excused \cup x
        BY <3>5, <3>8, <4>1
      <4> QED
        BY <3>1, <3>4, <4>2
    <3> QED
      BY <3>6, <3>7, <3>8
  <2>3. StoredCallsInv'
    BY <2>1, StoredKept DEF ConversationInv
  <2> QED
    BY <2>1, <2>2, <2>3, GoneElsewhere DEF Speaks
<1>8. CASE TurnStage
  <2>1. /\ store'.records = store.records /\ store'.tools = store.tools
        /\ mem'.held.messages = mem.held.messages /\ mem'.turn = mem.turn
        /\ pc = "turnStage" /\ pc' = "resume"
    BY <1>8 DEF TurnStage, EnterStage
  <2>2. log'.ran = log.ran /\ log'.excused = log.excused
    BY <1>8 DEF TurnStage, EnterStage, Failing
  <2>3. StoredCallsInv' /\ Entries' = Entries
    BY <2>1, <2>2, StoredKept DEF ConversationInv, Entries
  <2> QED
    BY <2>1, <2>2, <2>3 DEF ConversationInv, LiveContextMatchesStore, KnownCallsInv, OpenCallsInv,
       BatchInv, Batching, Asking, Failed, Speaks
<1> QED
  BY <1>1, <1>2, <1>3, <1>4, <1>5, <1>6, <1>7, <1>8 DEF OpeningStep, LoadStep

(* Before the model is asked, the run holds the conversation with no call   *)
(* open.                                                                    *)
LEMMA AskingLands ==
  ASSUME StoredCallsInv', pc' \in Asking, ~Failed', mem'.held.messages = store'.records,
         Unanswered(store'.records) = {}, pc' = "asked" => mem'.turn.partial = <<>>
  PROVE  ConversationInv'
<1>1. LiveContextMatchesStore'
  BY DEF LiveContextMatchesStore
<1>2. KnownCallsInv'
  BY DEF KnownCallsInv, Asking
<1>3. OpenCallsInv'
  BY DEF OpenCallsInv, Asking, Batching
<1>4. BatchInv'
  BY DEF BatchInv, Asking
<1> QED
  BY <1>1, <1>2, <1>3, <1>4 DEF ConversationInv

(* What that means where it stands.                                         *)
LEMMA AskingHolds ==
  ASSUME ConversationInv, pc \in Asking
  PROVE  /\ StoredCallsInv /\ ~Failed /\ mem.held.messages = store.records
         /\ Unanswered(store.records) = {}
         /\ pc = "asked" => mem.turn.partial = <<>>
BY DEF ConversationInv, LiveContextMatchesStore, KnownCallsInv, OpenCallsInv

(* While the response streams, its blocks are in the store alone, and the   *)
(* call among them is the open one.                                         *)
LEMMA ResponseLands ==
  ASSUME StoredCallsInv', pc' \in {"stream", "responded"},
         store'.records = mem'.held.messages \o mem'.turn.partial,
         Unanswered(mem'.held.messages) = {},
         Unanswered(store'.records) = {c \in Calls : Occurs(Call(c), mem'.turn.partial)},
         \A c \in Calls : Occurs(Call(c), mem'.turn.partial) => log'.ran[c] = 0
  PROVE  ConversationInv'
<1>1. LiveContextMatchesStore'
  BY DEF LiveContextMatchesStore, Batching, Asking
<1>2. KnownCallsInv'
  BY DEF KnownCallsInv, Batching, Asking
<1>3. OpenCallsInv'
  BY DEF OpenCallsInv, Asking, Batching
<1>4. BatchInv'
  BY DEF BatchInv
<1> QED
  BY <1>1, <1>2, <1>3, <1>4 DEF ConversationInv

(* A batch on its way is the open calls, as the run knows them.             *)
LEMMA BatchLands ==
  ASSUME StoredCallsInv', pc' \in Batching, ~Failed', mem'.held.messages = store'.records,
         mem'.turn.batch = Unanswered(store'.records),
         \/ /\ pc' \in {"turnStage", "resume", "dispatch"}
            /\ IF mem'.turn.resumed THEN mem'.turn.batch \subseteq Entries'
               ELSE \A c \in mem'.turn.batch : log'.ran[c] = 0
         \/ /\ pc' \in {"execute", "running", "commit"} /\ mem'.turn.batch \subseteq Entries'
            /\ pc' = "execute" /\ ~mem'.turn.resumed =>
                   \A c \in mem'.turn.batch : log'.ran[c] = 0
  PROVE  ConversationInv'
<1>1. LiveContextMatchesStore'
  BY DEF LiveContextMatchesStore
<1>2. KnownCallsInv'
  BY DEF KnownCallsInv, Batching
<1>3. OpenCallsInv'
  BY DEF OpenCallsInv, Asking, Batching
<1>4. BatchInv'
  BY DEF BatchInv
<1> QED
  BY <1>1, <1>2, <1>3, <1>4 DEF ConversationInv

(* What that means where it stands.                                         *)
LEMMA BatchHolds ==
  ASSUME ConversationInv, pc \in Batching
  PROVE  /\ StoredCallsInv /\ ~Failed /\ mem.held.messages = store.records
         /\ mem.turn.batch = Unanswered(store.records)
BY DEF ConversationInv, LiveContextMatchesStore, KnownCallsInv, OpenCallsInv

(* While the model is about to be asked, the run moves on without touching  *)
(* the conversation ...                                                     *)
LEMMA AskingMoves ==
  ASSUME ConversationInv, UNCHANGED known, log'.excused = log.excused,
         pc \in Asking, pc' \in (Asking \ {"asked"}) \cup {"note"} \cup Elsewhere
  PROVE  ConversationInv' /\ Speaks
<1>1. /\ store'.records = store.records /\ store'.tools = store.tools /\ log'.ran = log.ran
      /\ mem'.held.messages = mem.held.messages /\ mem'.turn.then = mem.turn.then
  BY DEF known
<1>2. StoredCallsInv'
  BY <1>1, StoredKept DEF ConversationInv
<1>3. Speaks
  BY <1>1 DEF Speaks
<1>4. mem.held.messages = store.records /\ ~Failed' /\ Unanswered(store.records) = {}
  BY <1>1, AskingHolds DEF Failed
<1>5. CASE pc' \in Asking \ {"asked"}
  BY <1>1, <1>2, <1>3, <1>4, <1>5, AskingLands
<1>6. CASE pc' = "note"
  <2>1. LiveContextMatchesStore' /\ OpenCallsInv' /\ BatchInv'
    BY <1>6 DEF LiveContextMatchesStore, OpenCallsInv, BatchInv, Batching, Asking
  <2>2. KnownCallsInv'
    BY <1>1, <1>4, <1>6 DEF KnownCallsInv, Batching, Asking
  <2> QED
    BY <1>2, <1>3, <2>1, <2>2 DEF ConversationInv
<1> QED
  BY <1>2, <1>3, <1>5, <1>6, GoneElsewhere

(* ... or says, in the store and in memory, what is no call and no result.  *)
LEMMA AskingSays ==
  ASSUME TypeOK, ConversationInv, pc \in Asking, pc' \in Asking,
         pc' = "asked" => mem'.turn.partial = <<>>,
         NEW x \in Record, \A c \in Calls : x # Call(c) /\ x # Result(c),
         store'.records = Append(store.records, x),
         mem'.held.messages = Append(mem.held.messages, x),
         store'.tools = store.tools, mem'.turn.then = mem.turn.then,
         log'.ran = log.ran, log'.excused = log.excused
  PROVE  ConversationInv' /\ Speaks
<1>1. /\ StoredCallsInv /\ mem.held.messages = store.records /\ ~Failed'
      /\ Unanswered(store.records) = {}
  BY AskingHolds DEF Failed
<1>2. StoredCallsInv' /\ Unanswered(store'.records) = {}
  BY <1>1, OtherSaid
<1>3. Speaks
  BY <1>1 DEF Speaks
<1> QED
  BY <1>1, <1>2, <1>3, AskingLands

(* The steps of one inference attempt, up to the provider call.             *)
LEMMA CycleKeepsCalls ==
  ASSUME TypeOK, ConversationInv, CycleStep
  PROVE  ConversationInv' /\ Speaks
<1> USE DEF TypeOK, StoreType, MemType, HeldType, RunType, OwedType, TurnType, LogType
<1>1. CASE BeginInference
  <2>1. store' = store /\ log' = log /\ pc = "resume"
    BY <1>1 DEF BeginInference
  <2>2. \/ pc' = "finally" /\ mem' = mem
        \/ /\ mem' = [mem EXCEPT !.owed.requestOpen = @ /\ ~InheritedRequestAnswered,
                                 !.turn.state = "none", !.turn.stopped = FALSE,
                                 !.turn.needs = mem.turn.batch # {}]
           /\ \/ pc' \in {"turnDone", "dispatch"}
              \/ pc' = "recover" /\ mem.turn.batch = {}
    BY <1>1, Zenon DEF BeginInference
  <2>3. /\ mem'.held.messages = mem.held.messages
        /\ mem'.turn.batch = mem.turn.batch
        /\ mem'.turn.resumed = mem.turn.resumed /\ mem'.turn.then = mem.turn.then
    <3>1. CASE mem' = mem
      BY <3>1
    <3>2. CASE mem' = [mem EXCEPT !.owed.requestOpen = @ /\ ~InheritedRequestAnswered,
                                  !.turn.state = "none", !.turn.stopped = FALSE,
                                  !.turn.needs = mem.turn.batch # {}]
      BY <3>2
    <3> QED
      BY <2>2, <3>1, <3>2, Zenon
  <2>4. StoredCallsInv' /\ Entries' = Entries /\ Speaks
    BY <2>1, StoredKept DEF ConversationInv, Entries, Speaks
  <2>5. /\ mem.held.messages = store.records /\ ~Failed'
        /\ mem.turn.batch = Unanswered(store.records)
    BY <2>1, <2>3, BatchHolds DEF Batching, Failed
  <2>6. CASE pc' \in {"finally", "turnDone"}
    BY <2>4, <2>6, GoneElsewhere DEF Elsewhere
  <2>7. CASE pc' = "dispatch"
    <3>1. IF mem.turn.resumed THEN mem.turn.batch \subseteq Entries
          ELSE \A c \in mem.turn.batch : log.ran[c] = 0
      BY <2>1 DEF ConversationInv, BatchInv
    <3> QED
      BY <2>1, <2>3, <2>4, <2>5, <2>7, <3>1, BatchLands DEF Batching
  <2>8. CASE pc' = "recover" /\ mem.turn.batch = {}
    BY <2>1, <2>3, <2>4, <2>5, <2>8, AskingLands DEF Asking
  <2> QED
    BY <2>2, <2>6, <2>7, <2>8, Zenon
<1>2. CASE Recover \/ RefreshCommittedQueues
  <2>1. /\ store' = store /\ log' = log /\ mem'.held.messages = mem.held.messages
        /\ mem'.turn.partial = mem.turn.partial /\ mem'.turn.batch = mem.turn.batch
        /\ mem'.turn.resumed = mem.turn.resumed /\ mem'.turn.then = mem.turn.then
    <3>1. CASE Recover
      BY <3>1 DEF Recover
    <3>2. CASE RefreshCommittedQueues
      BY <3>2 DEF RefreshCommittedQueues
    <3> QED
      BY <1>2, <3>1, <3>2
  <2>2. pc \in Asking /\ pc' \in Asking \ {"asked"}
    BY <1>2 DEF Recover, RefreshCommittedQueues, Asking
  <2> QED
    BY <2>1, <2>2, AskingMoves DEF known
<1>3. CASE StopCycle \/ NothingQueued \/ LeaveRequest
  <2>1. UNCHANGED <<store, mem, log>>
    BY <1>3 DEF StopCycle, NothingQueued, LeaveRequest
  <2>2. /\ pc \in Asking
        /\ pc' \in {"finally", "note", "request", "send", "cycle"}
    BY <1>3 DEF StopCycle, NothingQueued, LeaveRequest, Asking, Kinds
  <2> QED
    BY <2>1, <2>2, AskingMoves DEF known, Asking, Elsewhere
<1>4. ASSUME NEW k \in Kinds, ConsumeQueue(k)
      PROVE  ConversationInv' /\ Speaks
  <2>1. PICK e \in store.queue :
            /\ store' = [store EXCEPT !.queue = @ \ {e}, !.records = Append(@, User(e.msg)),
                                      !.owed = Recorded("inference")]
            /\ mem' = [mem EXCEPT
                   !.held.waiting = @ \ {e},
                   !.held.messages = Append(@, User(e.msg)),
                   !.owed.pending = Owing("inference"),
                   !.run.turnRequested = StillRequested(mem.held.waiting \ {e})]
    <3>1. PICK e \in Oldest(Consumable(k)) :
            /\ store' = [store EXCEPT !.queue = @ \ {e}, !.records = Append(@, User(e.msg)),
                                      !.owed = Recorded("inference")]
            /\ mem' = [mem EXCEPT
                   !.held.waiting = @ \ {e},
                   !.held.messages = Append(@, User(e.msg)),
                   !.owed.pending = Owing("inference"),
                   !.run.turnRequested = StillRequested(mem.held.waiting \ {e})]
      BY <1>4, Zenon DEF ConsumeQueue
    <3>2. e \in store.queue
      BY DEF Oldest, Consumable, OfKind
    <3> QED
      BY <3>1, <3>2, Zenon
  <2>2. log'.ran = log.ran /\ log'.excused = log.excused
    BY <1>4 DEF ConsumeQueue
  <2>3. pc \in Asking /\ pc' = "request"
    BY <1>4 DEF ConsumeQueue, Kinds, Asking
  <2>4. e.msg \in Msgs /\ User(e.msg) \in Record
    BY RecordTypes DEF Entry
  <2>5. /\ store'.records = Append(store.records, User(e.msg)) /\ store'.tools = store.tools
        /\ mem'.held.messages = Append(mem.held.messages, User(e.msg))
        /\ mem'.turn.then = mem.turn.then
    BY <2>1
  <2> QED
    BY <2>2, <2>3, <2>4, <2>5, RecordsDiffer, AskingSays DEF Asking
<1>5. CASE RequestInference
  <2> DEFINE notice == IF EndsWithResponse(mem.held.messages) THEN <<System>> ELSE <<>>
  <2>1. pc \in Asking /\ pc' = "asked" /\ pc' \in Asking
    BY <1>5 DEF RequestInference, Asking
  <2> DEFINE asked == /\ store' = [store EXCEPT
                           !.owed = IF mem.owed.pending = Requesting THEN @ ELSE Requesting,
                           !.records = @ \o notice]
                      /\ mem' = [mem EXCEPT
                           !.owed.requestOpen = TRUE, !.owed.pending = Requesting,
                           !.held.messages = @ \o notice, !.turn.partial = <<>>]
                      /\ log' = log
             unnamed == /\ mem' = [mem EXCEPT !.owed.requestOpen = TRUE, !.turn.partial = <<>>]
                        /\ log' = [Failing EXCEPT !.unnamed = TRUE]
                        /\ store' = store
             told == /\ mem'.turn.partial = <<>> /\ mem'.turn.then = mem.turn.then
                     /\ store'.tools = store.tools
                     /\ log'.ran = log.ran /\ log'.excused = log.excused
                     /\ \/ /\ store'.records = store.records \o notice
                           /\ mem'.held.messages = mem.held.messages \o notice
                        \/ /\ store'.records = store.records
                           /\ mem'.held.messages = mem.held.messages
  <2>2. asked \/ unnamed
    BY <1>5, Zenon DEF RequestInference
  <2>3. notice \in {<<>>, <<System>>}
    OBVIOUS
  <2> HIDE DEF notice
  <2>4. ASSUME asked PROVE told
    <3>1. mem'.turn.partial = <<>> /\ mem'.turn.then = mem.turn.then
      BY <2>4
    <3>2. mem'.held.messages = mem.held.messages \o notice
      BY <2>4
    <3>3. store'.tools = store.tools /\ store'.records = store.records \o notice
      BY <2>4
    <3> QED
      BY <2>4, <3>1, <3>2, <3>3
  <2>5. ASSUME unnamed PROVE told
    <3>1. mem'.turn.partial = <<>> /\ mem'.turn.then = mem.turn.then /\ mem'.held = mem.held
      BY <2>5
    <3>2. log'.ran = log.ran /\ log'.excused = log.excused
      BY <2>5 DEF Failing
    <3> QED
      BY <2>5, <3>1, <3>2
  <2> HIDE DEF asked, unnamed
  <2>6. told
    BY <2>2, <2>4, <2>5
  <2>7. CASE store'.records = store.records /\ mem'.held.messages = mem.held.messages
    <3>1. StoredCallsInv' /\ Speaks
      BY <2>6, <2>7, StoredKept DEF ConversationInv, Speaks
    <3>2. /\ mem.held.messages = store.records /\ ~Failed'
          /\ Unanswered(store.records) = {}
      BY <2>1, <2>6, AskingHolds DEF Failed
    <3> QED
      BY <2>1, <2>6, <2>7, <3>1, <3>2, AskingLands
  <2>8. CASE /\ store'.records = Append(store.records, System)
             /\ mem'.held.messages = Append(mem.held.messages, System)
    <3>1. System \in Record /\ \A c \in Calls : System # Call(c) /\ System # Result(c)
      BY RecordTypes, RecordsDiffer
    <3>2. /\ mem'.turn.partial = <<>> /\ mem'.turn.then = mem.turn.then
          /\ store'.tools = store.tools /\ log'.ran = log.ran /\ log'.excused = log.excused
      BY <2>6
    <3> QED
      BY <2>1, <2>8, <3>1, <3>2, AskingSays
  <2>9. /\ store.records \in Seq(Record) /\ mem.held.messages \in Seq(Record)
    BY DEF TypeOK
  <2>10. CASE notice = <<>>
    <3>1. store.records \o notice = store.records /\ mem.held.messages \o notice = mem.held.messages
      BY <2>9, <2>10, NoticeAppended
    <3> QED
      BY <2>6, <2>7, <3>1
  <2>11. CASE notice = <<System>>
    <3>1. /\ store.records \o notice = Append(store.records, System)
          /\ mem.held.messages \o notice = Append(mem.held.messages, System)
      BY <2>9, <2>11, NoticeAppended
    <3> QED
      BY <2>6, <2>7, <2>8, <3>1
  <2> QED
    BY <2>3, <2>10, <2>11
<1>6. CASE OpenStream
  <2>1. UNCHANGED <<store, mem, log>> /\ pc = "asked" /\ pc' \in {"cycle", "stream"}
    BY <1>6 DEF OpenStream
  <2>2. CASE pc' = "cycle"
    BY <2>1, <2>2, AskingMoves DEF known, Asking
  <2>3. CASE pc' = "stream"
    <3>1. /\ mem.held.messages = store.records /\ Unanswered(store.records) = {}
          /\ mem.turn.partial = <<>>
      BY <2>1, AskingHolds DEF Asking
    <3>2. StoredCallsInv' /\ Speaks
      BY <2>1, StoredKept DEF ConversationInv, Speaks
    <3>3. \A r : ~Occurs(r, <<>>)
      BY DEF Occurs
    <3>4. store.records \o <<>> = store.records
      BY NoticeAppended
    <3> QED
      BY <2>1, <2>3, <3>1, <3>2, <3>3, <3>4, ResponseLands
  <2> QED
    BY <2>1, <2>2, <2>3
<1> QED
  BY <1>1, <1>2, <1>3, <1>4, <1>5, <1>6 DEF CycleStep

(* The calls left open are settled over the conversation as it is, or, when *)
(* a stream failed, they are excused.                                       *)
LEMMA SettlingLands ==
  ASSUME StoredCallsInv', pc' = "settleCalls",
         ~Failed' => mem'.held.messages = store'.records,
         Failed' => \/ mem'.held.messages = store'.records
                    \/ /\ Unanswered(mem'.held.messages) = {}
                       /\ Unanswered(store'.records) \subseteq log'.excused
  PROVE  ConversationInv'
<1>1. LiveContextMatchesStore' /\ OpenCallsInv' /\ BatchInv'
  BY DEF LiveContextMatchesStore, OpenCallsInv, BatchInv, Batching, Asking
<1>2. KnownCallsInv'
  BY DEF KnownCallsInv, Batching, Asking
<1> QED
  BY <1>1, <1>2 DEF ConversationInv

(* Staged, they are the batch.                                              *)
LEMMA StagedLands ==
  ASSUME StoredCallsInv', pc' = "appendResults",
         ~Failed' => mem'.held.messages = store'.records,
         mem'.turn.batch = Unanswered(store'.records), mem'.turn.batch \subseteq Entries'
  PROVE  ConversationInv'
<1>1. LiveContextMatchesStore' /\ KnownCallsInv'
  BY DEF LiveContextMatchesStore, KnownCallsInv, Batching, Asking
<1>2. OpenCallsInv'
  BY DEF OpenCallsInv, Batching, Asking
<1>3. BatchInv'
  BY DEF BatchInv
<1> QED
  BY <1>1, <1>2, <1>3 DEF ConversationInv

(* A turn ends over the conversation as it is; a failed one, with no open   *)
(* call that is not excused.                                                *)
LEMMA NoteLands ==
  ASSUME StoredCallsInv', pc' = "note",
         ~Failed' => mem'.held.messages = store'.records,
         Failed' => Unanswered(store'.records) \subseteq log'.excused
  PROVE  ConversationInv'
<1>1. LiveContextMatchesStore' /\ OpenCallsInv' /\ BatchInv'
  BY DEF LiveContextMatchesStore, OpenCallsInv, BatchInv, Batching, Asking
<1>2. KnownCallsInv'
  BY DEF KnownCallsInv, Batching, Asking
<1> QED
  BY <1>1, <1>2 DEF ConversationInv

(* Open calls may be entered in the durable batch.                          *)
LEMMA CallsEntered ==
  ASSUME StoredCallsInv, store'.records = store.records, log'.ran = log.ran,
         Entries \subseteq Entries', Entries' \subseteq Unanswered(store.records)
  PROVE  StoredCallsInv'
BY DEF StoredCallsInv

(* The calls of a batch entered in the store.                               *)
LEMMA BatchEntered ==
  ASSUME NEW C,
         \/ store'.tools = store.tools \cup {Entered(c, TRUE) : c \in C}
         \/ store'.tools = store.tools \cup {Entered(c, FALSE) : c \in C}
  PROVE  Entries' = Entries \cup C
<1>1. \A c : Entered(c, TRUE).call = c /\ Entered(c, FALSE).call = c
  BY DEF Entered
<1>2. ASSUME NEW x \in Entries' PROVE x \in Entries \cup C
  <2>1. PICK t \in store'.tools : x = t.call
    BY DEF Entries
  <2>2. t \in store.tools \/ \E c \in C : t = Entered(c, TRUE) \/ t = Entered(c, FALSE)
    BY Zenon
  <2> QED
    BY <1>1, <2>1, <2>2 DEF Entries
<1>3. ASSUME NEW x \in Entries PROVE x \in Entries'
  BY Zenon DEF Entries
<1>4. ASSUME NEW x \in C PROVE x \in Entries'
  <2>1. Entered(x, TRUE) \in store'.tools \/ Entered(x, FALSE) \in store'.tools
    BY Zenon
  <2> QED
    BY <1>1, <2>1, Zenon DEF Entries
<1> QED
  BY <1>2, <1>3, <1>4

(* A block joins what was streamed so far, in the store and in memory.      *)
LEMMA BlockJoins ==
  ASSUME NEW s \in Seq(Record), NEW t \in Seq(Record), NEW x \in Record
  PROVE  Append(s \o t, x) = s \o Append(t, x)
<1>1. s \o t \in Seq(Record) /\ <<x>> \in Seq(Record)
  OBVIOUS
<1>2. Append(s \o t, x) = (s \o t) \o <<x>>
  BY <1>1, AppendIsConcat
<1>3. Append(t, x) = t \o <<x>>
  BY AppendIsConcat
<1> QED
  BY <1>1, <1>2, <1>3, ConcatAssociative

(* The finished blocks of a response.                                       *)
LEMMA StreamingKeepsCalls ==
  ASSUME TypeOK, ConversationInv, StreamBlock
  PROVE  ConversationInv' /\ Speaks
<1> USE DEF TypeOK, StoreType, MemType, HeldType, TurnType, LogType
<1>1. PICK r \in {Text} \cup {Call(c) : c \in Calls} :
        /\ r.type = "call" =>
              /\ ~Occurs(r, store.records)
              /\ \A c \in Calls : ~Occurs(Call(c), mem.turn.partial)
        /\ store' = [store EXCEPT !.records = Append(@, r)]
        /\ mem' = [mem EXCEPT !.turn.partial = Append(@, r)]
  BY Zenon DEF StreamBlock
<1>2. pc = "stream" /\ pc' = "stream" /\ log'.ran = log.ran /\ log'.excused = log.excused
  BY DEF StreamBlock
<1>3. /\ store'.records = Append(store.records, r) /\ store'.tools = store.tools
      /\ mem'.turn.partial = Append(mem.turn.partial, r)
      /\ mem'.held.messages = mem.held.messages
  BY <1>1
<1>4. /\ StoredCallsInv /\ store.records = mem.held.messages \o mem.turn.partial
      /\ Unanswered(mem.held.messages) = {}
      /\ Unanswered(store.records) = {c \in Calls : Occurs(Call(c), mem.turn.partial)}
      /\ \A c \in Calls : Occurs(Call(c), mem.turn.partial) => log.ran[c] = 0
  BY <1>2 DEF ConversationInv, KnownCallsInv, OpenCallsInv, BatchInv
<1>5. r \in Record
  BY RecordTypes
<1>6. store'.records = mem'.held.messages \o mem'.turn.partial
  <2>1. mem.held.messages \in Seq(Record) /\ mem.turn.partial \in Seq(Record)
    OBVIOUS
  <2>2. Append(mem.held.messages \o mem.turn.partial, r)
          = mem.held.messages \o Append(mem.turn.partial, r)
    BY <1>5, <2>1, BlockJoins
  <2> QED
    BY <1>3, <1>4, <2>2, Zenon
<1>7. \A q : Occurs(q, mem'.turn.partial) <=> Occurs(q, mem.turn.partial) \/ q = r
  BY <1>3, <1>5, Appended
<1>8. CASE r = Text
  <2>1. StoredCallsInv' /\ Unanswered(store'.records) = Unanswered(store.records)
    BY <1>2, <1>3, <1>4, <1>5, <1>8, RecordsDiffer, OtherSaid
  <2>2. \A c \in Calls : Occurs(Call(c), mem'.turn.partial) <=> Occurs(Call(c), mem.turn.partial)
    BY <1>7, <1>8, RecordsDiffer
  <2>3. Speaks
    BY <1>2, <1>3, <1>5, <1>8, RecordsDiffer DEF Speaks
  <2> QED
    BY <1>2, <1>3, <1>4, <1>6, <2>1, <2>2, <2>3, ResponseLands
<1>9. ASSUME NEW d \in Calls, r = Call(d) PROVE ConversationInv' /\ Speaks
  <2>1. /\ ~Occurs(Call(d), store.records)
        /\ \A c \in Calls : ~Occurs(Call(c), mem.turn.partial)
    BY <1>1, <1>9 DEF Call
  <2>2. StoredCallsInv' /\ Unanswered(store'.records) = {d} /\ log.ran[d] = 0
    BY <1>2, <1>3, <1>4, <1>9, <2>1, CallMade
  <2>3. \A c \in Calls : Occurs(Call(c), mem'.turn.partial) <=> c = d
    BY <1>7, <1>9, <2>1, RecordsDiffer
  <2>4. Speaks
    BY <1>2, <1>3, <1>9, <2>1 DEF Speaks
  <2>5. {c \in Calls : Occurs(Call(c), mem'.turn.partial)} = {d}
    BY <2>3
  <2>6. \A c \in Calls : Occurs(Call(c), mem'.turn.partial) => log'.ran[c] = 0
    BY <1>2, <2>2, <2>3
  <2> QED
    BY <1>2, <1>3, <1>4, <1>6, <2>2, <2>4, <2>5, <2>6, ResponseLands
<1> QED
  BY <1>8, <1>9

(* The end of the response, and what breaks a turn off.                     *)
LEMMA EndingKeepsCalls ==
  ASSUME TypeOK, ConversationInv,
         StreamThrows \/ TurnThrows \/ \E state \in Ending : StreamEnds(state)
  PROVE  ConversationInv' /\ Speaks
<1> USE DEF TypeOK, StoreType, MemType, HeldType, RunType, OwedType, TurnType, LogType
<1>1. ASSUME NEW state \in Ending, StreamEnds(state) PROVE ConversationInv' /\ Speaks
  <2>1. /\ store' = store /\ pc = "stream" /\ pc' = "responded"
        /\ log'.ran = log.ran /\ log'.excused = log.excused
    BY <1>1 DEF StreamEnds
  <2>2. mem'.held.messages = mem.held.messages /\ mem'.turn.partial = mem.turn.partial
    <3>1. mem' = [mem EXCEPT
          !.turn.state = state,
          !.owed.requestOpen = FALSE,
          !.run.turnRequested = /\ mem.held.waiting # {} \/ mem.held.dirty
                                /\ @ \/ state = "eof"]
      BY <1>1, Zenon DEF StreamEnds
    <3> QED
      BY <3>1
  <2>3. StoredCallsInv' /\ Speaks
    BY <2>1, StoredKept DEF ConversationInv, Speaks
  <2>4. /\ store.records = mem.held.messages \o mem.turn.partial
        /\ Unanswered(mem.held.messages) = {}
        /\ Unanswered(store.records) = {c \in Calls : Occurs(Call(c), mem.turn.partial)}
        /\ \A c \in Calls : Occurs(Call(c), mem.turn.partial) => log.ran[c] = 0
    BY <2>1 DEF ConversationInv, KnownCallsInv, OpenCallsInv, BatchInv
  <2> QED
    BY <2>1, <2>2, <2>3, <2>4, ResponseLands
<1>2. CASE StreamThrows
  <2>1. /\ store' = store /\ pc = "stream" /\ pc' = "settleCalls"
        /\ log'.ran = log.ran /\ log'.excused = log.excused \cup Unanswered(store.records)
        /\ mem' = [mem EXCEPT !.turn.then = "catch"]
    BY <1>2 DEF StreamThrows, Failing
  <2>2. mem'.held.messages = mem.held.messages /\ Failed'
    BY <2>1 DEF Failed
  <2>3. StoredCallsInv' /\ Speaks
    BY <2>1, StoredKept DEF ConversationInv, Speaks
  <2>4. Unanswered(mem.held.messages) = {}
    BY <2>1 DEF ConversationInv, KnownCallsInv
  <2> QED
    BY <2>1, <2>2, <2>3, <2>4, SettlingLands
<1>3. CASE TurnThrows
  <2>1. /\ store' = store /\ pc \in Asking \cup Batching \cup {"answered"} /\ pc' = "settleCalls"
    BY <1>3 DEF TurnThrows, Asking, Batching, Kinds
  <2>2. log'.ran = log.ran /\ log'.excused = log.excused
    BY <1>3 DEF TurnThrows, Failing
  <2>3. mem'.held.messages = mem.held.messages /\ Failed'
    BY <1>3 DEF TurnThrows, Failed
  <2>4. StoredCallsInv' /\ Speaks
    BY <2>1, <2>2, StoredKept DEF ConversationInv, Speaks
  <2>5. mem.held.messages = store.records
    BY <2>1 DEF ConversationInv, LiveContextMatchesStore
  <2> QED
    BY <2>1, <2>3, <2>4, <2>5, SettlingLands
<1> QED
  BY <1>1, <1>2, <1>3

(* The blocks join the conversation in memory, where the call among them is *)
(* the batch.                                                               *)
LEMMA EndInferenceKeepsCalls ==
  ASSUME TypeOK, ConversationInv, EndInference
  PROVE  ConversationInv' /\ Speaks
<1> USE DEF TypeOK, StoreType, MemType, HeldType, RunType, OwedType, TurnType, LogType
<1> DEFINE calls == {c \in Calls : Occurs(Call(c), mem.turn.partial)}
           ended == [mem EXCEPT
            !.held.messages = Said, !.turn.partial = <<>>,
            !.turn.needs = FALSE,
            !.turn.batch = calls, !.turn.resumed = FALSE, !.turn.then = "response"]
<1>1. /\ store'.records = store.records /\ store'.tools = store.tools
      /\ log'.ran = log.ran /\ log'.excused = log.excused
  BY DEF EndInference, Failing
<1>2. /\ pc = "responded"
      /\ \/ pc' \in {"settleCalls", "finally", "dispatch"}
         \/ pc' = "cycle" /\ calls = {}
  <2>1. /\ pc = "responded"
        /\ pc' = IF mem.turn.state # "tool_call" THEN "settleCalls"
                 ELSE IF mem.run.draining THEN "finally"
                 ELSE IF calls = {} THEN "cycle" ELSE "dispatch"
    BY Zenon DEF EndInference
  <2> HIDE DEF calls, ended
  <2> QED
    BY <2>1
<1>3. /\ mem'.held.messages = Said /\ mem'.turn.batch = calls /\ ~mem'.turn.resumed
      /\ mem'.turn.then = "response"
  <2>1. mem' = ended \/ mem' = [ended EXCEPT !.owed.pending = Owing("inference")]
    BY Zenon DEF EndInference
  <2>2. /\ ended.held.messages = Said /\ ended.turn.batch = calls /\ ~ended.turn.resumed
        /\ ended.turn.then = "response"
    OBVIOUS
  <2>3. ASSUME mem' = [ended EXCEPT !.owed.pending = Owing("inference")]
        PROVE  mem'.held = ended.held /\ mem'.turn = ended.turn
    BY <2>3
  <2> HIDE DEF ended
  <2> QED
    BY <2>1, <2>2, <2>3
<1>4. /\ Said = store.records /\ Unanswered(store.records) = calls
      /\ \A c \in calls : log.ran[c] = 0
  BY <1>2 DEF ConversationInv, KnownCallsInv, OpenCallsInv, BatchInv, Said
<1> HIDE DEF calls
<1>5. StoredCallsInv' /\ Speaks /\ ~Failed'
  BY <1>1, <1>3, StoredKept DEF ConversationInv, Speaks, Failed
<1>6. CASE pc' = "settleCalls"
  BY <1>1, <1>3, <1>4, <1>5, <1>6, SettlingLands
<1>7. CASE pc' = "finally"
  BY <1>5, <1>7, GoneElsewhere DEF Elsewhere
<1>8. CASE pc' = "dispatch"
  BY <1>1, <1>3, <1>4, <1>5, <1>8, BatchLands DEF Batching
<1>9. CASE pc' = "cycle" /\ calls = {}
  BY <1>1, <1>3, <1>4, <1>5, <1>9, AskingLands DEF Asking
<1> QED
  BY <1>2, <1>6, <1>7, <1>8, <1>9

(* The settling of the calls nothing will dispatch.                         *)
LEMMA SettlingKeepsCalls ==
  ASSUME TypeOK, ConversationInv, SettleCalls
  PROVE  ConversationInv' /\ Speaks
<1> USE DEF TypeOK, StoreType, MemType, HeldType, RunType, OwedType, TurnType, LogType
<1> DEFINE owed == Unanswered(mem.held.messages)
<1>1. /\ pc = "settleCalls" /\ store'.records = store.records
      /\ mem'.held.messages = mem.held.messages /\ mem'.turn.then = mem.turn.then
  <2>1. \/ mem' = mem
        \/ mem' = [mem EXCEPT !.turn.blocked = TRUE]
        \/ mem' = [mem EXCEPT !.owed.pending = Owing("tools"), !.turn.batch = owed]
    BY Zenon DEF SettleCalls
  <2>2. \/ store' = store
        \/ store' = [store EXCEPT !.tools = @ \cup {Entered(c, TRUE) : c \in owed},
                                  !.owed = Recorded("tools")]
    BY Zenon DEF SettleCalls
  <2>3. pc = "settleCalls"
    BY DEF SettleCalls
  <2> HIDE DEF owed
  <2>4. mem'.held.messages = mem.held.messages /\ mem'.turn.then = mem.turn.then
    <3>1. CASE mem' = mem
      BY <3>1
    <3>2. CASE mem' = [mem EXCEPT !.turn.blocked = TRUE]
      BY <3>2
    <3>3. CASE mem' = [mem EXCEPT !.owed.pending = Owing("tools"), !.turn.batch = owed]
      BY <3>3
    <3> QED
      BY <2>1, <3>1, <3>2, <3>3, Zenon
  <2>5. store'.records = store.records
    BY <2>2
  <2> QED
    BY <2>3, <2>4, <2>5
<1>2. log'.ran = log.ran /\ log'.excused = log.excused
  BY DEF SettleCalls, Failing
<1>3. /\ StoredCallsInv
      /\ ~Failed => mem.held.messages = store.records
      /\ Failed => \/ mem.held.messages = store.records
                   \/ owed = {} /\ Unanswered(store.records) \subseteq log.excused
  BY <1>1 DEF ConversationInv, KnownCallsInv
<1>4. Speaks /\ Failed' = Failed
  BY <1>1, <1>2 DEF Speaks, Failed
<1>5. \/ /\ owed = {} /\ UNCHANGED <<store, mem, log>>
         /\ pc' = IF Failed THEN "note" ELSE AfterResponse
      \/ store' = store /\ owed # {} /\ pc' = IF Failed THEN "fail" ELSE "note"
      \/ /\ owed # {} /\ pc' = "appendResults"
         /\ store'.tools = store.tools \cup {Entered(c, TRUE) : c \in owed}
         /\ mem'.turn.batch = owed
  <2> DEFINE settled == /\ owed = {} /\ UNCHANGED <<store, mem, log>>
                        /\ pc' = IF mem.turn.then = "catch" THEN "note" ELSE AfterResponse
             refused == /\ owed # {} /\ store' = store
                        /\ pc' = IF mem.turn.then = "catch" THEN "fail" ELSE "note"
             staged == /\ owed # {} /\ pc' = "appendResults"
                       /\ store' = [store EXCEPT
                             !.tools = @ \cup {Entered(c, TRUE) : c \in owed},
                             !.owed = Recorded("tools")]
                       /\ mem' = [mem EXCEPT !.owed.pending = Owing("tools"), !.turn.batch = owed]
  <2>1. settled \/ refused \/ staged
    BY Zenon DEF SettleCalls
  <2> HIDE DEF owed
  <2>2. CASE settled
    BY <2>2 DEF Failed
  <2>3. CASE refused
    BY <2>3 DEF Failed
  <2>4. CASE staged
    BY <2>4
  <2> QED
    BY <2>1, <2>2, <2>3, <2>4
<1>6. CASE /\ owed = {} /\ UNCHANGED <<store, mem, log>>
           /\ pc' = IF Failed THEN "note" ELSE AfterResponse
  <2>1. StoredCallsInv'
    BY <1>3, <1>6, StoredKept
  <2>2. AfterResponse \in {"cycle", "note"}
    BY DEF AfterResponse
  <2>3. CASE pc' = "note"
    BY <1>3, <1>4, <1>6, <2>1, <2>3, NoteLands
  <2>4. CASE pc' = "cycle"
    BY <1>3, <1>4, <1>6, <2>1, <2>4, AskingLands DEF Asking
  <2> QED
    BY <1>6, <2>2, <2>3, <2>4
<1>7. CASE store' = store /\ owed # {} /\ pc' = IF Failed THEN "fail" ELSE "note"
  <2>1. StoredCallsInv'
    BY <1>2, <1>3, <1>7, StoredKept
  <2>2. CASE Failed
    BY <1>4, <1>7, <2>1, <2>2, GoneElsewhere DEF Elsewhere
  <2>3. CASE ~Failed
    BY <1>1, <1>3, <1>4, <1>7, <2>1, <2>3, NoteLands
  <2> QED
    BY <2>2, <2>3
<1>8. CASE /\ owed # {} /\ pc' = "appendResults"
           /\ store'.tools = store.tools \cup {Entered(c, TRUE) : c \in owed}
           /\ mem'.turn.batch = owed
  <2>1. mem.held.messages = store.records
    BY <1>3, <1>8
  <2>2. Entries' = Entries \cup owed
    <3> HIDE DEF owed
    <3> QED
      BY <1>8, BatchEntered
  <2>3. StoredCallsInv'
    BY <1>1, <1>2, <1>3, <2>1, <2>2, CallsEntered DEF StoredCallsInv
  <2> QED
    BY <1>1, <1>4, <1>8, <2>1, <2>2, <2>3, StagedLands
<1> HIDE DEF owed
<1> QED
  BY <1>5, <1>6, <1>7, <1>8

(* The results of those calls join the conversation.                        *)
LEMMA ResultsKeepCalls ==
  ASSUME TypeOK, ConversationInv, AppendResults
  PROVE  ConversationInv' /\ Speaks
<1> USE DEF TypeOK, StoreType, MemType, HeldType, RunType, OwedType, TurnType, LogType
<1>1. /\ pc = "appendResults" /\ mem.turn.batch = Unanswered(store.records)
      /\ StoredCallsInv
      /\ ~Failed => mem.held.messages = store.records
  BY DEF AppendResults, ConversationInv, OpenCallsInv, KnownCallsInv
<1>2. /\ log'.ran = log.ran /\ log'.excused = log.excused
      /\ mem'.turn.then = mem.turn.then
  <2>1. log' = log \/ log' = Failing
    BY DEF AppendResults
  <2>2. \/ mem' = [mem EXCEPT !.turn.blocked = TRUE]
        \/ \E c : mem' = [mem EXCEPT !.held.messages = Append(@, Result(c)),
                                     !.owed.pending = Owing("inference")]
    BY Zenon DEF AppendResults
  <2>3. CASE mem' = [mem EXCEPT !.turn.blocked = TRUE]
    BY <2>1, <2>3 DEF Failing
  <2>4. ASSUME NEW c, mem' = [mem EXCEPT !.held.messages = Append(@, Result(c)),
                                         !.owed.pending = Owing("inference")]
        PROVE  mem'.turn.then = mem.turn.then
    BY <2>4
  <2> QED
    BY <2>1, <2>2, <2>3, <2>4 DEF Failing
<1>3. Failed' = Failed /\ AfterResponse \in {"cycle", "note"}
  BY <1>2 DEF Failed, AfterResponse
<1>4. \/ \E c \in mem.turn.batch :
            /\ store'.records = Append(store.records, Result(c))
            /\ store'.tools = WithoutEntry(c)
            /\ mem'.held.messages = Append(mem.held.messages, Result(c))
            /\ pc' = IF Failed THEN "note" ELSE AfterResponse
      \/ /\ store' = store /\ mem'.held.messages = mem.held.messages
         /\ pc' = IF Failed THEN "fail" ELSE "note"
  <2> DEFINE said(c) == /\ store' = [store EXCEPT
                               !.records = Append(@, Result(c)),
                               !.tools = WithoutEntry(c),
                               !.owed = Recorded("inference")]
                        /\ mem' = [mem EXCEPT
                               !.held.messages = Append(@, Result(c)),
                               !.owed.pending = Owing("inference")]
                        /\ pc' = IF mem.turn.then = "catch" THEN "note" ELSE AfterResponse
             kept == /\ mem' = [mem EXCEPT !.turn.blocked = TRUE]
                     /\ pc' = IF mem.turn.then = "catch" THEN "fail" ELSE "note"
                     /\ store' = store
  <2>1. kept \/ \E c \in mem.turn.batch : said(c)
    BY Zenon DEF AppendResults
  <2>2. CASE kept
    BY <2>2 DEF Failed
  <2>3. ASSUME NEW c \in mem.turn.batch, said(c)
        PROVE  /\ store'.records = Append(store.records, Result(c))
               /\ store'.tools = WithoutEntry(c)
               /\ mem'.held.messages = Append(mem.held.messages, Result(c))
               /\ pc' = IF Failed THEN "note" ELSE AfterResponse
    BY <2>3 DEF Failed
  <2> QED
    BY <2>1, <2>2, <2>3
<1>5. ASSUME NEW c \in mem.turn.batch,
             store'.records = Append(store.records, Result(c)),
             store'.tools = WithoutEntry(c),
             mem'.held.messages = Append(mem.held.messages, Result(c)),
             pc' = IF Failed THEN "note" ELSE AfterResponse
      PROVE  ConversationInv' /\ Speaks
  <2>1. StoredCallsInv' /\ Unanswered(store'.records) = {}
    BY <1>1, <1>2, <1>5, CallAnswered
  <2>2. Speaks
    BY <1>1, <1>2, <1>5 DEF Speaks
  <2>3. CASE pc' = "note"
    BY <1>1, <1>3, <1>5, <2>1, <2>2, <2>3, NoteLands
  <2>4. CASE pc' = "cycle"
    BY <1>1, <1>3, <1>5, <2>1, <2>2, <2>4, AskingLands DEF Asking
  <2> QED
    BY <1>3, <1>5, <2>3, <2>4
<1>6. CASE /\ store' = store /\ mem'.held.messages = mem.held.messages
           /\ pc' = IF Failed THEN "fail" ELSE "note"
  <2>1. StoredCallsInv' /\ Speaks
    BY <1>1, <1>2, <1>6, StoredKept DEF Speaks
  <2>2. CASE Failed
    BY <1>6, <2>1, <2>2, GoneElsewhere DEF Elsewhere
  <2>3. CASE ~Failed
    BY <1>1, <1>3, <1>6, <2>1, <2>3, NoteLands
  <2> QED
    BY <2>2, <2>3
<1> QED
  BY <1>4, <1>5, <1>6

(* The steps of the response.                                               *)
LEMMA ResponseKeepsCalls ==
  ASSUME TypeOK, ConversationInv, ResponseStep
  PROVE  ConversationInv' /\ Speaks
BY StreamingKeepsCalls, EndingKeepsCalls, EndInferenceKeepsCalls, SettlingKeepsCalls,
   ResultsKeepCalls DEF ResponseStep

(* The dispatch of a batch, and the call that executes in it: one that was  *)
(* not resumed has never been executed before.                              *)
LEMMA BatchKeepsCalls ==
  ASSUME TypeOK, ConversationInv, Dispatch \/ Execute
  PROVE  ConversationInv' /\ Speaks
<1> USE DEF TypeOK, StoreType, MemType, HeldType, RunType, OwedType, TurnType, LogType
<1>1. CASE Dispatch
  <2>1. pc = "dispatch" /\ pc' = "execute"
    BY <1>1 DEF Dispatch
  <2>2. /\ StoredCallsInv /\ mem.held.messages = store.records /\ ~Failed
        /\ mem.turn.batch = Unanswered(store.records)
        /\ mem.turn.resumed => mem.turn.batch \subseteq Entries
        /\ ~mem.turn.resumed => \A c \in mem.turn.batch : log.ran[c] = 0
    BY <2>1, BatchHolds DEF Batching, ConversationInv, BatchInv
  <2>3. log'.ran = log.ran /\ log'.excused = log.excused
    BY <1>1 DEF Dispatch, Failing
  <2>4. mem'.held.messages = mem.held.messages /\ mem'.turn = mem.turn
    BY <1>1 DEF Dispatch
  <2>5. /\ store'.records = store.records
        /\ \/ store'.tools = store.tools /\ mem.turn.resumed
           \/ /\ store'.tools = store.tools \cup {Entered(c, FALSE) : c \in mem.turn.batch}
              /\ ~mem.turn.resumed
    <3>1. \/ store' = [store EXCEPT
                !.tools = IF mem.turn.resumed THEN @
                          ELSE @ \cup {Entered(c, FALSE) : c \in mem.turn.batch},
                !.owed = Recorded("tools")]
          \/ store' = store /\ mem.turn.resumed
      BY <1>1, Zenon DEF Dispatch
    <3> QED
      BY <3>1
  <2>6. \/ Entries' = Entries /\ mem.turn.resumed
        \/ Entries' = Entries \cup mem.turn.batch
    <3>1. CASE store'.tools = store.tools /\ mem.turn.resumed
      BY <3>1 DEF Entries
    <3>2. CASE store'.tools = store.tools \cup {Entered(c, FALSE) : c \in mem.turn.batch}
      BY <3>2, BatchEntered
    <3> QED
      BY <2>5, <3>1, <3>2
  <2>7. mem.turn.batch \subseteq Entries'
    BY <2>2, <2>6
  <2>8. StoredCallsInv'
    <3>1. Entries \subseteq Entries' /\ Entries' \subseteq Unanswered(store.records)
      BY <2>2, <2>6 DEF StoredCallsInv
    <3> QED
      BY <2>2, <2>3, <2>5, <3>1, CallsEntered
  <2>9. Speaks
    BY <2>3, <2>5 DEF Speaks
  <2> QED
    BY <2>1, <2>2, <2>3, <2>4, <2>5, <2>7, <2>8, <2>9, BatchLands DEF Batching, Failed
<1>2. CASE Execute
  <2>1. /\ pc = "execute" /\ store' = store
        /\ mem'.held.messages = mem.held.messages /\ mem'.turn.batch = mem.turn.batch
        /\ mem'.turn.resumed = mem.turn.resumed /\ mem'.turn.then = mem.turn.then
    <3>1. /\ pc = "execute" /\ store' = store
          /\ mem' = mem \/ \E b : mem' = [mem EXCEPT !.turn.stopped = b]
      BY <1>2, Zenon DEF Execute
    <3>2. CASE mem' = mem
      BY <3>1, <3>2
    <3>3. ASSUME NEW b, mem' = [mem EXCEPT !.turn.stopped = b]
          PROVE  /\ mem'.held.messages = mem.held.messages /\ mem'.turn.batch = mem.turn.batch
                 /\ mem'.turn.resumed = mem.turn.resumed /\ mem'.turn.then = mem.turn.then
      BY <3>3
    <3> QED
      BY <3>1, <3>2, <3>3
  <2>2. /\ StoredCallsInv /\ mem.held.messages = store.records /\ ~Failed
        /\ mem.turn.batch = Unanswered(store.records) /\ mem.turn.batch \subseteq Entries
    BY <2>1, BatchHolds DEF Batching, ConversationInv, BatchInv
  <2>3. \/ pc' = "commit" /\ log' = log
        \/ /\ pc' = "running"
           /\ \E c \in mem.turn.batch : log' = [log EXCEPT !.ran[c] = @ + 1]
    BY <1>2, Zenon DEF Execute
  <2>4. log'.excused = log.excused /\ Entries' = Entries /\ Speaks
    BY <2>1, <2>3 DEF Entries, Speaks
  <2>5. StoredCallsInv'
    <3>1. CASE log' = log
      BY <2>1, <2>2, <3>1, StoredKept
    <3>2. ASSUME NEW c \in mem.turn.batch, log' = [log EXCEPT !.ran[c] = @ + 1]
          PROVE  StoredCallsInv'
      <4>1. \A d \in Calls \ {c} : log'.ran[d] = log.ran[d]
        BY <3>2
      <4>2. c \in Entries
        BY <2>2
      <4>3. store'.records = store.records
        BY <2>1
      <4>4. \A d \in Calls : log'.ran[d] > 0 => d \in Entries' \/ Occurs(Result(d), store'.records)
        BY <2>2, <2>4, <4>1, <4>2, <4>3 DEF StoredCallsInv
      <4> QED
        BY <2>2, <2>4, <4>3, <4>4 DEF StoredCallsInv
    <3> QED
      BY <2>3, <3>1, <3>2
  <2> QED
    BY <2>1, <2>2, <2>3, <2>4, <2>5, BatchLands DEF Batching, Failed
<1> QED
  BY <1>1, <1>2

(* The tool commits early, settles or is left for the resume.               *)
LEMMA RunningKeepsCalls ==
  ASSUME TypeOK, ConversationInv, ToolCommitsEarly \/ ToolSettles \/ ToolReloads
  PROVE  ConversationInv' /\ Speaks
<1> USE DEF TypeOK, StoreType, MemType, HeldType, RunType, OwedType, TurnType, LogType
<1>1. /\ pc = "running" /\ log' = log /\ store'.records = store.records
      /\ mem'.held.messages = mem.held.messages
      /\ mem'.turn.batch = mem.turn.batch /\ mem'.turn.then = mem.turn.then
  <2>1. CASE ToolCommitsEarly
    BY <2>1 DEF ToolCommitsEarly
  <2>2. CASE ToolSettles
    <3>1. PICK abandoned : mem' = [mem EXCEPT !.turn.stopped = abandoned]
      BY <2>2, Zenon DEF ToolSettles
    <3> QED
      BY <2>2, <3>1 DEF ToolSettles
  <2>3. CASE ToolReloads
    BY <2>3 DEF ToolReloads
  <2> QED
    BY <2>1, <2>2, <2>3
<1>2. /\ StoredCallsInv /\ mem.held.messages = store.records /\ ~Failed
      /\ mem.turn.batch = Unanswered(store.records) /\ mem.turn.batch \subseteq Entries
  BY <1>1, BatchHolds DEF Batching, ConversationInv, BatchInv
<1>3. Speaks
  BY <1>1 DEF Speaks
<1>4. Entries' = Entries
  <2>1. CASE store' = store
    BY <2>1 DEF Entries
  <2>2. ASSUME NEW t \in store.tools,
               store'.tools = (store.tools \ {t}) \cup {[t EXCEPT !.committed = TRUE]}
        PROVE  Entries' = Entries
    <3>1. [t EXCEPT !.committed = TRUE].call = t.call
      BY DEF BatchEntry
    <3>2. ASSUME NEW x \in Entries' PROVE x \in Entries
      <4>1. PICK u \in store'.tools : x = u.call
        BY DEF Entries
      <4>2. u \in store.tools \/ u = [t EXCEPT !.committed = TRUE]
        BY <2>2, Zenon
      <4>3. \E v \in store.tools : x = v.call
        BY <3>1, <4>1, <4>2, Zenon
      <4> QED
        BY <4>3 DEF Entries
    <3>3. ASSUME NEW x \in Entries PROVE x \in Entries'
      <4>1. PICK u \in store.tools : x = u.call
        BY DEF Entries
      <4>2. u \in store'.tools \/ u = t
        BY <2>2, Zenon
      <4>3. [t EXCEPT !.committed = TRUE] \in store'.tools
        BY <2>2, Zenon
      <4>4. \E v \in store'.tools : x = v.call
        BY <3>1, <4>1, <4>2, <4>3, Zenon
      <4> QED
        BY <4>4 DEF Entries
    <3> QED
      BY <3>2, <3>3
  <2>3. \/ store' = store
        \/ \E t \in store.tools :
              store'.tools = (store.tools \ {t}) \cup {[t EXCEPT !.committed = TRUE]}
    BY DEF ToolCommitsEarly, ToolSettles, ToolReloads
  <2> QED
    BY <2>1, <2>2, <2>3
<1>5. StoredCallsInv'
  BY <1>1, <1>2, <1>4, CallsEntered DEF StoredCallsInv
<1>6. CASE pc' \in {"running", "commit"}
  BY <1>1, <1>2, <1>3, <1>4, <1>5, <1>6, BatchLands DEF Batching, Failed
<1>7. CASE pc' \in {"finally", "turnDone"}
  BY <1>3, <1>5, <1>7, GoneElsewhere DEF Elsewhere
<1>8. CASE pc' = "note"
  BY <1>1, <1>2, <1>3, <1>5, <1>8, NoteLands DEF Failed
<1> QED
  BY <1>1, <1>6, <1>7, <1>8 DEF ToolCommitsEarly, ToolSettles, ToolReloads, BatchCutShort

(* The result of the batch, and the inference it is owed.                   *)
LEMMA CommittingKeepsCalls ==
  ASSUME TypeOK, ConversationInv, CommitResult \/ EndBatch
  PROVE  ConversationInv' /\ Speaks
<1> USE DEF TypeOK, StoreType, MemType, HeldType, RunType, OwedType, TurnType, LogType
<1>1. CASE CommitResult
  <2>1. PICK c \in mem.turn.batch :
            /\ store' = [store EXCEPT !.records = Append(@, Result(c)), !.tools = WithoutEntry(c)]
            /\ mem' = [mem EXCEPT !.held.messages = Append(@, Result(c))]
    BY <1>1, Zenon DEF CommitResult
  <2>2. /\ pc = "commit" /\ pc' = "answered"
        /\ log'.ran = log.ran /\ log'.excused = log.excused
    BY <1>1 DEF CommitResult
  <2>3. /\ store'.records = Append(store.records, Result(c)) /\ store'.tools = WithoutEntry(c)
        /\ mem'.held.messages = Append(mem.held.messages, Result(c)) /\ mem'.turn = mem.turn
    BY <2>1
  <2>4. /\ StoredCallsInv /\ mem.held.messages = store.records /\ ~Failed'
        /\ mem.turn.batch = Unanswered(store.records)
    BY <2>2, <2>3, BatchHolds DEF Batching, Failed
  <2>5. StoredCallsInv' /\ Unanswered(store'.records) = {}
    BY <2>2, <2>3, <2>4, CallAnswered
  <2>6. Speaks
    BY <2>2, <2>3, <2>4 DEF Speaks
  <2>7. LiveContextMatchesStore' /\ KnownCallsInv'
    BY <2>2, <2>3, <2>4 DEF LiveContextMatchesStore, KnownCallsInv, Batching, Asking
  <2>8. OpenCallsInv' /\ BatchInv'
    BY <2>2, <2>5 DEF OpenCallsInv, BatchInv, Batching, Asking
  <2> QED
    BY <2>5, <2>6, <2>7, <2>8 DEF ConversationInv
<1>2. CASE EndBatch
  <2>1. /\ pc = "answered" /\ log' = log
        /\ store' = [store EXCEPT !.owed = Recorded("inference")]
        /\ mem' = [mem EXCEPT !.owed.pending = Owing("inference"),
                              !.turn.needs = TRUE, !.turn.batch = {}]
    BY <1>2 DEF EndBatch
  <2>2. pc' \in {"finally", "note", "turnDone", "cycle", "recover"}
    BY <1>2 DEF EndBatch, BatchCutShort
  <2>3. /\ store'.records = store.records /\ store'.tools = store.tools
        /\ mem'.held.messages = mem.held.messages /\ mem'.turn.then = mem.turn.then
    BY <2>1
  <2>4. /\ StoredCallsInv /\ mem.held.messages = store.records /\ ~Failed'
        /\ Unanswered(store.records) = {}
    BY <2>1, <2>3 DEF ConversationInv, LiveContextMatchesStore, KnownCallsInv, OpenCallsInv,
       Failed
  <2>5. StoredCallsInv' /\ Speaks
    BY <2>1, <2>3, <2>4, StoredKept DEF Speaks
  <2>6. CASE pc' \in {"finally", "turnDone"}
    BY <2>5, <2>6, GoneElsewhere DEF Elsewhere
  <2>7. CASE pc' = "note"
    BY <2>3, <2>4, <2>5, <2>7, NoteLands
  <2>8. CASE pc' \in {"cycle", "recover"}
    BY <2>3, <2>4, <2>5, <2>8, AskingLands DEF Asking
  <2> QED
    BY <2>2, <2>6, <2>7, <2>8
<1> QED
  BY <1>1, <1>2

(* The steps of a tool batch.                                               *)
LEMMA ToolKeepsCalls ==
  ASSUME TypeOK, ConversationInv, ToolStep
  PROVE  ConversationInv' /\ Speaks
BY BatchKeepsCalls, RunningKeepsCalls, CommittingKeepsCalls DEF ToolStep

(* The steps that end a turn, a loop and the run: a failure is noted only   *)
(* where no call is open but the excused ones.                              *)
LEMMA ClosingKeepsCalls ==
  ASSUME TypeOK, ConversationInv, ClosingStep \/ Crash
  PROVE  ConversationInv' /\ Speaks
<1> USE DEF TypeOK, StoreType, MemType, HeldType, RunType, OwedType, TurnType, LogType
<1>s. StoredCallsInv
  BY DEF ConversationInv
<1>1. CASE AppendFailure
  <2>1. /\ pc = "note" /\ NotesFailure /\ pc' \in {"fail", "turnDone"}
        /\ store'.tools = store.tools
        /\ store' = store \/ store'.records = Append(store.records, System)
    BY <1>1 DEF AppendFailure
  <2>2. log'.ran = log.ran /\ log'.excused = log.excused
    BY <1>1 DEF AppendFailure, Failing
  <2>3. Unanswered(store.records) \subseteq log.excused
    <3>1. /\ ~Failed => mem.held.messages = store.records
          /\ Failed => Unanswered(store.records) \subseteq log.excused
      BY <2>1 DEF ConversationInv, KnownCallsInv
    <3> QED
      BY <2>1, <3>1 DEF NotesFailure, Failed
  <2>4. CASE store' = store
    BY <1>s, <2>1, <2>2, <2>4, StoredKept, GoneElsewhere DEF Elsewhere, Speaks
  <2>5. CASE store'.records = Append(store.records, System)
    <3>1. System \in Record /\ \A c \in Calls : System # Call(c) /\ System # Result(c)
      BY RecordTypes, RecordsDiffer
    <3>2. StoredCallsInv'
      BY <1>s, <2>1, <2>2, <2>5, <3>1, OtherSaid
    <3>3. Speaks
      BY <2>2, <2>3, <2>5, <3>1 DEF Speaks
    <3> QED
      BY <2>1, <3>2, <3>3, GoneElsewhere DEF Elsewhere
  <2> QED
    BY <2>1, <2>4, <2>5
<1>2. ASSUME store'.records = store.records, store'.tools = store.tools, log'.ran = log.ran,
             log'.excused = log.excused, pc' \in Elsewhere
      PROVE  ConversationInv' /\ Speaks
  BY <1>s, <1>2, StoredKept, GoneElsewhere DEF Speaks
<1>3. CASE NothingToNote \/ LeaveRun \/ NextLoop
  <2>1. store' = store /\ log' = log
    BY <1>3 DEF NothingToNote, LeaveRun, NextLoop
  <2>2. pc' \in Elsewhere
    BY <1>3 DEF NothingToNote, LeaveRun, NextLoop, Elsewhere
  <2> QED
    BY <1>2, <2>1, <2>2
<1>4. CASE FailTurn \/ Finally \/ Crash
  <2>1. store' = store /\ log'.ran = log.ran /\ log'.excused = log.excused
    BY <1>4 DEF FailTurn, Finally, Crash, Abandoning
  <2>2. pc' \in Elsewhere
    BY <1>4 DEF FailTurn, Finally, Crash, Elsewhere
  <2> QED
    BY <1>2, <2>1, <2>2
<1>5. CASE CloseTurn \/ CloseLoop
  BY <1>5, EnterStageAside, AsideKeeps DEF CloseTurn, CloseLoop, Elsewhere
<1>6. CASE NextTurn
  <2>1. OpenScope(mem) \in MemType
    BY DEF OpenScope
  <2>2. CASE BeginTurn(OpenScope(mem)) /\ store' = store
    BY <2>1, <2>2, BeginTurnKeeps
  <2>3. CASE pc' \in Elsewhere /\ UNCHANGED <<store, log>>
    BY <1>2, <2>3
  <2> QED
    BY <1>6, <2>2, <2>3 DEF NextTurn, Elsewhere
<1>7. CASE EnterSettlement \/ Settle
  <2>1. store'.records = store.records /\ store'.tools = store.tools
    BY <1>7 DEF EnterSettlement, Settle
  <2>2. log'.ran = log.ran /\ log'.excused = log.excused
    BY <1>7 DEF EnterSettlement, Settle, Failing
  <2>3. pc' \in Elsewhere
    BY <1>7 DEF EnterSettlement, Settle, Elsewhere
  <2> QED
    BY <1>2, <2>1, <2>2, <2>3
<1> QED
  BY <1>1, <1>3, <1>4, <1>5, <1>6, <1>7 DEF ClosingStep

(* Every step keeps the conversation whole, and says what may be said.      *)
LEMMA ConversationStep ==
  ASSUME TypeOK, ConversationInv, [Next]_vars
  PROVE  ConversationInv' /\ Speaks
<1>1. CASE UNCHANGED vars
  BY <1>1, AsideKeeps DEF vars, Aside, known
<1>2. CASE Callers \/ Publishing \/ Start
  BY <1>2, CallersAside, AsideKeeps
<1>3. CASE OpeningStep \/ LoadStep
  BY <1>3, OpeningKeepsCalls
<1>4. CASE CycleStep
  BY <1>4, CycleKeepsCalls
<1>5. CASE ResponseStep
  BY <1>5, ResponseKeepsCalls
<1>6. CASE ToolStep
  BY <1>6, ToolKeepsCalls
<1>7. CASE ClosingStep \/ Crash
  BY <1>7, ClosingKeepsCalls
<1>8. CASE Rest
  BY <1>8, <1>1 DEF Rest
<1> QED
  BY <1>1, <1>2, <1>3, <1>4, <1>5, <1>6, <1>7, <1>8 DEF Next, RunStep

(* A conversation not yet begun.                                            *)
LEMMA ConversationStart ==
  ASSUME Init
  PROVE  ConversationInv
<1>1. pc = "idle" /\ store.records = <<>> /\ store.tools = {} /\ log.ran = [c \in Calls |-> 0]
  BY DEF Init
<1>2. \A r : ~Occurs(r, <<>>)
  BY DEF Occurs
<1>3. StoredCallsInv
  BY <1>1, <1>2 DEF StoredCallsInv, Unanswered, Entries
<1> QED
  BY <1>1, <1>3 DEF ConversationInv, LiveContextMatchesStore, KnownCallsInv, OpenCallsInv,
     BatchInv, Batching, Asking

(* THEOREM: what the model is asked about is the durable conversation, with *)
(* no call open; a batch on its way is the one open call, which is in the   *)
(* store before it executes; and what a failed stream leaves open is excused*)
(* (#runInferenceAttempt, #dispatchToolBatch, #settleUnansweredCalls).      *)
THEOREM ConversationWhole == Spec => []ConversationInv
<1>1. Init => ConversationInv
  BY ConversationStart
<1>2. TypeOK /\ ConversationInv /\ [Next]_vars => ConversationInv'
  BY ConversationStep
<1> QED
  BY <1>1, <1>2, TypeCorrect, PTL DEF Spec

-----------------------------------------------------------------------------
(* AnsweredOnce, CallsAnsweredInPlace                                       *)

(* A record joins the conversation at its end, if any does.                 *)
LEMMA SaidLast ==
  ASSUME TypeOK, Speaks
  PROVE  /\ store.records \in Seq(Record) /\ Len(store.records) \in Nat
         /\ DOMAIN store.records = 1 .. Len(store.records)
         /\ \/ store'.records = store.records
            \/ \E x \in Record : store'.records = Append(store.records, x)
<1>1. store.records \in Seq(Record)
  BY DEF TypeOK, StoreType
<1>2. \A c \in Calls : Call(c) \in Record /\ Result(c) \in Record
  BY RecordTypes
<1>3. Unanswered(store.records) \subseteq Calls
  BY DEF Unanswered
<1>4. \/ store'.records = store.records
      \/ \E x \in Record : store'.records = Append(store.records, x)
  BY <1>2, <1>3, Zenon DEF Speaks
<1> QED
  BY <1>1, <1>4, LenProperties

(* A result is at one place of the conversation.                            *)
ResultsOnce ==
    \A c \in Calls : \A i, j \in DOMAIN store.records :
        store.records[i] = Result(c) /\ store.records[j] = Result(c) => i = j

(* Only an open call is answered, so a second result never joins it.        *)
LEMMA ResultsStayOnce ==
  ASSUME TypeOK, ResultsOnce, Speaks
  PROVE  ResultsOnce'
<1> SUFFICES ASSUME NEW c \in Calls, NEW i \in DOMAIN store'.records,
                    NEW j \in DOMAIN store'.records,
                    store'.records[i] = Result(c), store'.records[j] = Result(c)
             PROVE  i = j
  BY DEF ResultsOnce
<1>1. CASE store'.records = store.records
  BY <1>1 DEF ResultsOnce
<1>2. ASSUME NEW x \in Record, store'.records = Append(store.records, x)
      PROVE  i = j
  <2>1. /\ \A k \in DOMAIN store'.records : k \in DOMAIN store.records \/ k = Len(store.records) + 1
        /\ \A k \in DOMAIN store.records : store'.records[k] = store.records[k]
        /\ store'.records[Len(store.records) + 1] = x
        /\ DOMAIN store'.records = 1 .. (Len(store.records) + 1) /\ Len(store.records) \in Nat
    BY <1>2, SaidLast, Appended
  <2>2. CASE i \in DOMAIN store.records /\ j \in DOMAIN store.records
    BY <2>1, <2>2 DEF ResultsOnce
  <2>3. ASSUME x = Result(c) PROVE ~Occurs(Result(c), store.records)
    <3>1. Append(store.records, x) # store.records
      BY SaidLast, Appended
    <3>2. \A y \in Record : Append(store.records, y) = Append(store.records, x) => y = x
      BY SaidLast, Appended
    <3>3. \E d \in Unanswered(store.records) : x = Result(d)
      <4>1. \A d \in Unanswered(store.records) : d \in Calls
        BY DEF Unanswered
      <4>2. \A d \in Calls : Call(d) \in Record /\ Result(d) \in Record /\ Call(d) # x
        BY <2>3, RecordTypes, RecordsDiffer
      <4> QED
        BY <1>2, <2>3, <3>1, <3>2, <4>1, <4>2 DEF Speaks
    <3> QED
      BY <2>3, <3>3, RecordsDiffer DEF Unanswered
  <2> QED
    BY <2>1, <2>2, <2>3 DEF Occurs
<1> QED
  BY <1>1, <1>2, SaidLast

(* THEOREM: no crash, abort, early commit or settling gives a call a second *)
(* result (#settleUnansweredCalls, #dispatchToolBatch).                     *)
THEOREM OneResult == Spec => []AnsweredOnce
<1>1. Init => ResultsOnce
  BY DEF Init, ResultsOnce
<1>2. TypeOK /\ ConversationInv /\ ResultsOnce /\ [Next]_vars => ResultsOnce'
  BY ConversationStep, ResultsStayOnce
<1>3. ResultsOnce => AnsweredOnce
  <2> SUFFICES ASSUME ResultsOnce, NEW c \in Calls
               PROVE  Cardinality({i \in DOMAIN store.records : store.records[i] = Result(c)}) <= 1
    BY DEF AnsweredOnce
  <2> DEFINE R == {i \in DOMAIN store.records : store.records[i] = Result(c)}
  <2>1. CASE R = {}
    BY <2>1, FS_EmptySet
  <2>2. ASSUME NEW i \in R PROVE Cardinality(R) <= 1
    <3>1. R = {i}
      BY DEF ResultsOnce
    <3>2. Cardinality(R) = 1
      BY <3>1, FS_Singleton
    <3> QED
      BY <3>2
  <2> QED
    BY <2>1, <2>2
<1> QED
  BY <1>1, <1>2, <1>3, TypeCorrect, ConversationWhole, PTL DEF Spec

(* Whoever speaks after a call finds its result before them.                *)
LEMMA StaysInPlace ==
  ASSUME TypeOK, StoredCallsInv, CallsAnsweredInPlace, Speaks
  PROVE  CallsAnsweredInPlace'
<1> SUFFICES ASSUME NEW c \in Calls, c \notin log.excused,
                    NEW i \in DOMAIN store'.records, NEW k \in DOMAIN store'.records,
                    store'.records[i] = Call(c), i < k,
                    store'.records[k].type \in {"user", "system"}
             PROVE  \E j \in i .. k : store'.records[j] = Result(c)
  BY DEF CallsAnsweredInPlace, Speaks
<1>1. CASE store'.records = store.records
  BY <1>1 DEF CallsAnsweredInPlace
<1>2. ASSUME NEW x \in Record, store'.records = Append(store.records, x)
      PROVE  \E j \in i .. k : store'.records[j] = Result(c)
  <2>1. /\ \A m \in DOMAIN store'.records : m \in DOMAIN store.records \/ m = Len(store.records) + 1
        /\ \A m \in DOMAIN store.records : store'.records[m] = store.records[m]
        /\ store'.records[Len(store.records) + 1] = x
        /\ DOMAIN store.records = 1 .. Len(store.records)
        /\ DOMAIN store'.records = 1 .. (Len(store.records) + 1) /\ Len(store.records) \in Nat
    BY <1>2, SaidLast, Appended
  <2>2. i \in DOMAIN store.records /\ store.records[i] = Call(c)
    BY <2>1
  <2>3. CASE k \in DOMAIN store.records
    <3>1. PICK j \in i .. k : store.records[j] = Result(c)
      BY <2>1, <2>2, <2>3 DEF CallsAnsweredInPlace
    <3>2. j \in DOMAIN store.records
      BY <2>1, <2>2, <2>3
    <3> QED
      BY <2>1, <3>1, <3>2
  <2>4. CASE k = Len(store.records) + 1
    <3>1. x.type \in {"user", "system"}
      BY <2>1, <2>4
    <3>2. /\ Text.type = "text"
          /\ \A d \in Calls : Call(d).type = "call" /\ Result(d).type = "result"
      BY DEF Text, Call, Result
    <3>3. Unanswered(store.records) \subseteq log.excused
      <4>1. Append(store.records, x) # store.records
        BY SaidLast, Appended
      <4>2. \A y \in Record : Append(store.records, y) = Append(store.records, x) => y = x
        BY SaidLast, Appended
      <4>3. \A d \in Unanswered(store.records) : d \in Calls
        BY DEF Unanswered
      <4>4. \A d \in Calls : /\ Call(d) \in Record /\ Result(d) \in Record
                             /\ Call(d) # x /\ Result(d) # x
        BY <3>1, <3>2, RecordTypes
      <4> QED
        BY <1>2, <3>1, <3>2, <4>1, <4>2, <4>3, <4>4 DEF Speaks
    <3>4. Occurs(Call(c), store.records)
      BY <2>2 DEF Occurs
    <3>5. PICK j \in DOMAIN store.records : store.records[j] = Result(c)
      BY <3>3, <3>4 DEF Unanswered, Occurs
    <3>6. i < j
      BY <2>2, <3>5 DEF StoredCallsInv
    <3> QED
      BY <2>1, <2>2, <2>4, <3>5, <3>6
  <2> QED
    BY <2>1, <2>3, <2>4
<1> QED
  BY <1>1, <1>2, SaidLast

(* THEOREM: no user message and no notice comes between a call and its      *)
(* result, but for the calls a failed stream or load made the run forget.   *)
THEOREM NothingBetween == Spec => []CallsAnsweredInPlace
<1>1. Init => CallsAnsweredInPlace
  BY DEF Init, CallsAnsweredInPlace
<1>2. TypeOK /\ ConversationInv /\ CallsAnsweredInPlace /\ [Next]_vars => CallsAnsweredInPlace'
  BY ConversationStep, StaysInPlace DEF ConversationInv
<1> QED
  BY <1>1, <1>2, TypeCorrect, ConversationWhole, PTL DEF Spec
-----------------------------------------------------------------------------
(* NonRetryableRunsOnce                                                     *)

(* Nothing but the execution of a batch counts as running a call.           *)
LEMMA RanSteps ==
  ASSUME TypeOK, [Next]_vars, ~Execute
  PROVE  log'.ran = log.ran
<1> USE DEF TypeOK, LogType
<1>1. CASE UNCHANGED log
  BY <1>1
<1>2. CASE Callers \/ Publishing \/ Crash
  BY <1>2 DEF Callers, Offer, Abort, Drain, Close, Abandoning, Publishing, Publish, MarkCommitted,
     ActivateCommitted, Crash
<1>3. CASE OpeningStep
  <2>1. CASE BeginTurn(mem)
    BY <2>1 DEF BeginTurn
  <2> QED
    BY <1>1, <1>3, <2>1 DEF OpeningStep, BeginRun, SettleLoaded, LoopStage, OpenTurn, EnterStage,
       Failing
<1>4. CASE LoadStep
  BY <1>4 DEF LoadStep, ReadHistory, AssignHistory, LoadFails, TurnStage, EnterStage, Failing,
     Abandoning
<1>5. CASE CycleStep
  BY <1>5 DEF CycleStep, BeginInference, Recover, StopCycle, RefreshCommittedQueues, ConsumeQueue,
     NothingQueued, LeaveRequest, RequestInference, OpenStream, Failing
<1>6. CASE ResponseStep
  BY <1>6 DEF ResponseStep, StreamBlock, StreamThrows, TurnThrows, StreamEnds, EndInference,
     SettleCalls, AppendResults, Failing
<1>7. CASE ToolStep
  BY <1>7 DEF ToolStep, Dispatch, ToolCommitsEarly, ToolSettles, ToolReloads, CommitResult,
     EndBatch, Failing
<1>8. CASE ClosingStep
  <2>1. CASE BeginTurn(OpenScope(mem))
    BY <2>1 DEF BeginTurn
  <2> QED
    BY <1>1, <1>8, <2>1 DEF ClosingStep, AppendFailure, NothingToNote, FailTurn, LeaveRun,
       CloseTurn, NextTurn, CloseLoop, NextLoop, EnterSettlement, Settle, Finally, EnterStage,
       Failing, Abandoning
<1> QED
  BY <1>1, <1>2, <1>3, <1>4, <1>5, <1>6, <1>7, <1>8 DEF Next, RunStep, Start, Rest, vars

(* THEOREM: a call whose tool may not be retried executes at most once: a   *)
(* fresh batch has not run, and a resumed one refuses it (#isRetryable).    *)
THEOREM NoSecondRun == Spec => []NonRetryableRunsOnce
<1>1. Init => NonRetryableRunsOnce
  BY DEF Init, NonRetryableRunsOnce
<1>2. TypeOK /\ ConversationInv /\ NonRetryableRunsOnce /\ [Next]_vars => NonRetryableRunsOnce'
  <2> SUFFICES ASSUME TypeOK, ConversationInv, NonRetryableRunsOnce, [Next]_vars,
                      NEW c \in Calls \ Retryable
               PROVE  log'.ran[c] <= 1
    BY DEF NonRetryableRunsOnce
  <2>1. CASE log'.ran = log.ran
    BY <2>1 DEF NonRetryableRunsOnce
  <2>2. CASE Execute /\ log'.ran # log.ran
    <3>1. PICK d \in mem.turn.batch : ~Refuses(d) /\ log' = [log EXCEPT !.ran[d] = @ + 1]
      BY <2>2, Zenon DEF Execute
    <3>2. CASE d # c
      BY <3>1, <3>2 DEF NonRetryableRunsOnce, TypeOK, LogType
    <3>3. CASE d = c
      <4>1. ~mem.turn.resumed
        BY <3>1, <3>3 DEF Refuses
      <4>2. log.ran[c] = 0
        BY <2>2, <3>1, <3>3, <4>1 DEF Execute, ConversationInv, BatchInv
      <4> QED
        BY <3>1, <3>3, <4>2 DEF TypeOK, LogType
    <3> QED
      BY <3>2, <3>3
  <2> QED
    BY <2>1, <2>2, RanSteps
<1> QED
  BY <1>1, <1>2, TypeCorrect, ConversationWhole, PTL DEF Spec
================================================================================
