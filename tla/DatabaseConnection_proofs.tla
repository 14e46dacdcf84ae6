----------------------- MODULE DatabaseConnection_proofs -----------------------
(***************************************************************************)
(* Proofs about DatabaseConnection, for any set of call chains: QueueInv   *)
(* is inductive, so that the database has one owner at a time and a close  *)
(* drains what was admitted before it, and the connection implements       *)
(* SerialDatabase.                                                         *)
(***************************************************************************)
EXTENDS DatabaseConnection, TLAPS

ConnType == [state : {"open", "closing", "closed"}, tail : Flows \cup {Nobody},
             admitted : Nat, closes : {0, 1}]
Wants == {"none", "operation", "transaction", "close"}
FlowType == [at : Stages, wants : Wants, prev : Flows \cup {Nobody}, ticket : Nat,
             inside : Flows \cup {Nobody}, txn : Flows \cup {Nobody}, opened : BOOLEAN]
DbType == [durable : SUBSET (Flows \X {"statement", "transaction"}), scratch : SUBSET Flows]

(* What TypeOK says of one chain. *)
LEMMA FlowFields ==
    TypeOK => /\ conn \in ConnType /\ flow \in [Flows -> FlowType] /\ db \in DbType
              /\ \A f \in Flows : flow[f] \in FlowType
  BY DEF TypeOK, ConnType, FlowType, DbType, Wants

(* Moving one chain to another stage changes nothing else of any chain. *)
LEMMA BecomeUpdate ==
    ASSUME TypeOK, NEW f \in Flows, NEW at \in Stages, Become(f, at)
    PROVE  /\ flow' \in [Flows -> FlowType]
           /\ flow'[f].at = at
           /\ \A g \in Flows \ {f} : flow'[g] = flow[g]
           /\ \A g \in Flows :
                /\ flow'[g].wants = flow[g].wants /\ flow'[g].prev = flow[g].prev
                /\ flow'[g].ticket = flow[g].ticket /\ flow'[g].inside = flow[g].inside
                /\ flow'[g].txn = flow[g].txn
  <1>1. flow \in [Flows -> FlowType]
    BY FlowFields
  <1> QED
    BY <1>1 DEF Become, FlowType

(* A job that joins the queue becomes its tail, with the next ticket. *)
LEMMA EnqueueUpdate ==
    ASSUME TypeOK, NEW f \in Flows, NEW what \in Wants,
           NEW state \in {"open", "closing", "closed"}, Enqueue(f, what, state)
    PROVE  /\ conn' \in ConnType /\ flow' \in [Flows -> FlowType]
           /\ conn'.state = state /\ conn'.tail = f
           /\ conn'.admitted = conn.admitted + 1 /\ conn'.closes = conn.closes
           /\ flow'[f].at = "waiting" /\ flow'[f].wants = what
           /\ flow'[f].prev = conn.tail /\ flow'[f].ticket = conn.admitted + 1
           /\ flow'[f].inside = flow[f].inside
           /\ \A g \in Flows \ {f} : flow'[g] = flow[g]
  <1>1. conn \in ConnType /\ flow \in [Flows -> FlowType]
    BY FlowFields
  <1>2. conn.admitted \in Nat /\ conn.tail \in Flows \cup {Nobody}
    BY <1>1 DEF ConnType
  <1> DEFINE n == conn.admitted + 1
  <1> DEFINE p == conn.tail
  <1>3. n \in Nat /\ p \in Flows \cup {Nobody}
    BY <1>2
  <1>4. conn' = [conn EXCEPT !.state = state, !.tail = f, !.admitted = n]
    BY DEF Enqueue
  <1> DEFINE r == [flow[f] EXCEPT !.at = "waiting", !.wants = what, !.prev = p, !.ticket = n]
  <1>5. flow' = [flow EXCEPT ![f] = r]
    BY DEF Enqueue
  <1>6. flow[f] \in FlowType
    BY <1>1
  <1> HIDE DEF n, p
  <1>7. /\ conn' \in ConnType /\ conn'.state = state /\ conn'.tail = f
        /\ conn'.admitted = n /\ conn'.closes = conn.closes
    BY <1>1, <1>3, <1>4, Zenon DEF ConnType
  <1>8. /\ r \in FlowType /\ r.at = "waiting" /\ r.wants = what /\ r.prev = p
        /\ r.ticket = n /\ r.inside = flow[f].inside
    BY <1>3, <1>6, Zenon DEF FlowType, Stages
  <1> HIDE DEF r
  <1>9. flow' \in [Flows -> FlowType] /\ flow'[f] = r
        /\ \A g \in Flows \ {f} : flow'[g] = flow[g]
    BY <1>1, <1>5, <1>8
  <1> QED
    BY <1>7, <1>8, <1>9 DEF n, p

(* Tickets and the chain survive a step that deals none; their order too,  *)
(* unless the step starts a job, as long as what has ended stays ended.    *)
LEMMA QueueKept ==
    ASSUME QueueInv, flow' \in [Flows -> FlowType], NEW f \in Flows,
           conn'.tail = conn.tail, conn'.admitted = conn.admitted,
           \A g \in Flows : flow'[g].ticket = flow[g].ticket /\ flow'[g].prev = flow[g].prev,
           \A g \in Flows \ {f} : flow'[g].at = flow[g].at,
           flow'[f].at \in Past \cup {"waiting"} <=> flow[f].at \in Past \cup {"waiting"}
    PROVE  /\ Dealt' /\ Chained'
           /\ /\ flow'[f].at \in Past => flow[f].at \in Past
              /\ flow[f].at = "done" => flow'[f].at = "done"
              => Ordered'
  <1>1. TypeOK /\ Dealt /\ Chained /\ Ordered
    BY DEF QueueInv
  <1>2. \A g \in Flows : flow[g] \in FlowType
    BY <1>1, FlowFields
  <1>3. Dealt'
    BY <1>1 DEF Dealt, Admitted
  <1>4. conn.tail \in Flows \cup {Nobody} /\ \A g \in Flows : flow[g].prev \in Flows \cup {Nobody}
    BY <1>1, <1>2, FlowFields DEF FlowType, ConnType
  <1>5. Chained'
    BY <1>1, <1>4 DEF Chained, Admitted
  <1>6. ASSUME flow'[f].at \in Past => flow[f].at \in Past,
               flow[f].at = "done" => flow'[f].at = "done"
        PROVE  Ordered'
    <2> SUFFICES ASSUME NEW g \in Flows, NEW h \in Flows,
                        flow'[g].at \in Past, Admitted(h)', flow'[h].ticket < flow'[g].ticket
                 PROVE  flow'[h].at = "done"
      BY DEF Ordered
    <2>1. flow[g].at \in Past
      BY <1>6
    <2>2. flow[h].at = "done"
      BY <1>1, <2>1 DEF Ordered, Admitted
    <2> QED
      BY <1>6, <2>2
  <1> QED
    BY <1>3, <1>5, <1>6

(* A job that joins the queue comes after all the others, and after the    *)
(* close nothing joins.                                                    *)
LEMMA EnqueueKeeps ==
    ASSUME QueueInv, NEW f \in Flows, flow[f].at \in {"new", "forked"},
           NEW what \in Wants \ {"none"}, NEW state \in {"open", "closing"},
           conn.state = "open", what = "close" <=> state = "closing",
           Enqueue(f, what, state), UNCHANGED db
    PROVE  QueueInv'
  <1> USE DEF QueueInv
  <1>1. TypeOK /\ conn \in ConnType /\ db \in DbType /\ \A g \in Flows : flow[g] \in FlowType
    BY FlowFields
  <1>2. /\ conn' \in ConnType /\ flow' \in [Flows -> FlowType]
        /\ conn'.state = state /\ conn'.tail = f
        /\ conn'.admitted = conn.admitted + 1 /\ conn'.closes = conn.closes
        /\ flow'[f].at = "waiting" /\ flow'[f].wants = what
        /\ flow'[f].prev = conn.tail /\ flow'[f].ticket = conn.admitted + 1
        /\ flow'[f].inside = flow[f].inside
        /\ \A g \in Flows \ {f} : flow'[g] = flow[g]
    BY <1>1, EnqueueUpdate
  <1>3. TypeOK'
    BY <1>1, <1>2 DEF TypeOK, ConnType, FlowType, DbType, Wants
  <1>4. /\ conn.admitted \in Nat /\ conn.tail \in Flows \cup {Nobody}
        /\ \A g \in Flows : flow[g].ticket \in Nat /\ flow[g].prev \in Flows \cup {Nobody}
    BY <1>1 DEF ConnType, FlowType
  <1>5. ~Admitted(f) /\ flow[f].ticket = 0
    BY <1>4 DEF Dealt, Past, Owning, Holding, Admitted
  <1>6. Dealt'
    BY <1>2, <1>4, <1>5 DEF Dealt, Admitted, Past, Owning, Holding
  <1>7. Chained'
    BY <1>2, <1>4, <1>5, DatabaseConnectionAssumption DEF Chained, Admitted, Dealt
  <1>8. Ordered'
    BY <1>2, <1>4, <1>5 DEF Ordered, Admitted, Dealt, Past, Owning, Holding
  <1>9. Entered'
    BY <1>1, <1>2 DEF Entered, DbType, Holding
  <1>10. ClosesLast'
    BY <1>2, <1>4, <1>5, DatabaseConnectionAssumption DEF ClosesLast, Admitted
  <1> QED
    BY <1>3, <1>6, <1>7, <1>8, <1>9, <1>10

(* A flow that has not called yet owns no operation, and one that runs      *)
(* inside its own reuses it.                                                *)
LEMMA OwnOperation ==
    ASSUME QueueInv, NEW f \in Flows
    PROVE  /\ flow[f].at \in {"new", "forked"} => ~RootActive(f)
           /\ flow[f].at = "root" => Reenters(f)
  BY DatabaseConnectionAssumption DEF QueueInv, Entered, RootActive, Reenters, Holding

(* A stage in which a flow holds no ticket keeps it out of the invariant.  *)
LEMMA OutsideKeeps ==
    ASSUME QueueInv, NEW f \in Flows, flow[f].at \in {"new", "forked", "awaiting"},
           NEW at \in {"refused", "joined", "awaiting"}, Become(f, at), UNCHANGED conn,
           db'.durable = db.durable, db' \in DbType,
           \A g \in db'.scratch : flow[g].at = "tx"
    PROVE  QueueInv'
  <1> USE DEF QueueInv
  <1>1. at \in Stages
    BY DEF Stages
  <1>2. /\ flow' \in [Flows -> FlowType]
        /\ flow'[f].at = at
        /\ \A g \in Flows \ {f} : flow'[g] = flow[g]
        /\ \A g \in Flows :
             /\ flow'[g].wants = flow[g].wants /\ flow'[g].prev = flow[g].prev
             /\ flow'[g].ticket = flow[g].ticket /\ flow'[g].inside = flow[g].inside
    BY <1>1, BecomeUpdate
  <1>3. TypeOK'
    BY <1>2, FlowFields DEF TypeOK, ConnType, FlowType, DbType, Wants
  <1>4. Dealt' /\ Chained' /\ Ordered'
    BY <1>2, QueueKept DEF Past, Owning, Holding
  <1>5. Entered'
    BY <1>2 DEF Entered, Holding, DbType
  <1>6. conn \in ConnType /\ flow[f].at \notin Past \cup {"waiting"}
    BY FlowFields DEF Past, Owning, Holding
  <1>7. ~Admitted(f)
    BY <1>6 DEF Dealt
  <1>8. ClosesLast'
    BY <1>2, <1>6, <1>7 DEF ClosesLast, Admitted, ConnType, Past
  <1> QED
    BY <1>3, <1>4, <1>5, <1>8

(* The steps of a chain before it is admitted, or refused. *)
LEMMA ArrivalKeeps ==
    ASSUME QueueInv, NEW f \in Flows,
           \/ \E what \in {"operation", "transaction"} : Call(f, what)
           \/ CallFacade(f) \/ Close(f)
    PROVE  QueueInv'
  <1>1. db \in DbType /\ \A g \in db.scratch : flow[g].at = "tx"
    BY FlowFields DEF QueueInv, Entered
  <1>2. ASSUME NEW what \in {"operation", "transaction"}, Call(f, what)
        PROVE  QueueInv'
    <2>1. flow[f].at \in {"new", "forked"} /\ ~RootActive(f) /\ UNCHANGED db
      BY <1>2, OwnOperation DEF Call
    <2>2. CASE Refuse(f)
      BY <1>1, <2>1, <2>2, OutsideKeeps DEF Refuse
    <2>3. CASE conn.state = "open" /\ Enqueue(f, what, "open")
      BY <2>1, <2>3, EnqueueKeeps DEF Wants
    <2> QED
      BY <1>2, <2>1, <2>2, <2>3 DEF Call, Admit
  <1>3. CASE CallFacade(f)
    <2>1. CASE Refuse(f) /\ UNCHANGED db
      BY <1>1, <1>3, <2>1, OutsideKeeps DEF Refuse, CallFacade
    <2>2. CASE TxActive(f) /\ Become(f, "joined")
               /\ db' = [db EXCEPT !.scratch = {flow[f].txn}] /\ UNCHANGED conn
      <3>1. PICK g \in Flows : flow[f].txn = g /\ flow[g].at = "tx"
        BY <2>2 DEF TxActive
      <3>2. db' \in DbType /\ db'.durable = db.durable /\ db'.scratch = {g}
        BY <1>1, <2>2, <3>1 DEF DbType
      <3> QED
        BY <1>3, <2>2, <3>1, <3>2, OutsideKeeps DEF CallFacade
    <2> QED
      BY <1>3, <2>1, <2>2 DEF CallFacade
  <1>4. CASE Close(f)
    <2>1. CASE Refuse(f)
      BY <1>1, <1>4, <2>1, OutsideKeeps DEF Refuse, Close
    <2>2. CASE FirstClose /\ Enqueue(f, "close", "closing")
      BY <1>4, <2>2, EnqueueKeeps DEF Close, FirstClose, Wants
    <2>3. CASE Become(f, "awaiting") /\ UNCHANGED conn
      BY <1>1, <1>4, <2>3, OutsideKeeps DEF Close
    <2> QED
      BY <1>4, <2>1, <2>2, <2>3 DEF Close
  <1> QED
    BY <1>2, <1>3, <1>4

(* The owner may do what it likes with the slot until it gives it back. *)
LEMMA HoldingKeeps ==
    ASSUME QueueInv, NEW f \in Flows, flow[f].at \in Holding,
           flow' \in [Flows -> FlowType], flow'[f].at \in Holding \cup {"done"},
           \A g \in Flows \ {f} : flow'[g].at = flow[g].at,
           \A g \in Flows :
                /\ flow'[g].wants = flow[g].wants /\ flow'[g].prev = flow[g].prev
                /\ flow'[g].ticket = flow[g].ticket /\ flow'[g].inside = flow[g].inside,
           UNCHANGED conn, db' \in DbType, \A g \in db'.scratch : flow'[g].at = "tx"
    PROVE  QueueInv'
  <1> USE DEF QueueInv
  <1>1. TypeOK' /\ conn \in ConnType
    BY FlowFields DEF TypeOK, ConnType, FlowType, DbType, Wants
  <1>2. Dealt' /\ Chained' /\ Ordered'
    BY QueueKept DEF Past, Owning, Holding
  <1>3. Entered'
    BY DEF Entered, Holding, DbType
  <1>4. flow[f].at # "done" /\ flow[f].wants # "close"
    BY DEF Entered, Holding
  <1>5. ClosesLast'
    BY <1>1, <1>4 DEF ClosesLast, Admitted, ConnType
  <1> QED
    BY <1>1, <1>2, <1>3, <1>5

(* A step of the owner that only moves it to another stage. *)
LEMMA OwnerBecomes ==
    ASSUME QueueInv, NEW f \in Flows, flow[f].at \in Holding, NEW at \in {"root", "publish", "done"},
           Become(f, at), UNCHANGED conn, db' \in DbType,
           db'.scratch = {} \/ (db' = db /\ flow[f].at # "tx")
    PROVE  QueueInv'
  <1>1. at \in Stages
    BY DEF Stages
  <1>2. /\ flow' \in [Flows -> FlowType]
        /\ flow'[f].at = at
        /\ \A g \in Flows \ {f} : flow'[g] = flow[g]
        /\ \A g \in Flows :
             /\ flow'[g].wants = flow[g].wants /\ flow'[g].prev = flow[g].prev
             /\ flow'[g].ticket = flow[g].ticket /\ flow'[g].inside = flow[g].inside
    BY <1>1, BecomeUpdate DEF QueueInv
  <1>3. \A g \in db'.scratch : flow'[g].at = "tx"
    BY <1>2 DEF QueueInv, Entered, DbType
  <1> QED
    BY <1>2, <1>3, HoldingKeeps DEF Holding

(* The steps of a job between its start and its release. *)
LEMMA OwnerKeeps ==
    ASSUME QueueInv, NEW f \in Flows,
           \/ Statement(f) \/ OpenTransaction(f) \/ Commit(f) \/ Rollback(f)
           \/ EndPublication(f) \/ EndOperation(f)
    PROVE  QueueInv'
  <1>1. /\ TypeOK /\ flow \in [Flows -> FlowType] /\ db \in DbType
        /\ flow[f] \in FlowType /\ \A g \in db.scratch : flow[g].at = "tx"
    BY FlowFields DEF QueueInv, Entered
  <1>2. CASE Statement(f)
    <2>1. CASE flow[f].at \in {"root", "publish"}
               /\ db' = [db EXCEPT !.durable = @ \cup {<<f, "statement">>}]
               /\ UNCHANGED <<conn, flow>>
      <3>1. db' \in DbType /\ db'.scratch = db.scratch
        BY <1>1, <2>1 DEF DbType
      <3> QED
        BY <1>1, <2>1, <3>1, HoldingKeeps DEF Holding
    <2>2. CASE flow[f].at = "tx" /\ db' = [db EXCEPT !.scratch = {f}] /\ UNCHANGED <<conn, flow>>
      <3>1. db' \in DbType /\ db'.scratch = {f}
        BY <1>1, <2>2 DEF DbType
      <3> QED
        BY <1>1, <2>2, <3>1, HoldingKeeps DEF Holding
    <2> QED
      BY <1>2, <2>1, <2>2 DEF Statement
  <1>3. CASE OpenTransaction(f)
    <2>1. /\ flow[f].at = "root" /\ UNCHANGED <<conn, db>>
          /\ flow' = [flow EXCEPT ![f].at = "tx", ![f].opened = TRUE]
      BY <1>3, OwnOperation DEF OpenTransaction
    <2>2. /\ flow' \in [Flows -> FlowType] /\ flow'[f].at = "tx"
          /\ \A g \in Flows \ {f} : flow'[g] = flow[g]
          /\ \A g \in Flows :
               /\ flow'[g].wants = flow[g].wants /\ flow'[g].prev = flow[g].prev
               /\ flow'[g].ticket = flow[g].ticket /\ flow'[g].inside = flow[g].inside
      BY <1>1, <2>1 DEF FlowType, Stages
    <2>3. \A g \in db'.scratch : flow'[g].at = "tx"
      BY <1>1, <2>1, <2>2 DEF DbType
    <2> QED
      BY <1>1, <2>1, <2>2, <2>3, HoldingKeeps DEF Holding
  <1>4. CASE Commit(f)
    <2>1. db' \in DbType /\ db'.scratch = {}
      BY <1>1, <1>4 DEF Commit, DbType
    <2> QED
      BY <1>4, <2>1, OwnerBecomes DEF Commit, Holding
  <1>5. Resumed(f) \in {"root", "done"}
    BY DEF Resumed
  <1>6. CASE Rollback(f)
    <2>1. db' \in DbType /\ db'.scratch = {}
      BY <1>1, <1>6 DEF Rollback, DbType
    <2> QED
      BY <1>5, <1>6, <2>1, OwnerBecomes DEF Rollback, Holding
  <1>7. CASE EndPublication(f)
    BY <1>1, <1>5, <1>7, OwnerBecomes DEF EndPublication, Holding
  <1>8. CASE EndOperation(f)
    BY <1>1, <1>8, OwnerBecomes DEF EndOperation, Holding
  <1> QED
    BY <1>2, <1>3, <1>4, <1>6, <1>7, <1>8

(* A job starts when every job before it has ended. *)
LEMMA BeginKeeps ==
    ASSUME QueueInv, NEW f \in Flows, Begin(f)
    PROVE  /\ QueueInv'
           /\ \A g \in Flows : ~Owns(g)
           /\ conn.state # "closed" /\ flow'[f].at \in Owning
           /\ \A g \in Flows \ {f} : flow'[g] = flow[g]
  <1> USE DEF QueueInv
  <1>1. /\ TypeOK /\ flow \in [Flows -> FlowType] /\ flow[f] \in FlowType /\ conn \in ConnType
        /\ \A g \in Flows : flow[g] \in FlowType
    BY FlowFields
  <1> DEFINE at == CASE flow[f].wants = "operation" -> "root"
                     [] flow[f].wants = "transaction" -> "tx"
                     [] OTHER -> "closing"
  <1> DEFINE in == IF flow[f].wants = "close" THEN flow[f].inside ELSE f
  <1> DEFINE op == flow[f].wants = "transaction"
  <1> DEFINE r == [flow[f] EXCEPT !.at = at, !.inside = in, !.opened = op]
  <1>2. /\ at \in {"root", "tx", "closing"} /\ in \in Flows \cup {Nobody} /\ op \in BOOLEAN
        /\ at = "closing" <=> flow[f].wants = "close"
        /\ at \in Holding => in = f
    BY <1>1 DEF Begin, Entered, FlowType, Wants, Holding
  <1>3. flow' = [flow EXCEPT ![f] = r] /\ flow[f].at = "waiting" /\ UNCHANGED <<conn, db>>
    BY DEF Begin
  <1> HIDE DEF at, in, op
  <1>4. /\ r \in FlowType /\ r.at = at /\ r.inside = in /\ r.wants = flow[f].wants
        /\ r.prev = flow[f].prev /\ r.ticket = flow[f].ticket
    BY <1>1, <1>2, Zenon DEF FlowType, Stages
  <1> HIDE DEF r
  <1>5. /\ flow' \in [Flows -> FlowType] /\ flow'[f] = r
        /\ \A g \in Flows \ {f} : flow'[g] = flow[g]
    BY <1>1, <1>3, <1>4
  <1>6. TypeOK'
    BY <1>1, <1>3, <1>5 DEF TypeOK, ConnType, FlowType, DbType, Wants
  <1>7. Dealt' /\ Chained'
    BY <1>2, <1>3, <1>4, <1>5, QueueKept DEF Past, Owning, Holding
  <1>8. Admitted(f) /\ Released(flow[f].prev)
    BY <1>3 DEF Begin, Dealt
  <1>9. ASSUME NEW g \in Flows, Admitted(g), flow[g].ticket < flow[f].ticket
        PROVE  flow[g].at = "done"
    <2>1. flow[f].ticket \in Nat /\ flow[g].ticket \in Nat
      BY <1>1 DEF FlowType
    <2>2. flow[f].prev # Nobody
      BY <1>8, <1>9, <2>1 DEF Chained, Admitted
    <2>3. PICK h \in Flows : flow[f].prev = h /\ flow[h].at = "done"
      BY <1>8, <2>2 DEF Released
    <2>4. flow[h].ticket = flow[f].ticket - 1 /\ flow[h].ticket \in Nat
      BY <1>1, <1>8, <2>2, <2>3 DEF Chained, FlowType
    <2>5. CASE flow[g].ticket = flow[h].ticket
      BY <1>9, <2>3, <2>5 DEF Dealt, Admitted
    <2>6. CASE flow[g].ticket < flow[h].ticket
      BY <1>9, <2>3, <2>6 DEF Ordered, Past, Admitted
    <2> QED
      BY <1>9, <2>1, <2>4, <2>5, <2>6
  <1>10. ASSUME NEW g \in Flows, flow[g].at \in Past
         PROVE  flow[g].at = "done"
    <2>1. flow[f].ticket \in Nat /\ flow[g].ticket \in Nat
      BY <1>1 DEF FlowType
    <2>2. Admitted(g)
      BY <1>10 DEF Dealt
    <2>3. ~(flow[f].ticket < flow[g].ticket)
      BY <1>3, <1>8, <1>10 DEF Ordered
    <2>4. CASE flow[g].ticket = flow[f].ticket
      BY <1>3, <1>8, <1>10, <2>4 DEF Dealt, Past, Owning, Holding
    <2> QED
      BY <1>9, <2>1, <2>2, <2>3, <2>4
  <1>11. Ordered'
    <2> SUFFICES ASSUME NEW g \in Flows, NEW h \in Flows,
                        flow'[g].at \in Past, Admitted(h)', flow'[h].ticket < flow'[g].ticket
                 PROVE  flow'[h].at = "done"
      BY DEF Ordered
    <2>1. Admitted(h) /\ flow[h].ticket < flow[g].ticket
      BY <1>4, <1>5 DEF Admitted
    <2>2. flow[h].at = "done"
      BY <1>5, <1>9, <2>1 DEF Ordered
    <2> QED
      BY <1>3, <1>5, <2>2
  <1>12. Entered'
    <2>1. db.scratch \subseteq Flows
      BY FlowFields DEF DbType
    <2>2. \A g \in db'.scratch : flow'[g].at = "tx"
      BY <1>3, <1>5, <2>1 DEF Entered
    <2>3. flow'[f].at \in Holding => flow'[f].wants \in {"operation", "transaction"}
      BY <1>1, <1>2, <1>3, <1>4, <1>5 DEF Entered, FlowType, Wants, Holding
    <2> QED
      BY <1>2, <1>4, <1>5, <2>2, <2>3 DEF Entered, Holding
  <1>13. conn.state # "closed"
    <2> SUFFICES ASSUME conn.state = "closed" PROVE FALSE
      OBVIOUS
    <2>1. conn.tail \in Flows /\ flow[conn.tail].at = "done" /\ conn.tail # Nobody
      BY <1>1 DEF ClosesLast, ConnType
    <2>2. flow[conn.tail].ticket = conn.admitted /\ Admitted(conn.tail)
      BY <2>1 DEF Chained, Admitted
    <2>3. flow[f].ticket <= flow[conn.tail].ticket /\ flow[f].ticket \in Nat
          /\ flow[conn.tail].ticket \in Nat
      BY <1>1, <2>1, <2>2 DEF Dealt, FlowType
    <2>4. CASE flow[f].ticket = flow[conn.tail].ticket
      BY <1>3, <1>8, <2>1, <2>4 DEF Dealt
    <2>5. CASE flow[f].ticket < flow[conn.tail].ticket
      BY <1>3, <1>8, <2>1, <2>5 DEF Ordered, Past
    <2> QED
      BY <2>3, <2>4, <2>5
  <1>14. ClosesLast'
    BY <1>1, <1>2, <1>3, <1>4, <1>5, <1>13 DEF ClosesLast, Admitted
  <1>15. \A g \in Flows : ~Owns(g)
    BY <1>10 DEF Owns, Past, Owning, Holding
  <1> QED
    BY <1>2, <1>4, <1>5, <1>6, <1>7, <1>11, <1>12, <1>13, <1>14, <1>15 DEF Owning, Holding

(* Starting a flow beside the owner leaves the queue alone. *)
LEMMA ForkKeeps ==
    ASSUME QueueInv, NEW f \in Flows, NEW g \in Flows, Fork(f, g)
    PROVE  QueueInv'
  <1> USE DEF QueueInv
  <1>1. flow \in [Flows -> FlowType] /\ flow[g] \in FlowType /\ conn \in ConnType
    BY FlowFields
  <1> DEFINE tx == IF flow[f].at = "tx" THEN f ELSE Nobody
  <1> DEFINE r == [flow[g] EXCEPT !.at = "forked", !.inside = Nobody, !.txn = tx]
  <1>2. flow[g].at = "new" /\ flow' = [flow EXCEPT ![g] = r] /\ UNCHANGED <<conn, db>>
    BY DEF Fork, Carried
  <1>3. tx \in Flows \cup {Nobody}
    OBVIOUS
  <1> HIDE DEF tx
  <1>4. /\ r \in FlowType /\ r.at = "forked" /\ r.inside = Nobody /\ r.wants = flow[g].wants
        /\ r.prev = flow[g].prev /\ r.ticket = flow[g].ticket
    BY <1>1, <1>3, Zenon DEF FlowType, Stages
  <1> HIDE DEF r
  <1>5. /\ flow' \in [Flows -> FlowType] /\ flow'[g] = r
        /\ \A h \in Flows \ {g} : flow'[h] = flow[h]
    BY <1>1, <1>2, <1>4
  <1>6. TypeOK'
    BY <1>2, <1>5, FlowFields DEF TypeOK, ConnType, FlowType, DbType, Wants
  <1>7. Dealt' /\ Chained' /\ Ordered'
    BY <1>2, <1>4, <1>5, QueueKept DEF Past, Owning, Holding
  <1>8. Entered'
    BY <1>2, <1>4, <1>5 DEF Entered, Holding
  <1>9. ClosesLast'
    BY <1>1, <1>2, <1>4, <1>5 DEF ClosesLast, Admitted, ConnType
  <1> QED
    BY <1>6, <1>7, <1>8, <1>9

(* The driver is closed by the last job of the queue. *)
LEMMA CloseKeeps ==
    ASSUME QueueInv, NEW f \in Flows, CloseDriver(f)
    PROVE  /\ QueueInv'
           /\ flow'[f].at = "done" /\ conn.closes = 0 /\ conn'.closes = 1
           /\ \A g \in Flows \ {f} : flow'[g] = flow[g]
  <1> USE DEF QueueInv
  <1>1. /\ TypeOK /\ conn \in ConnType /\ flow[f].at = "closing" /\ UNCHANGED db
        /\ \A g \in Flows : flow[g] \in FlowType
    BY FlowFields DEF CloseDriver
  <1>2. /\ flow' \in [Flows -> FlowType]
        /\ flow'[f].at = "done"
        /\ \A g \in Flows \ {f} : flow'[g] = flow[g]
        /\ \A g \in Flows :
             /\ flow'[g].wants = flow[g].wants /\ flow'[g].prev = flow[g].prev
             /\ flow'[g].ticket = flow[g].ticket /\ flow'[g].inside = flow[g].inside
    BY <1>1, BecomeUpdate DEF CloseDriver, Stages
  <1>3. Admitted(f) /\ flow[f].wants = "close"
    BY <1>1 DEF Dealt, Entered, Past, Owning, Holding
  <1>4. conn.state = "closing" /\ conn.closes = 0 /\ flow[f].ticket = conn.admitted
    BY <1>1, <1>3 DEF ClosesLast
  <1>5. conn.tail = f
    BY <1>1, <1>3, <1>4 DEF Chained, Dealt, Admitted, ConnType, FlowType
  <1> DEFINE n == conn.closes + 1
  <1>6. n = 1 /\ conn' = [conn EXCEPT !.state = "closed", !.closes = n]
    BY <1>4 DEF CloseDriver
  <1> HIDE DEF n
  <1>7. /\ conn' \in ConnType /\ conn'.state = "closed" /\ conn'.closes = 1
        /\ conn'.tail = conn.tail /\ conn'.admitted = conn.admitted
    BY <1>1, <1>6, Zenon DEF ConnType
  <1>8. TypeOK'
    BY <1>1, <1>2, <1>7 DEF TypeOK, ConnType, FlowType, DbType, Wants
  <1>9. Dealt' /\ Chained' /\ Ordered'
    BY <1>1, <1>2, <1>7, QueueKept DEF Past, Owning, Holding
  <1>10. Entered'
    BY <1>1, <1>2, FlowFields DEF Entered, Holding, DbType
  <1>11. ClosesLast'
    <2>1. conn'.tail # Nobody /\ flow'[conn'.tail].at = "done"
      BY <1>2, <1>5, <1>7, DatabaseConnectionAssumption
    <2>2. ASSUME NEW g \in Flows, Admitted(g), flow[g].wants = "close"
          PROVE  g = f
      BY <1>3, <1>4, <2>2 DEF ClosesLast, Dealt
    <2>3. ASSUME NEW g \in Flows, Admitted(g)', flow'[g].wants = "close"
          PROVE  g = f
      BY <1>2, <2>2, <2>3 DEF Admitted
    <2> QED
      BY <1>2, <1>4, <1>7, <2>1, <2>3 DEF ClosesLast
  <1> QED
    BY <1>2, <1>4, <1>7, <1>8, <1>9, <1>10, <1>11

(* No promise is chained at first. *)
LEMMA QueueInit == Init => QueueInv
  BY DatabaseConnectionAssumption
  DEF Init, QueueInv, TypeOK, Dealt, Chained, Ordered, Entered, ClosesLast, Admitted, Past,
      Owning, Holding, Stages

(* QueueInv speaks of the variables only. *)
LEMMA QueueStutter == QueueInv /\ UNCHANGED vars => QueueInv'
  BY DEF vars, QueueInv, TypeOK, Dealt, Chained, Ordered, Entered, ClosesLast, Admitted

(* Each step of each chain preserves QueueInv. *)
LEMMA QueueNext == QueueInv /\ [Next]_vars => QueueInv'
  <1> SUFFICES ASSUME QueueInv, [Next]_vars PROVE QueueInv'
    OBVIOUS
  <1>1. ASSUME NEW f \in Flows, Work(f)
        PROVE  QueueInv'
    <2>1. CASE CloseAwaited(f)
      <3>1. db \in DbType /\ \A g \in db.scratch : flow[g].at = "tx"
        BY FlowFields DEF QueueInv, Entered
      <3> QED
        BY <2>1, <3>1, OutsideKeeps DEF CloseAwaited
    <2> QED
      BY <1>1, <2>1, BeginKeeps, OwnerKeeps, CloseKeeps DEF Work
  <1>2. ASSUME NEW f \in Flows, Arrive(f)
        PROVE  QueueInv'
    BY <1>2, ArrivalKeeps, OwnerKeeps, ForkKeeps DEF Arrive
  <1> QED
    BY <1>1, <1>2, QueueStutter DEF Next, Rest

(* The promises chained one to the other are a queue: QueueInv holds in     *)
(* every state that the calls of any set of flows can reach.               *)
THEOREM ChainIsAQueue == Spec => []QueueInv
  BY QueueInit, QueueNext, PTL DEF Spec

(* Of two owners, the one that came first would have ended.                *)
LEMMA QueueOneOwner == QueueInv => OneOwner
  <1> SUFFICES ASSUME QueueInv, NEW f \in Flows, NEW g \in Flows, Owns(f), Owns(g)
               PROVE  f = g
    BY DEF OneOwner
  <1>1. Admitted(f) /\ Admitted(g) /\ flow[f].ticket \in Nat /\ flow[g].ticket \in Nat
    BY FlowFields DEF QueueInv, Dealt, Owns, Past, FlowType
  <1>2. ~(flow[f].ticket < flow[g].ticket) /\ ~(flow[g].ticket < flow[f].ticket)
    BY <1>1 DEF QueueInv, Ordered, Owns, Past, Owning, Holding
  <1> QED
    BY <1>1, <1>2 DEF QueueInv, Dealt

(* The database has one owner at a time, from the first statement of a job *)
(* until what it committed is published, whatever its callers leave running.*)
THEOREM OneOwnerAtATime == Spec => []OneOwner
  BY ChainIsAQueue, QueueOneOwner, PTL

(* The close is the last job of the queue: when it has ended, all have. *)
LEMMA QueueDrains == QueueInv => CloseDrains
  <1> SUFFICES ASSUME QueueInv, conn.state = "closed"
               PROVE  db.scratch = {} /\ \A f \in Flows : ~Owns(f) /\ flow[f].at # "waiting"
    BY DEF CloseDrains
  <1> DEFINE t == conn.tail
  <1>1. conn \in ConnType /\ db \in DbType /\ \A f \in Flows : flow[f] \in FlowType
    BY FlowFields DEF QueueInv
  <1>2. t \in Flows /\ t # Nobody /\ flow[t].at = "done" /\ flow[t].ticket = conn.admitted
    BY <1>1 DEF QueueInv, ClosesLast, ConnType, Chained
  <1> HIDE DEF t
  <1>3. ASSUME NEW f \in Flows, flow[f].at \in Past \cup {"waiting"}
        PROVE  flow[f].at = "done"
    <2>1. /\ Admitted(f) /\ flow[f].ticket <= flow[t].ticket
          /\ flow[f].ticket \in Nat /\ flow[t].ticket \in Nat
      BY <1>1, <1>2, <1>3 DEF QueueInv, Dealt, FlowType
    <2>2. CASE flow[f].ticket = flow[t].ticket
      BY <1>2, <2>1, <2>2 DEF QueueInv, Dealt
    <2>3. CASE flow[f].ticket < flow[t].ticket
      BY <1>2, <2>1, <2>3 DEF QueueInv, Ordered, Past
    <2> QED
      BY <2>1, <2>2, <2>3
  <1>4. \A f \in Flows : ~Owns(f) /\ flow[f].at # "waiting"
    BY <1>3 DEF Owns, Past, Owning, Holding
  <1>5. db.scratch = {}
    BY <1>1, <1>4 DEF QueueInv, Entered, DbType, Owns, Owning, Holding
  <1> QED
    BY <1>4, <1>5

(* A closed connection has answered everything it admitted.                *)
THEOREM CloseDrainsTheQueue == Spec => []CloseDrains
  BY ChainIsAQueue, QueueDrains, PTL

OwnersNow == {f \in Flows : Owns(f)}

(* What no owner does: nothing that SerialDatabase speaks of moves. *)
Unseen == \A g \in Flows : Owns(g)' <=> Owns(g)

(* A call that is made, refused or queued is no step of SerialDatabase. *)
LEMMA OutsideUnseen ==
    ASSUME QueueInv, NEW f \in Flows,
           \/ \E what \in {"operation", "transaction"} : Call(f, what)
           \/ CallFacade(f) \/ Close(f) \/ CloseAwaited(f) \/ OpenTransaction(f)
           \/ \E g \in Flows : Fork(f, g)
    PROVE  Unseen /\ db'.durable = db.durable /\ conn'.closes = conn.closes
  <1>1. TypeOK /\ conn \in ConnType /\ flow \in [Flows -> FlowType] /\ db \in DbType
    BY FlowFields DEF QueueInv
  <1>2. ASSUME ~Owns(f), NEW at \in {"refused", "joined", "awaiting"}, Become(f, at)
        PROVE  Unseen
    BY <1>1, <1>2, BecomeUpdate DEF Unseen, Owns, Owning, Holding, Stages
  <1>3. ASSUME ~Owns(f), NEW what \in Wants, NEW state \in {"open", "closing", "closed"},
               Enqueue(f, what, state)
        PROVE  Unseen /\ conn'.closes = conn.closes
    BY <1>1, <1>3, EnqueueUpdate DEF Unseen, Owns, Owning, Holding
  <1>4. ASSUME NEW what \in {"operation", "transaction"}, Call(f, what)
        PROVE  Unseen /\ db'.durable = db.durable /\ conn'.closes = conn.closes
    <2>1. flow[f].at \in {"new", "forked"} /\ ~RootActive(f) /\ UNCHANGED db /\ ~Owns(f)
      BY <1>4, OwnOperation DEF Call, Owns, Owning, Holding
    <2>2. Refuse(f) \/ Enqueue(f, what, "open")
      BY <1>4, <2>1 DEF Call, Admit
    <2> QED
      BY <1>2, <1>3, <2>1, <2>2 DEF Refuse, Wants
  <1>5. CASE CallFacade(f)
    <2>1. ~Owns(f) /\ UNCHANGED conn /\ (Become(f, "refused") \/ Become(f, "joined"))
      BY <1>5 DEF CallFacade, Refuse, Owns, Owning, Holding
    <2>2. db'.durable = db.durable
      BY <1>1, <1>5 DEF CallFacade, DbType
    <2> QED
      BY <1>2, <2>1, <2>2
  <1>6. CASE Close(f)
    <2>1. ~Owns(f) /\ UNCHANGED db
      BY <1>6 DEF Close, Owns, Owning, Holding
    <2>2. \/ UNCHANGED conn /\ (Become(f, "refused") \/ Become(f, "awaiting"))
          \/ Enqueue(f, "close", "closing")
      BY <1>6 DEF Close, Refuse
    <2> QED
      BY <1>2, <1>3, <2>1, <2>2 DEF Wants
  <1>7. CASE CloseAwaited(f)
    BY <1>2, <1>7 DEF CloseAwaited, Owns, Owning, Holding
  <1>8. CASE OpenTransaction(f)
    <2>1. /\ flow[f].at = "root" /\ UNCHANGED <<conn, db>>
          /\ flow' = [flow EXCEPT ![f].at = "tx", ![f].opened = TRUE]
      BY <1>8, OwnOperation DEF OpenTransaction
    <2>2. flow'[f].at = "tx" /\ \A g \in Flows \ {f} : flow'[g] = flow[g]
      BY <1>1, <2>1 DEF FlowType
    <2> QED
      BY <2>1, <2>2 DEF Unseen, Owns, Owning, Holding
  <1>9. ASSUME NEW g \in Flows, Fork(f, g)
        PROVE  Unseen /\ db'.durable = db.durable /\ conn'.closes = conn.closes
    <2> DEFINE tx == IF flow[f].at = "tx" THEN f ELSE Nobody
    <2> DEFINE in == Carried(f)
    <2>3. /\ flow[g].at = "new" /\ UNCHANGED <<conn, db>>
          /\ flow' = [flow EXCEPT ![g].at = "forked", ![g].inside = in, ![g].txn = tx]
      BY <1>9 DEF Fork
    <2> HIDE DEF tx, in
    <2>4. flow[g] \in FlowType
      BY <1>1
    <2>1. flow[g].at = "new" /\ flow'[g].at = "forked" /\ UNCHANGED <<conn, db>>
          /\ \A h \in Flows \ {g} : flow'[h] = flow[h]
      BY <1>1, <2>3, <2>4, Zenon DEF FlowType
    <2> QED
      BY <2>1 DEF Unseen, Owns, Owning, Holding
  <1> QED
    BY <1>4, <1>5, <1>6, <1>7, <1>8, <1>9

(* Every durable write is the owner's, and a step that writes neither takes *)
(* nor gives up the database.                                              *)
LEMMA WritesAreTheOwners ==
    ASSUME QueueInv, NEW f \in Flows, Statement(f) \/ Commit(f)
    PROVE  /\ Owns(f) /\ Unseen /\ UNCHANGED conn
           /\ \E kind \in {"statement", "transaction"} :
                 db'.durable \in {db.durable, db.durable \cup {<<f, kind>>}}
           /\ flow[f].at = "tx" \/ UNCHANGED flow
  <1>1. TypeOK /\ flow \in [Flows -> FlowType] /\ db \in DbType /\ OneOwner
        /\ \A g \in db.scratch : flow[g].at = "tx"
    BY FlowFields, QueueOneOwner DEF QueueInv, Entered
  <1>2. CASE Statement(f)
    BY <1>1, <1>2 DEF Statement, Unseen, Owns, Owning, Holding, DbType
  <1>3. CASE Commit(f)
    <2>1. flow[f].at = "tx" /\ UNCHANGED conn
          /\ db'.durable = db.durable \cup {<<g, "transaction">> : g \in db.scratch}
      BY <1>3 DEF Commit
    <2>2. db.scratch = {} \/ db.scratch = {f}
      BY <1>1, <2>1 DEF OneOwner, Owns, Owning, Holding, DbType
    <2>3. db'.durable \in {db.durable, db.durable \cup {<<f, "transaction">>}}
      BY <1>1, <2>1, <2>2 DEF DbType
    <2>4. flow'[f].at = "publish" /\ \A g \in Flows \ {f} : flow'[g] = flow[g]
      BY <1>1, <1>3, BecomeUpdate DEF Commit, Stages
    <2> QED
      BY <2>1, <2>3, <2>4 DEF Unseen, Owns, Owning, Holding
  <1> QED
    BY <1>2, <1>3

(* The other steps of an owner keep the database or give it up. *)
LEMMA OwnerWithoutWrites ==
    ASSUME QueueInv, NEW f \in Flows, Rollback(f) \/ EndPublication(f) \/ EndOperation(f)
    PROVE  /\ Owns(f) /\ UNCHANGED conn /\ db'.durable = db.durable
           /\ \A g \in Flows \ {f} : flow'[g] = flow[g]
  <1>1. TypeOK /\ flow \in [Flows -> FlowType] /\ db \in DbType
    BY FlowFields DEF QueueInv
  <1>2. UNCHANGED conn /\ flow[f].at \in Holding /\ db'.durable = db.durable
    BY <1>1 DEF Rollback, EndPublication, EndOperation, Holding, DbType
  <1>3. \E at \in Stages : Become(f, at)
    BY DEF Rollback, EndPublication, EndOperation, Resumed, Stages
  <1> QED
    BY <1>1, <1>2, <1>3, BecomeUpdate DEF Owns, Owning

(* The initial states, and each step, are those of SerialDatabase. *)
LEMMA SerialInit == Init => Serial!Init
  BY DEF Init, Serial!Init, Owns, Owning, Holding

(* What SerialDatabase sees depends on the owners and on these fields. *)
LEMMA SerialStutter ==
    ASSUME Unseen, db'.durable = db.durable, conn'.closes = conn.closes
    PROVE  UNCHANGED <<OwnersNow, db.durable, conn.closes > 0>>
  BY DEF Unseen, OwnersNow

(* A job that begins acquires, its end releases, and what it writes is a  *)
(* write of the owner; the rest is a stutter.                             *)
LEMMA SerialNext ==
    ASSUME QueueInv, [Next]_vars
    PROVE  [Serial!Next]_<<OwnersNow, db.durable, conn.closes > 0>>
  <1>1. OneOwner /\ QueueInv' /\ conn \in ConnType
    BY QueueOneOwner, QueueNext, FlowFields DEF QueueInv
  <1>2. ASSUME NEW f \in Flows, Owns(f)
        PROVE  OwnersNow = {f} /\ ~(conn.closes > 0)
    BY <1>1, <1>2, QueueDrains DEF OneOwner, OwnersNow, CloseDrains, QueueInv, ClosesLast
  <1>3. ASSUME NEW f \in Flows, Owns(f), \A g \in Flows \ {f} : flow'[g] = flow[g]
        PROVE  OwnersNow' = IF Owns(f)' THEN {f} ELSE {}
    BY <1>2, <1>3 DEF OwnersNow, Owns
  <1>4. ASSUME NEW f \in Flows, Begin(f)
        PROVE  Serial!Acquire(f)
    <2>1. /\ flow'[f].at \in Owning /\ \A g \in Flows \ {f} : flow'[g] = flow[g]
          /\ conn.state # "closed" /\ \A g \in Flows : ~Owns(g)
      BY <1>4, BeginKeeps
    <2>2. UNCHANGED <<conn, db>>
      BY <1>4 DEF Begin
    <2>3. OwnersNow = {} /\ OwnersNow' = {f}
      BY <2>1 DEF OwnersNow, Owns
    <2>4. ~(conn.closes > 0)
      BY <2>1 DEF QueueInv, ClosesLast
    <2> QED
      BY <2>2, <2>3, <2>4 DEF Serial!Acquire, OwnersNow
  <1>5. ASSUME NEW f \in Flows, Statement(f) \/ Commit(f)
        PROVE  Serial!Write(f) \/ UNCHANGED <<OwnersNow, db.durable, conn.closes > 0>>
    <2>1. /\ Owns(f) /\ Unseen /\ UNCHANGED conn
      BY <1>5, WritesAreTheOwners
    <2>2. PICK kind \in {"statement", "transaction"} :
             db'.durable \in {db.durable, db.durable \cup {<<f, kind>>}}
      BY <1>5, WritesAreTheOwners
    <2>3. OwnersNow' = OwnersNow /\ OwnersNow = {f} /\ ~(conn.closes > 0)
      BY <1>2, <2>1 DEF Unseen, OwnersNow
    <2> QED
      BY <2>1, <2>2, <2>3 DEF Serial!Write, OwnersNow
  <1>6. ASSUME NEW f \in Flows, Rollback(f) \/ EndPublication(f) \/ EndOperation(f)
        PROVE  Serial!Release(f) \/ UNCHANGED <<OwnersNow, db.durable, conn.closes > 0>>
    <2>1. /\ OwnersNow = {f} /\ OwnersNow' = IF Owns(f)' THEN {f} ELSE {}
          /\ UNCHANGED conn /\ db'.durable = db.durable
      BY <1>2, <1>3, <1>6, OwnerWithoutWrites
    <2> QED
      BY <2>1 DEF Serial!Release, OwnersNow
  <1>7. ASSUME NEW f \in Flows, CloseDriver(f)
        PROVE  Serial!Close(f)
    <2>1. /\ Owns(f) /\ ~Owns(f)' /\ UNCHANGED db /\ conn'.closes > 0
          /\ \A g \in Flows \ {f} : flow'[g] = flow[g]
      BY <1>7, CloseKeeps DEF CloseDriver, Owns, Owning, Holding
    <2>2. OwnersNow = {f} /\ OwnersNow' = {} /\ ~(conn.closes > 0)
      BY <1>2, <1>3, <2>1
    <2> QED
      BY <2>1, <2>2 DEF Serial!Close, OwnersNow
  <1>8. ASSUME NEW f \in Flows,
               \/ \E what \in {"operation", "transaction"} : Call(f, what)
               \/ CallFacade(f) \/ Close(f) \/ CloseAwaited(f) \/ OpenTransaction(f)
               \/ \E g \in Flows : Fork(f, g)
        PROVE  UNCHANGED <<OwnersNow, db.durable, conn.closes > 0>>
    BY <1>8, OutsideUnseen, SerialStutter
  <1>9. CASE UNCHANGED vars
    BY <1>9 DEF vars, OwnersNow, Owns
  <1> QED
    BY <1>4, <1>5, <1>6, <1>7, <1>8, <1>9 DEF Next, Work, Arrive, Rest, Serial!Next

(* AgentDatabaseConnection implements SerialDatabase: its callers see one   *)
(* owner at a time whose writes alone become durable, and one close.       *)
THEOREM ConnectionIsSerial == Spec => Serialised
  BY ChainIsAQueue, SerialInit, SerialNext, PTL
  DEF Spec, Serialised, Serial!Spec, OwnersNow

(* A publication is exclusive, whatever the callers of the database do.    *)
LEMMA PublicationStep ==
    ASSUME QueueInv, [Next]_vars, NEW f \in Flows, flow[f].at = "publish"
    PROVE  \A w \in db'.durable \ db.durable : w[1] = f
  <1>1. OneOwner /\ Owns(f)
    BY QueueOneOwner DEF Owns, Owning, Holding
  <1>2. ASSUME NEW g \in Flows, Statement(g) \/ Commit(g)
        PROVE  \A w \in db'.durable \ db.durable : w[1] = f
    <2>1. g = f
      BY <1>1, <1>2, WritesAreTheOwners DEF OneOwner
    <2> QED
      BY <1>2, <2>1, WritesAreTheOwners
  <1>3. ASSUME NEW g \in Flows, ~(Statement(g) \/ Commit(g)), Work(g) \/ Arrive(g)
        PROVE  db'.durable = db.durable
    BY <1>3, OutsideUnseen, OwnerWithoutWrites DEF Work, Arrive, Begin, CloseDriver
  <1> QED
    BY <1>2, <1>3 DEF Next, Rest, vars

(* Nothing but the publication itself becomes durable while it runs.       *)
THEOREM PublicationAlone == Spec => PublicationIsExclusive
  <1>1. QueueInv /\ [Next]_vars =>
            [\A f \in Flows : flow[f].at = "publish" =>
                \A w \in db'.durable \ db.durable : w[1] = f]_vars
    BY PublicationStep
  <1> QED
    BY <1>1, ChainIsAQueue, PTL DEF Spec, PublicationIsExclusive
================================================================================
