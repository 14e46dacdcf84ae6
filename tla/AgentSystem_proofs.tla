--------------------------- MODULE AgentSystem_proofs ---------------------------
(***************************************************************************)
(* Proofs about AgentSystem, for any identities, callers, uses and numbers *)
(* of operations in a transaction.  The invariant is built in layers, each *)
(* of which the next one needs:                                            *)
(*   - TypeOK;                                                             *)
(*   - ThreadInv: where each thread is, and which locks that means;        *)
(*   - Restorations: an identity is restored once, before its agent is     *)
(*     there;                                                              *)
(*   - UseInv: callers use an identity in the way it is used for;          *)
(*   - Memory: an agent is in the map, in a transaction, in a call or being*)
(*     closed, and no two of one identity are at work;                     *)
(*   - RunInv, AcceptInv, SentInv: who can still write an identity's store *)
(*     is an agent at work on it, or the stray: one agent at most, which   *)
(*     the shutdown closed and a commit set going afterwards;              *)
(*   - ErasureInv: none is at work on what was erased, but for the agent   *)
(*     that hands it over;                                                 *)
(*   - WriterInv: what a call has reserved, what is being left, and what a *)
(*     transaction has written, so that every step is one of OwnedStores.  *)
(* The first three hold however identities are used; the others need       *)
(* Disciplined: the uses of an identity that keep them.  The code does not *)
(* enforce these, and mixtures of them break the properties (README,       *)
(* section 6).                                                             *)
(***************************************************************************)
EXTENDS AgentSystem, TLAPS

(* Threads are told apart from the two kinds they are made of.              *)
LEMMA ThreadKinds ==
    /\ Nobody \notin Threads
    /\ Callers \subseteq Threads /\ Ids \subseteq Threads
    /\ \A t \in Threads : t \in Callers <=> t \notin Ids
  BY AgentSystemAssumption DEF AgentSystemAssumption, Threads, Nobody

(* The initial states have the right types.                                 *)
LEMMA TypeInit == Init => TypeOK
<1> SUFFICES ASSUME Init PROVE TypeOK
  OBVIOUS
<1> USE ThreadKinds
<1>1. db \in DbType /\ tx = NoTx
  BY DEF Init, DbType
<1>2. sys \in SysType
  BY DEF Init, SysType, Whom
<1>3. inst \in [Threads -> AgentType]
  BY DEF Init, NoAgent, AgentType
<1>4. log \in LogType
  BY DEF Init, LogType
<1>5. work \in [Threads -> WorkType]
  <2>1. PICK whom \in [Callers -> Ids],
             what \in [Callers -> {"tx", "send", "resolve", "create", "delete"}] :
            work = Begun(whom, what)
    BY Zenon DEF Init
  <2> QED
    BY <2>1 DEF Begun, WorkType, Whom
<1> QED
  BY <1>1, <1>2, <1>3, <1>4, <1>5 DEF TypeOK

(* A step of thread t to one of the places pcs, as the other threads see it.*)
Moves(t, pcs) ==
    /\ work' \in [Threads -> WorkType]
    /\ \A u \in Threads \ {t} : work'[u] = work[u]
    /\ work'[t].on = work[t].on /\ work'[t].what = work[t].what
    /\ work'[t].pc \in pcs

(* A step that only goes on is such a step ...                              *)
LEMMA GoesMoves ==
    ASSUME work \in [Threads -> WorkType], NEW t \in Threads, NEW pc, Goes(t, pc), pc \in
        {"idle", "await", "lock", "config", "read", "restore", "load", "accept",
         "probe", "prepare", "commit", "drop", "body", "done"}
    PROVE Moves(t, {pc}) /\ work'[t].agent = work[t].agent
  BY DEF Goes, Moves, WorkType

(* ... and so is one that hands an agent to its call.                       *)
LEMMA HandToMoves ==
    ASSUME work \in [Threads -> WorkType], NEW t \in Threads, NEW i \in Threads,
           HandTo(t, i)
    PROVE Moves(t, {"accept", "done"}) /\ work'[t].agent = i
<1> DEFINE pc == IF work[t].what = "send" /\ inst'[i].state = "live" THEN "accept" ELSE "done"
           new == [work[t] EXCEPT !.agent = i, !.pc = pc]
<1>1. pc \in {"accept", "done"}
  OBVIOUS
<1>2. work' = [work EXCEPT ![t] = new]
  BY DEF HandTo
<1>3. /\ new \in WorkType /\ new.on = work[t].on /\ new.what = work[t].what
      /\ new.pc = pc /\ new.agent = i
  BY <1>1 DEF WorkType, Whom
<1> QED
  BY <1>1, <1>2, <1>3 DEF Moves

(* An agent in #agents was built by a thread.                               *)
LEMMA AgentIsThread ==
    ASSUME TypeOK, NEW id \in Ids, Agent(id) # Nobody
    PROVE Agent(id) \in Threads
  BY DEF TypeOK, SysType, Agent, Whom

(* A thread's identity is one.                                              *)
LEMMA OnIsIdentity ==
    ASSUME TypeOK, NEW t \in Threads
    PROVE On(t) \in Ids
  BY DEF TypeOK, WorkType, On

(* Where each step of a thread leaves it.                                   *)
LEMMA ThreadMoves ==
    ASSUME TypeOK, NEW t \in Threads
    PROVE /\ Admit(t) => Moves(t, {"await"})
          /\ Await(t) => Moves(t, {"lock", "accept", "done"})
          /\ Lock(t) => Moves(t, {"config", "probe", "accept", "done"})
          /\ Config(t) => Moves(t, {"read"})
          /\ ReadConfig(t) => Moves(t, {"restore", "done"})
          /\ Restore(t) => Moves(t, {"load", "accept", "done"})
          /\ ResolveLoad(t) => Moves(t, {"accept", "done"})
          /\ Accept(t) => Moves(t, {"done"})
          /\ CreateProbe(t) => Moves(t, {"prepare", "done"})
          /\ Prepare(t) => Moves(t, {"commit"})
          /\ CreateCommit(t) => Moves(t, {"done"})
          /\ DeleteClose(t) => Moves(t, {"drop"}) /\ work'[t].agent = Agent(On(t))
          /\ \A erase \in BOOLEAN : DeleteDrop(t, erase) => Moves(t, {"done"})
          /\ Begin(t) => Moves(t, {"body"})
          /\ Commit(t) \/ Refused(t) \/ Rollback(t) => Moves(t, {"done"})
          /\ t \in Ids /\ StartLoad(t) => Moves(t, {"done"})
<1> work \in [Threads -> WorkType]
  BY DEF TypeOK
<1>1. Agent(On(t)) # Nobody => Agent(On(t)) \in Threads
  BY AgentIsThread, OnIsIdentity
<1>2. \A pc \in {"await", "lock", "config", "read", "restore", "load", "probe", "prepare",
                 "commit", "body", "done"} : Goes(t, pc) => Moves(t, {pc})
  BY GoesMoves
<1>3. \A i \in Threads : HandTo(t, i) => Moves(t, {"accept", "done"})
  BY HandToMoves
<1>5. Admit(t) => Moves(t, {"await"})
  BY <1>2 DEF Admit
<1>6. Await(t) => Moves(t, {"lock", "accept", "done"})
  BY <1>1, <1>2, <1>3 DEF Await, Moves
<1>7. Lock(t) => Moves(t, {"config", "probe", "accept", "done"})
  BY <1>1, <1>2, <1>3 DEF Lock, Moves
<1>8. Config(t) => Moves(t, {"read"})
  BY <1>2 DEF Config
<1>9. ReadConfig(t) => Moves(t, {"restore", "done"})
  BY <1>2, <1>3 DEF ReadConfig, Moves
<1>10. Restore(t) => Moves(t, {"load", "accept", "done"})
  BY <1>1, <1>2, <1>3 DEF Restore, Moves
<1>11. ResolveLoad(t) => Moves(t, {"accept", "done"})
  BY <1>1, <1>3 DEF ResolveLoad, Concurrent
<1>12. /\ Accept(t) => Moves(t, {"done"})
       /\ CreateProbe(t) => Moves(t, {"prepare", "done"})
       /\ Prepare(t) => Moves(t, {"commit"})
       /\ CreateCommit(t) => Moves(t, {"done"})
  BY <1>2, <1>3 DEF Accept, CreateProbe, Prepare, CreateCommit, Moves
<1>13. DeleteClose(t) => Moves(t, {"drop"}) /\ work'[t].agent = Agent(On(t))
  <2> SUFFICES ASSUME DeleteClose(t)
               PROVE Moves(t, {"drop"}) /\ work'[t].agent = Agent(On(t))
    OBVIOUS
  <2> DEFINE new == [work[t] EXCEPT !.pc = "drop", !.agent = Agent(On(t))]
  <2>1. work' = [work EXCEPT ![t] = new]
    BY DEF DeleteClose
  <2>2. /\ new \in WorkType /\ new.on = work[t].on /\ new.what = work[t].what
        /\ new.pc = "drop" /\ new.agent = Agent(On(t))
    BY <1>1 DEF WorkType, Whom
  <2> QED
    BY <2>1, <2>2 DEF Moves
<1>14. \A erase \in BOOLEAN : DeleteDrop(t, erase) => Moves(t, {"done"})
  BY <1>2 DEF DeleteDrop
<1>15. Begin(t) => Moves(t, {"body"})
  BY <1>2 DEF Begin
<1>16. Commit(t) \/ Refused(t) \/ Rollback(t) => Moves(t, {"done"})
  BY <1>2 DEF Commit, Refused, Rollback, Undo
<1>17. t \in Ids /\ StartLoad(t) => Moves(t, {"done"})
  BY <1>2 DEF StartLoad
<1> QED
  BY <1>5, <1>6, <1>7, <1>8, <1>9, <1>10, <1>11, <1>12, <1>13, <1>14, <1>15, <1>16, <1>17

(* A record of the system with one part replaced.                           *)
LEMMA SysParts ==
    ASSUME sys \in SysType
    PROVE /\ \A id \in Ids : Unlocked(sys, id) \in SysType
          /\ \A l \in {"initializing", "open", "closing", "stopping", "closed"} :
                [sys EXCEPT !.lifecycle = l] \in SysType
          /\ [sys EXCEPT !.started = TRUE] \in SysType
          /\ [sys EXCEPT !.started = TRUE, !.lifecycle = "closing"] \in SysType
          /\ [sys EXCEPT !.draining = TRUE] \in SysType
  BY DEF SysType, Unlocked, Whom

(* Every step of the specification keeps the types.                         *)
LEMMA TypeStep ==
    ASSUME TypeOK, [Next]_vars
    PROVE TypeOK'
<1> /\ db \in DbType /\ sys \in SysType /\ inst \in [Threads -> AgentType]
    /\ work \in [Threads -> WorkType] /\ log \in LogType
    /\ tx = NoTx \/ tx \in TxType
  BY DEF TypeOK
<1>w. \A t \in Threads : \A pcs : Moves(t, pcs) => work' \in [Threads -> WorkType]
  BY DEF Moves
<1>a. \A id \in Ids : Agent(id) # Nobody => Agent(id) \in Threads
  BY AgentIsThread
<1>o. \A t \in Threads : On(t) \in Ids
  BY OnIsIdentity
<1>p. \A active, start \in BOOLEAN : Published(active, start) \in AgentType
  BY DEF Published, AgentType, SysType
<1>i. \A i \in Threads : \A new \in AgentType : [inst EXCEPT ![i] = new] \in [Threads -> AgentType]
  OBVIOUS
<1>e. \A i \in Threads : /\ inst[i].run \in BOOLEAN
                          /\ \A b \in BOOLEAN : [inst[i] EXCEPT !.run = b] \in AgentType
                          /\ [inst[i] EXCEPT !.state = "closed"] \in AgentType
  BY DEF AgentType
<1>f. \A i : \A b \in BOOLEAN : [inst EXCEPT ![i].run = b] \in [Threads -> AgentType]
  BY <1>e
<1>b. \A id \in Ids : Owes(id) \in BOOLEAN
  BY DEF Owes
<1>c. log.clash \in BOOLEAN /\ log.restorations \in [Ids -> Nat] /\ log.erased \in SUBSET Ids
  BY DEF LogType
<1>1. CASE OpenSystem
  BY <1>1, SysParts DEF OpenSystem, SysType, TypeOK
<1>2. CASE ReadOwing
  <2>1. work' \in [Threads -> WorkType]
    <3>1. \A t \in Threads : \A what \in {"start", "restore"}, pc \in {"lock", "done"} :
            [work[t] EXCEPT !.what = what, !.pc = pc] \in WorkType
      BY DEF WorkType
    <3>2. PICK named \in SUBSET Ids :
            work' = [t \in Threads |->
                IF t \in Callers THEN work[t]
                ELSE [work[t] EXCEPT
                    !.what = IF Owes(t) THEN "start" ELSE "restore",
                    !.pc = IF Owes(t) \/ t \in named THEN "lock" ELSE "done"]]
      BY <1>2, Zenon DEF ReadOwing
    <3>3. work' = [t \in Threads |-> work'[t]]
      BY <3>2, Zenon
    <3>4. \A t \in Threads : work'[t] \in WorkType
      BY <3>1, <3>2
    <3> QED
      BY <3>3, <3>4
  <2> QED
    BY <1>2, <2>1 DEF ReadOwing, TypeOK
<1>3. CASE StartAgents
  <2>1. sys' \in SysType
    <3>1. sys' = [sys EXCEPT !.started = TRUE]
          \/ sys' = [sys EXCEPT !.started = TRUE, !.lifecycle = "closing"]
      BY <1>3 DEF StartAgents
    <3> QED
      BY <3>1, SysParts
  <2>2. inst' \in [Threads -> AgentType]
    <3>1. \A t \in Threads : [inst[t] EXCEPT !.run = ~sys.draining] \in AgentType
      BY DEF AgentType, SysType
    <3>2. CASE inst' = inst
      BY <3>2
    <3>3. CASE inst' # inst
      BY <1>3, <3>1, <3>3 DEF StartAgents
    <3> QED
      BY <3>2, <3>3
  <2> QED
    BY <1>3, <2>1, <2>2 DEF StartAgents, TypeOK
<1>4. CASE CloseAgents
  <2>1. sys' \in SysType
    BY <1>4 DEF CloseAgents, SysType
  <2>2. inst' \in [Threads -> AgentType]
    BY <1>4 DEF CloseAgents, AgentType
  <2> QED
    BY <1>4, <2>1, <2>2 DEF CloseAgents, TypeOK
<1>5. CASE ReleaseStore
  BY <1>5 DEF ReleaseStore, SysType, Whom, TypeOK
<1>6. CASE Drain \/ Close
  BY <1>6 DEF Drain, Close, SysType, TypeOK
<1>7. ASSUME NEW t \in Threads, Admit(t) \/ Await(t) \/ Config(t)
      PROVE TypeOK'
  <2>1. work' \in [Threads -> WorkType]
    BY <1>7, <1>w, ThreadMoves
  <2> QED
    BY <1>7, <2>1 DEF Admit, Await, Config, TypeOK
<1>8. ASSUME NEW t \in Threads, Lock(t)
      PROVE TypeOK'
  <2>1. work' \in [Threads -> WorkType]
    BY <1>8, <1>w, ThreadMoves
  <2>2. sys' \in SysType
    BY <1>8, <1>o DEF Lock, SysType, Whom
  <2> QED
    BY <1>8, <2>1, <2>2 DEF Lock, TypeOK
<1>9. ASSUME NEW t \in Threads, ReadConfig(t) \/ CreateProbe(t)
      PROVE TypeOK'
  <2>1. work' \in [Threads -> WorkType]
    BY <1>9, <1>w, ThreadMoves
  <2>2. sys' \in SysType
    BY <1>9, <1>o, SysParts DEF ReadConfig, CreateProbe
  <2> QED
    BY <1>9, <2>1, <2>2 DEF ReadConfig, CreateProbe, TypeOK
<1>10. ASSUME NEW t \in Threads, Restore(t)
       PROVE TypeOK'
  <2>1. work' \in [Threads -> WorkType]
    BY <1>10, <1>w, ThreadMoves
  <2>2. sys' \in SysType
    BY <1>10, <1>o DEF Restore, Unlocked, SysType, Whom
  <2>3. log' \in LogType
    BY <1>10, <1>o DEF Restore, LogType
  <2> QED
    BY <1>10, <2>1, <2>2, <2>3 DEF Restore, TypeOK
<1>11. ASSUME NEW t \in Threads, ResolveLoad(t)
       PROVE TypeOK'
  <2>1. work' \in [Threads -> WorkType]
    BY <1>11, <1>w, ThreadMoves
  <2>2. sys' \in SysType
    <3>1. Unlocked(sys, On(t)) \in SysType
      BY <1>o, SysParts
    <3>2. [Unlocked(sys, On(t)) EXCEPT !.agents[On(t)] = t] \in SysType
      BY <1>o, <3>1 DEF SysType, Whom
    <3> QED
      BY <1>11, <3>1, <3>2 DEF ResolveLoad
  <2>3. log' \in LogType
    BY <1>11, <1>o DEF ResolveLoad, LogType
  <2>4. inst' \in [Threads -> AgentType]
    <3>1. Published(Owes(On(t)), TRUE) \in AgentType
      BY <1>b, <1>o, <1>p
    <3> QED
      BY <1>11, <1>i, <3>1 DEF ResolveLoad
  <2> QED
    BY <1>11, <2>1, <2>2, <2>3, <2>4 DEF ResolveLoad, TypeOK

<1>12. ASSUME NEW t \in Threads, Accept(t)
       PROVE TypeOK'
  <2>1. work' \in [Threads -> WorkType]
    BY <1>12, <1>w, ThreadMoves
  <2>2. db' \in DbType
    BY <1>12, <1>o DEF Accept, DbType
  <2>3. inst' \in [Threads -> AgentType]
    <3>1. inst' = [inst EXCEPT ![work[t].agent].run = inst[work[t].agent].run \/ ~sys.draining]
      BY <1>12 DEF Accept
    <3>2. CASE work[t].agent \in Threads
      <4>1. (inst[work[t].agent].run \/ ~sys.draining) \in BOOLEAN
        BY <1>e, <3>2
      <4> QED
        BY <1>f, <3>1, <4>1
    <3>3. CASE work[t].agent \notin Threads
      BY <3>1, <3>3
    <3> QED
      BY <3>2, <3>3
  <2> QED
    BY <1>12, <2>1, <2>2, <2>3 DEF Accept, TypeOK
<1>13. ASSUME NEW t \in Threads, Prepare(t)
       PROVE TypeOK'
  <2>1. work' \in [Threads -> WorkType]
    BY <1>13, <1>w, ThreadMoves
  <2>2. db' \in DbType
    BY <1>13, <1>o DEF Prepare, DbType
  <2>3. log' \in LogType
    BY <1>13, <1>o DEF Prepare, LogType
  <2> QED
    BY <1>13, <2>1, <2>2, <2>3 DEF Prepare, TypeOK
<1>14. ASSUME NEW t \in Threads, CreateCommit(t)
       PROVE TypeOK'
  <2>1. work' \in [Threads -> WorkType]
    BY <1>14, <1>w, ThreadMoves
  <2>2. db' \in DbType
    BY <1>14, <1>o DEF CreateCommit, DbType
  <2>3. sys' \in SysType
    BY <1>14, <1>o DEF CreateCommit, Unlocked, SysType, Whom
  <2>4. inst' \in [Threads -> AgentType]
    BY <1>14 DEF CreateCommit, Published, AgentType, SysType
  <2>5. log' \in LogType
    BY <1>14 DEF CreateCommit, LogType
  <2> QED
    BY <1>14, <2>1, <2>2, <2>3, <2>4, <2>5 DEF CreateCommit, TypeOK
<1>15. ASSUME NEW t \in Threads, DeleteClose(t)
       PROVE TypeOK'
  <2>1. work' \in [Threads -> WorkType]
    BY <1>15, <1>w, ThreadMoves
  <2>2. sys' \in SysType
    BY <1>15, <1>o DEF DeleteClose, SysType, Whom
  <2>3. inst' \in [Threads -> AgentType]
    BY <1>15, <1>a, <1>o DEF DeleteClose, AgentType
  <2> QED
    BY <1>15, <2>1, <2>2, <2>3 DEF DeleteClose, TypeOK
<1>16. ASSUME NEW t \in Threads, NEW erase \in BOOLEAN, DeleteDrop(t, erase)
       PROVE TypeOK'
  <2>1. work' \in [Threads -> WorkType]
    BY <1>16, <1>w, ThreadMoves
  <2>2. db' \in DbType
    BY <1>16, <1>o DEF DeleteDrop, DbType
  <2>3. sys' \in SysType
    BY <1>16, <1>o DEF DeleteDrop, Unlocked, SysType, Whom
  <2>4. log' \in LogType
    <3> DEFINE id == On(t)
               once == IF id \in db.exists /\ Unrestored(id) THEN log.restorations[id] + 1
                       ELSE log.restorations[id]
               gone == IF erase THEN log.erased \cup {id} ELSE log.erased
    <3>1. [log.restorations EXCEPT ![id] = once] \in [Ids -> Nat] /\ gone \in SUBSET Ids
      BY <1>o, <1>c
    <3>2. [log EXCEPT !.restorations = [log.restorations EXCEPT ![id] = once],
                      !.erased = gone] \in LogType
      BY <3>1 DEF LogType
    <3>3. log' = [log EXCEPT !.restorations = [log.restorations EXCEPT ![id] = once],
                             !.erased = gone]
      BY <1>16 DEF DeleteDrop, LogType
    <3> QED
      BY <3>2, <3>3
  <2> QED
    BY <1>16, <2>1, <2>2, <2>3, <2>4 DEF DeleteDrop, TypeOK
<1>17. ASSUME NEW t \in Threads, Begin(t)
       PROVE TypeOK'
  <2>1. work' \in [Threads -> WorkType]
    BY <1>17, <1>w, ThreadMoves
  <2>2. tx' \in TxType
    BY <1>17, AgentSystemAssumption DEF Begin, TxType, Whom, AgentSystemAssumption
  <2> QED
    BY <1>17, <2>1, <2>2 DEF Begin, TypeOK
<1>18. ASSUME NEW t \in Threads, Call(t)
       PROVE TypeOK'
  <2>1. tx \in TxType
    BY <1>18, ThreadKinds DEF Call, NoTx
  <2>2. \A use \in Uses : TxCalls[use] \subseteq {"send", "resolve", "create", "erase"}
    BY AgentSystemAssumption DEF AgentSystemAssumption, TxCalls, PlainCalls
  <2>3. tx' \in TxType
    <3>1. PICK call \in TxCalls[log.use[On(t)]] :
            tx' = [tx EXCEPT !.call = call, !.ops = @ + 1]
      BY <1>18 DEF Call
    <3>2. log.use[On(t)] \in Uses
      BY <1>o DEF LogType
    <3>3. call \in {"send", "resolve", "create", "erase"}
      BY <2>2, <3>1, <3>2
    <3>4. tx.ops + 1 \in 0..MaxOps
      BY <1>18, <2>1, AgentSystemAssumption DEF Call, TxType, AgentSystemAssumption
    <3> QED
      BY <2>1, <3>1, <3>3, <3>4 DEF TxType
  <2> QED
    BY <1>18, <2>3 DEF Call, TypeOK
<1>19. \A t \in Threads : \A calls : Calls(t, calls) => tx \in TxType
  BY ThreadKinds DEF Calls, NoTx
<1>20. ASSUME NEW t \in Threads, TxUse(t)
       PROVE TypeOK'
  <2>1. tx \in TxType /\ tx.by = t
    BY <1>19, <1>20 DEF TxUse, Calls
  <2>2. db' \in DbType
    BY <1>20, <1>o DEF TxUse, DbType
  <2>3. inst' \in [Threads -> AgentType]
    <3>1. [state |-> "loaded", active |-> Owes(On(t)), run |-> FALSE] \in AgentType
      BY <1>b, <1>o DEF AgentType
    <3>2. \/ inst' = inst
          \/ inst' = [inst EXCEPT ![t] =
                        [state |-> "loaded", active |-> Owes(On(t)), run |-> FALSE]]
      BY <1>20, Zenon DEF TxUse
    <3> QED
      BY <3>2, <1>i, <3>1
  <2>4. TxAgent \in Whom /\ TxRestores(t) \in {"no", "restored", "created"}
    BY <1>o, <2>1 DEF TxAgent, TxRestores, Agent, SysType, TxType, Whom
  <2>5. tx' \in TxType
    <3>1. PICK staged, start, sent, restores :
              /\ tx' = [tx EXCEPT !.call = "none", !.staged = staged, !.start = start,
                                  !.sent = sent, !.restores = restores]
              /\ staged \in {"agent", tx.staged}
              /\ start = tx.start \/ start = TRUE
              /\ sent \in {t, TxAgent, tx.sent}
              /\ restores \in {TxRestores(t), tx.restores}
      <4>1. /\ (tx.start \/ ~(tx.call = "send")) \in {tx.start, TRUE}
        BY <2>1 DEF TxType
      <4> QED
        BY <1>20, <4>1 DEF TxUse
    <3>2. t \in Whom
      BY DEF Whom
    <3> QED
      BY <2>1, <2>4, <3>1, <3>2 DEF TxType
  <2> QED
    BY <1>20, <2>2, <2>3, <2>5 DEF TxUse, TypeOK
<1>21. ASSUME NEW t \in Threads, TxCreate(t)
       PROVE TypeOK'
  <2>1. tx \in TxType /\ tx.by = t
    BY <1>19, <1>21 DEF TxCreate, Calls
  <2>2. db' \in DbType
    BY <1>21, <1>o DEF TxCreate, DbType
  <2>3. inst' \in [Threads -> AgentType]
    BY <1>21 DEF TxCreate, NoAgent, AgentType
  <2>4. tx' \in TxType
    BY <1>21, <2>1 DEF TxCreate, TxType
  <2> QED
    BY <1>21, <2>2, <2>3, <2>4 DEF TxCreate, TypeOK
<1>22. ASSUME NEW t \in Threads, TxErase(t)
       PROVE TypeOK'
  <2>1. tx \in TxType /\ tx.by = t
    BY <1>19, <1>22 DEF TxErase, Calls
  <2>2. db' \in DbType
    BY <1>22, <1>o DEF TxErase, DbType
  <2>3. TxAgent \in Whom /\ TxRestores(t) \in {"no", "restored", "created"}
    BY <1>o, <2>1 DEF TxAgent, TxRestores, Agent, SysType, TxType, Whom
  <2>4. tx' \in TxType
    BY <1>22, <2>1, <2>3 DEF TxErase, TxType
  <2> QED
    BY <1>22, <2>2, <2>4 DEF TxErase, TypeOK
<1>23. ASSUME NEW t \in Threads, Refused(t) \/ Rollback(t)
       PROVE TypeOK'
  <2>1. work' \in [Threads -> WorkType]
    BY <1>23, <1>w, ThreadMoves
  <2>2. tx \in TxType /\ Undo(t)
    BY <1>19, <1>23 DEF Refused, Rollback
  <2>3. db' \in DbType /\ inst' \in [Threads -> AgentType]
    BY <2>2 DEF Undo, TxType, NoAgent, AgentType
  <2> QED
    BY <2>1, <2>2, <2>3 DEF Undo, TypeOK
<1>24. ASSUME NEW t \in Threads, Commit(t)
       PROVE TypeOK'
  <2>1. work' \in [Threads -> WorkType]
    BY <1>24, <1>w, ThreadMoves
  <2>2. tx \in TxType /\ tx.by = t
    BY <1>19, <1>24 DEF Commit, Calls
  <2>3. inst' \in [Threads -> AgentType]
    <3> DEFINE Opened == [Published(inst[t].active, tx.start) EXCEPT
                              !.run = @ \/ Activated(t).run]
               Closing(i) == [Activated(i) EXCEPT !.state = IF @ = "closed" THEN @ ELSE "closing"]
    <3>1. \A i \in Threads : Activated(i) \in AgentType
      BY DEF Activated, AgentType, SysType
    <3>2. Opened \in AgentType
      BY <2>2, <3>1 DEF Published, AgentType, TxType, SysType
    <3>3. \A i \in Threads : Closing(i) \in AgentType
      BY <3>1 DEF AgentType
    <3> HIDE DEF Opened, Closing
    <3>4. \A i \in Threads : inst'[i] \in {Closing(i), Opened, Activated(i)}
      BY <1>24 DEF Commit, Opened, Closing
    <3>5. inst' = [i \in Threads |-> inst'[i]]
      BY <1>24, Zenon DEF Commit
    <3>6. \A i \in Threads : inst'[i] \in AgentType
      BY <3>1, <3>2, <3>3, <3>4
    <3> QED
      BY <3>5, <3>6
  <2>4. \A d, p \in BOOLEAN : CommittedAgents(On(t), d, p) \in Whom
    BY <1>o, <2>2 DEF CommittedAgents, Agent, TxType, SysType, Whom
  <2>5. sys' \in SysType
    <3> DEFINE id == On(t)
               deleted == tx.staged = "deleted"
               publishes == tx.staged = "agent" /\ Agent(id) = Nobody
               all == IF tx.restores = "no" THEN sys.restored ELSE sys.restored \cup {id}
               which == [sys.agents EXCEPT ![id] = CommittedAgents(id, deleted, publishes)]
               over == [sys.transition EXCEPT ![id] = IF deleted THEN tx.ends
                                                      ELSE sys.transition[id]]
    <3>1. all \in SUBSET Ids
      BY <1>o DEF SysType
    <3>2. which \in [Ids -> Whom]
      BY <2>4, <1>o DEF SysType
    <3>3. over \in [Ids -> Whom]
      BY <2>2, <1>o DEF SysType, TxType
    <3>4. sys' = [sys EXCEPT !.restored = all, !.agents = which, !.transition = over]
      BY <1>24 DEF Commit, SysType
    <3> HIDE DEF all, which, over
    <3> QED
      BY <3>1, <3>2, <3>3, <3>4 DEF SysType
  <2>6. log' \in LogType
    <3> DEFINE id == On(t)
               publishes == tx.staged = "agent" /\ Agent(id) = Nobody
               count == [log.restorations EXCEPT ![id] =
                            IF tx.restores = "restored" THEN log.restorations[id] + 1
                            ELSE log.restorations[id]]
               gone == IF tx.staged = "deleted" THEN log.erased \cup {id}
                       ELSE IF id \in db.exists THEN log.erased \ {id} ELSE log.erased
               astray == IF SetsAstray THEN log.strays \cup {id} ELSE log.strays
               clash == log.clash \/ (tx.staged = "agent" /\ ~publishes)
    <3>1. /\ count \in [Ids -> Nat] /\ gone \in SUBSET Ids /\ clash \in BOOLEAN
          /\ astray \in SUBSET Ids
      BY <1>o, <1>c DEF LogType
    <3>2. log' = [log EXCEPT !.restorations = count, !.erased = gone, !.strays = astray,
                             !.clash = clash]
      BY <1>24 DEF Commit, LogType
    <3> HIDE DEF count, gone, astray, clash
    <3> QED
      BY <3>1, <3>2 DEF LogType
  <2> QED
    BY <1>24, <2>1, <2>3, <2>5, <2>6 DEF Commit, TypeOK
<1>25. ASSUME NEW id \in Ids, StartLoad(id)
       PROVE TypeOK'
  <2>1. work' \in [Threads -> WorkType]
    BY <1>25, <1>w, ThreadMoves, ThreadKinds
  <2>2. sys' \in SysType
    <3>1. Unlocked(sys, id) \in SysType
      BY SysParts
    <3>2. [Unlocked(sys, id) EXCEPT !.agents[id] = id] \in SysType
      BY <3>1, ThreadKinds DEF SysType, Whom
    <3> QED
      BY <1>25, <3>1, <3>2 DEF StartLoad
  <2>3. log' \in LogType
    BY <1>25 DEF StartLoad, LogType
  <2>4. inst' \in [Threads -> AgentType]
    BY <1>25, <1>i, <1>p, ThreadKinds DEF StartLoad
  <2> QED
    BY <1>25, <2>1, <2>2, <2>3, <2>4 DEF StartLoad, TypeOK
<1>26. ASSUME NEW id \in Ids, FinishHandover(id)
       PROVE TypeOK'
  <2>1. db' \in DbType
    BY <1>26 DEF FinishHandover, ErasedAgain, DbType
  <2>2. sys' \in SysType
    BY <1>26 DEF FinishHandover, SysType, Whom
  <2> QED
    BY <1>26, <2>1, <2>2 DEF FinishHandover, TypeOK
<1>27. ASSUME NEW i \in Threads, RunEnds(i) \/ CloseEnds(i)
       PROVE TypeOK'
  <2>1. db' \in DbType
    BY <1>27, <1>o DEF RunEnds, CloseEnds, DbType
  <2>2. inst' \in [Threads -> AgentType]
    <3>1. CASE RunEnds(i)
      BY <1>f, <3>1 DEF RunEnds
    <3>2. CASE CloseEnds(i)
      BY <1>e, <3>2 DEF CloseEnds
    <3> QED
      BY <1>27, <3>1, <3>2
  <2> QED
    BY <1>27, <2>1, <2>2 DEF RunEnds, CloseEnds, TypeOK
<1>28. CASE UNCHANGED vars
  BY <1>28 DEF vars, TypeOK
<1> QED
  BY <1>1, <1>2, <1>3, <1>4, <1>5, <1>6, <1>7, <1>8, <1>9, <1>10, <1>11, <1>12, <1>13, <1>14,
     <1>15, <1>16, <1>17, <1>18, <1>20, <1>21, <1>22, <1>23, <1>24, <1>25, <1>26, <1>27, <1>28
  DEF Next, Starting, Stopping, Proceeds, Ends

(* THEOREM: every variable stays within its type, for any identities,       *)
(* callers, uses and any number of operations in a transaction.             *)
THEOREM SystemTypes == Spec => []TypeOK
<1>1. Init => TypeOK
  BY TypeInit
<1>2. TypeOK /\ [Next]_vars => TypeOK'
  BY TypeStep
<1> QED
  BY <1>1, <1>2, PTL DEF Spec

(* What giving up the lock of an identity leaves.                           *)
LEMMA UnlockedParts ==
    ASSUME sys \in SysType, NEW id \in Ids
    PROVE LET s == Unlocked(sys, id)
          IN  /\ s \in SysType
              /\ s.lock = [sys.lock EXCEPT ![id] = Nobody]
              /\ s.lifecycle = sys.lifecycle /\ s.started = sys.started
              /\ s.draining = sys.draining /\ s.restored = sys.restored
              /\ s.agents = sys.agents /\ s.transition = sys.transition
  BY DEF Unlocked, SysType, Whom

(* What restoring an identity leaves.                                       *)
LEMMA RestoreParts ==
    ASSUME sys \in SysType, log \in LogType, NEW t \in Threads, On(t) \in Ids, Restore(t)
    PROVE /\ sys'.lifecycle = sys.lifecycle /\ sys'.started = sys.started
          /\ sys'.agents = sys.agents /\ sys'.transition = sys.transition
          /\ log'.use = log.use /\ log'.clash = log.clash /\ tx' = tx
<1>1. PICK s : s = [sys EXCEPT !.restored = @ \cup {On(t)}]
  OBVIOUS
<1>2. /\ s \in SysType /\ s.lifecycle = sys.lifecycle /\ s.started = sys.started
      /\ s.agents = sys.agents /\ s.transition = sys.transition
  BY <1>1 DEF SysType
<1>3. sys' = s \/ sys' = Unlocked(s, On(t))
  BY <1>1, Zenon DEF Restore
<1>4. LET u == Unlocked(s, On(t))
      IN  /\ u.lifecycle = s.lifecycle /\ u.started = s.started
          /\ u.agents = s.agents /\ u.transition = s.transition
  BY <1>2 DEF Unlocked, SysType
<1>5. log'.use = log.use /\ log'.clash = log.clash /\ tx' = tx
  BY DEF Restore, LogType
<1> QED
  BY <1>2, <1>3, <1>4, <1>5

(* What putting an agent into #agents leaves.                               *)
LEMMA PublishParts ==
    ASSUME NEW s \in SysType, NEW id \in Ids, NEW i \in Whom
    PROVE LET n == [s EXCEPT !.agents[id] = i]
          IN  /\ n \in SysType
              /\ n.agents = [s.agents EXCEPT ![id] = i]
              /\ n.lifecycle = s.lifecycle /\ n.started = s.started
              /\ n.draining = s.draining /\ n.restored = s.restored
              /\ n.lock = s.lock /\ n.transition = s.transition
  BY DEF SysType

(* A thread that publishes its agent has the identity in #agents, unlocked, *)
(* and changes nothing else of the system.                                  *)
LEMMA PublishUnlocks ==
    ASSUME TypeOK, NEW t \in Threads, ResolveLoad(t) \/ (t \in Ids /\ StartLoad(t)),
           InPlace(t)
    PROVE LET id == On(t)
          IN  /\ sys'.lock = [sys.lock EXCEPT ![id] = Nobody] /\ sys.lock[id] = t
              /\ sys'.lifecycle = sys.lifecycle /\ sys'.started = sys.started
              /\ sys'.draining = sys.draining /\ sys'.restored = sys.restored
              /\ sys'.transition = sys.transition
              /\ \/ inst' = inst /\ sys'.agents = sys.agents
                 \/ /\ sys'.agents = [sys.agents EXCEPT ![id] = t] /\ Agent(id) = Nobody
                    /\ \E active, start \in BOOLEAN :
                           inst' = [inst EXCEPT ![t] = Published(active, start)]
<1> DEFINE id == On(t)
<1>1. sys \in SysType /\ id \in Ids /\ t \in Whom /\ work[t].pc = "load"
  BY OnIsIdentity DEF TypeOK, Whom, ResolveLoad, StartLoad
<1>2. sys.lock[id] = t
  BY <1>1 DEF InPlace, Locked
<1>3. t \in Ids => id = t
  BY DEF InPlace, On
<1> DEFINE u == Unlocked(sys, id)
           n == [u EXCEPT !.agents[id] = t]
<1>4. /\ u \in SysType /\ u.lock = [sys.lock EXCEPT ![id] = Nobody]
      /\ u.lifecycle = sys.lifecycle /\ u.started = sys.started
      /\ u.draining = sys.draining /\ u.restored = sys.restored
      /\ u.agents = sys.agents /\ u.transition = sys.transition
  BY <1>1, UnlockedParts
<1>5. /\ n.agents = [u.agents EXCEPT ![id] = t]
      /\ n.lifecycle = u.lifecycle /\ n.started = u.started
      /\ n.draining = u.draining /\ n.restored = u.restored
      /\ n.lock = u.lock /\ n.transition = u.transition
  BY <1>1, <1>4, PublishParts
<1>6. \/ sys' = u /\ inst' = inst
      \/ /\ sys' = n /\ Agent(id) = Nobody
         /\ \E active, start \in BOOLEAN :
                inst' = [inst EXCEPT ![t] = Published(active, start)]
  BY <1>1, <1>3 DEF ResolveLoad, StartLoad, Concurrent, Owes
<1> HIDE DEF u, n
<1> QED
  BY <1>2, <1>4, <1>5, <1>6

(* What #start finds of each identity decides what its thread does.         *)
LEMMA ReadOwingMoves ==
    ASSUME TypeOK, ReadOwing
    PROVE /\ \A t \in Callers : work'[t] = work[t]
          /\ \A t \in Ids : /\ work'[t].what \in {"start", "restore"}
                           /\ work'[t].pc \in {"lock", "done"}
                           /\ work'[t].on = work[t].on
          /\ \A t \in Threads : work'[t].on = work[t].on
                               /\ (work'[t].pc = "load" => work[t].pc = "load")
<1>w. work \in [Threads -> WorkType]
  BY DEF TypeOK
<1>1. PICK named \in SUBSET Ids :
        work' = [t \in Threads |->
            IF t \in Callers THEN work[t]
            ELSE [work[t] EXCEPT
                !.what = IF Owes(t) THEN "start" ELSE "restore",
                !.pc = IF Owes(t) \/ t \in named THEN "lock" ELSE "done"]]
  BY Zenon DEF ReadOwing
<1>2. \A t \in Ids :
        work'[t] = [work[t] EXCEPT
                        !.what = IF Owes(t) THEN "start" ELSE "restore",
                        !.pc = IF Owes(t) \/ t \in named THEN "lock" ELSE "done"]
  BY <1>1, ThreadKinds
<1>3. \A t \in Ids : \A what \in {"start", "restore"}, pc \in {"lock", "done"} :
        LET new == [work[t] EXCEPT !.what = what, !.pc = pc]
        IN  new.what = what /\ new.pc = pc /\ new.on = work[t].on
  BY ThreadKinds DEF WorkType
<1>4. ASSUME NEW t \in Ids
      PROVE /\ work'[t].what \in {"start", "restore"} /\ work'[t].pc \in {"lock", "done"}
            /\ work'[t].on = work[t].on
  <2> DEFINE what == IF Owes(t) THEN "start" ELSE "restore"
             pc == IF Owes(t) \/ t \in named THEN "lock" ELSE "done"
  <2>1. what \in {"start", "restore"} /\ pc \in {"lock", "done"}
    OBVIOUS
  <2>2. work'[t] = [work[t] EXCEPT !.what = what, !.pc = pc]
    BY <1>2
  <2> HIDE DEF what, pc
  <2> QED
    BY <1>3, <2>1, <2>2
<1>5. \A t \in Callers : work'[t] = work[t]
  BY <1>1, ThreadKinds
<1> QED
  BY <1>4, <1>5 DEF Threads

(* A thread stays in its place when another one moves, with or without the  *)
(* lock of its own identity.                                                *)
LEMMA OthersInPlace ==
    ASSUME TypeOK, ThreadInv, NEW t \in Threads,
           \A u \in Threads \ {t} : work'[u] = work[u],
           \A id \in Ids : sys'.lock[id] = sys.lock[id]
                           \/ (id = On(t) /\ sys.lock[id] \in {t, Nobody}),
           \A u \in Threads \ {t} : tx'.by = u <=> tx.by = u,
           sys'.started = sys.started, sys'.lifecycle = sys.lifecycle
    PROVE \A u \in Threads \ {t} : InPlace(u)'
<1> SUFFICES ASSUME NEW u \in Threads \ {t}
             PROVE InPlace(u)'
  OBVIOUS
<1>1. work'[u] = work[u] /\ InPlace(u)
  BY DEF ThreadInv
<1>2. On(u)' = On(u) /\ On(u) \in Ids
  BY <1>1, OnIsIdentity DEF On
<1>3. work[u].pc \in Locked => sys'.lock[On(u)] = u
  BY <1>1, <1>2, ThreadKinds DEF InPlace
<1> QED
  BY <1>1, <1>2, <1>3 DEF InPlace

(* Every step keeps each thread in its place.                               *)
LEMMA ThreadStep ==
    ASSUME TypeOK, ThreadInv, [Next]_vars
    PROVE ThreadInv'
<1> /\ db \in DbType /\ sys \in SysType /\ inst \in [Threads -> AgentType]
    /\ work \in [Threads -> WorkType] /\ log \in LogType
    /\ tx = NoTx \/ tx \in TxType
  BY DEF TypeOK
<1>o. \A t \in Threads : On(t) \in Ids
  BY OnIsIdentity
<1>n. NoTx.by = Nobody /\ Nobody \notin Threads
  BY ThreadKinds DEF NoTx
<1>t. \A t \in Threads : InPlace(t)
  BY DEF ThreadInv
<1>1. CASE OpenSystem
  BY <1>1, <1>t DEF OpenSystem, ThreadInv, InPlace, On, SysType
<1>2. CASE ReadOwing
  <2>1. \A t \in Callers : work'[t] = work[t]
    BY <1>2, ReadOwingMoves
  <2>2. \A t \in Ids : work'[t].what \in {"start", "restore"} /\ work'[t].pc \in {"lock", "done"}
                       /\ work'[t].on = work[t].on
    BY <1>2, ReadOwingMoves
  <2>3. UNCHANGED <<sys, tx>>
    BY <1>2 DEF ReadOwing
  <2>4. \A t \in Ids : work[t].pc = "idle" /\ ~sys.started
    <3>1. \A t \in Ids : work[t].pc = "idle"
      BY <1>2, Zenon DEF ReadOwing
    <3>2. \A t \in Ids : InPlace(t)
      BY <1>t, ThreadKinds
    <3> QED
      BY <3>1, <3>2 DEF InPlace
  <2>5. sys.lifecycle = "open"
    BY <1>2, Zenon DEF ReadOwing, Open
  <2>6. ASSUME NEW t \in Callers PROVE InPlace(t)'
    <3>1. InPlace(t) /\ work'[t] = work[t] /\ sys' = sys /\ tx' = tx
      BY <2>1, <2>3, <1>t, ThreadKinds
    <3>2. On(t)' = On(t)
      BY <3>1 DEF On
    <3> QED
      BY <3>1, <3>2 DEF InPlace
  <2>7. \A t \in Ids : InPlace(t)'
    BY <2>2, <2>3, <2>4, <2>5, <1>t, ThreadKinds DEF InPlace, On, Locked
  <2> QED
    BY <2>3, <2>6, <2>7, ThreadKinds DEF ThreadInv, Threads
<1>3. CASE StartAgents
  <2>1. UNCHANGED <<tx, work>> /\ sys'.lock = sys.lock
        /\ sys'.lifecycle \in {"open", "closing"} /\ sys'.started
    <3>1. sys' = [sys EXCEPT !.started = TRUE]
          \/ sys' = [sys EXCEPT !.started = TRUE, !.lifecycle = "closing"]
      BY <1>3 DEF StartAgents
    <3> QED
      BY <1>3, <3>1 DEF StartAgents, SysType, Open
  <2>2. \A t \in Ids : work[t].pc = "done"
    BY <1>3 DEF StartAgents
  <2> QED
    BY <2>1, <2>2, <1>t DEF ThreadInv, InPlace, On
<1>4. CASE CloseAgents
  <2>1. UNCHANGED <<tx, work>> /\ sys'.lock = sys.lock /\ sys.lifecycle = "closing"
        /\ sys'.lifecycle = "stopping" /\ sys'.started = sys.started
    BY <1>4 DEF CloseAgents, SysType
  <2>2. \A t \in Callers : work[t].pc \in {"idle", "body", "done"}
    BY <1>4 DEF CloseAgents, AllReturned
  <2>3. \A t \in Ids : work[t].pc = "done"
    BY <1>t, <2>1, ThreadKinds DEF ThreadInv, InPlace
  <2> QED
    BY <2>1, <2>2, <2>3, <1>t DEF ThreadInv, InPlace, On, Threads
<1>5. CASE ReleaseStore
  <2>1. UNCHANGED <<tx, work>> /\ sys.lifecycle = "stopping"
        /\ sys'.lifecycle = "closed" /\ sys'.started = sys.started
    BY <1>5 DEF ReleaseStore, SysType
  <2> QED
    BY <2>1, <1>t DEF ThreadInv, InPlace, On, Locked
<1>6. CASE Drain \/ Close
  <2>1. UNCHANGED <<tx, work>> /\ sys'.lock = sys.lock /\ sys'.started = sys.started /\ sys.started
        /\ sys'.lifecycle \in {"open", "closing"}
    BY <1>6 DEF Drain, Close, SysType, Open
  <2> QED
    BY <2>1, <1>t DEF ThreadInv, InPlace, On
<1>q. ASSUME NEW t \in Threads,
             \A u \in Threads \ {t} : work'[u] = work[u],
             \A id \in Ids : sys'.lock[id] = sys.lock[id]
                             \/ (id = On(t) /\ sys.lock[id] \in {t, Nobody}),
             \A u \in Threads \ {t} : tx'.by = u <=> tx.by = u,
             sys'.started = sys.started, sys'.lifecycle = sys.lifecycle,
             InPlace(t)'
      PROVE ThreadInv'
  BY <1>q, OthersInPlace DEF ThreadInv
<1>7. ASSUME NEW t \in Threads, Admit(t)
      PROVE ThreadInv'
  <2>1. Moves(t, {"await"})
    BY <1>7, ThreadMoves
  <2>2. UNCHANGED <<sys, tx>> /\ work[t].pc = "idle" /\ t \in Callers
        /\ work[t].what # "tx" /\ sys.lifecycle = "open"
    BY <1>7 DEF Admit, Open
  <2>3. InPlace(t)'
    BY <2>1, <2>2, <1>t, ThreadKinds DEF Moves, InPlace, On, Locked
  <2> QED
    BY <2>1, <2>2, <2>3, <1>q DEF Moves
<1>8. ASSUME NEW t \in Threads, Await(t)
      PROVE ThreadInv'
  <2>1. Moves(t, {"lock", "accept", "done"})
    BY <1>8, ThreadMoves
  <2>2. UNCHANGED <<sys, tx>> /\ work[t].pc = "await"
    BY <1>8 DEF Await
  <2>3. InPlace(t)'
    BY <2>1, <2>2, <1>t DEF Moves, InPlace, On, Locked
  <2> QED
    BY <2>1, <2>2, <2>3, <1>q DEF Moves
<1>9. ASSUME NEW t \in Threads, Lock(t)
      PROVE ThreadInv'
  <2>1. Moves(t, {"config", "probe", "accept", "done"})
    BY <1>9, ThreadMoves
  <2>2. /\ UNCHANGED tx /\ sys'.started = sys.started /\ sys'.lifecycle = sys.lifecycle
        /\ work[t].pc = "lock"
        /\ \A id \in Ids : sys'.lock[id] = sys.lock[id]
                          \/ (id = On(t) /\ sys.lock[id] = Nobody)
        /\ work'[t].pc \in {"config", "probe"} => sys'.lock[On(t)] = t
        /\ work'[t].pc = "probe" => work[t].what = "create"
    BY <1>9, <1>n, <1>t, <1>o DEF Lock, SysType, Goes, WorkType, HandTo
  <2>3. InPlace(t)'
    BY <2>1, <2>2, <1>t, ThreadKinds DEF Moves, InPlace, On, Locked, Looks
  <2> QED
    BY <2>1, <2>2, <2>3, <1>q, ThreadKinds DEF Moves
<1>10. ASSUME NEW t \in Threads, Config(t)
      PROVE ThreadInv'
  <2>1. Moves(t, {"read"})
    BY <1>10, ThreadMoves
  <2>2. UNCHANGED <<tx, sys>> /\ work[t].pc = "config"
    BY <1>10, <1>n, <1>t, <1>o DEF Config
  <2>3. InPlace(t)'
    BY <2>1, <2>2, <1>t, ThreadKinds DEF Moves, InPlace, On, Locked, Looks
  <2> QED
    BY <2>1, <2>2, <2>3, <1>q, ThreadKinds DEF Moves
<1>11. ASSUME NEW t \in Threads, ReadConfig(t)
      PROVE ThreadInv'
  <2>1. Moves(t, {"restore", "done"})
    BY <1>11, ThreadMoves
  <2>2. /\ UNCHANGED tx /\ sys'.started = sys.started /\ sys'.lifecycle = sys.lifecycle
        /\ work[t].pc = "read" /\ work[t].what \in Looks
        /\ \A id \in Ids : sys'.lock[id] = sys.lock[id]
                          \/ (id = On(t) /\ sys.lock[id] = t)
        /\ work'[t].pc = "restore" => sys' = sys
    BY <1>11, <1>n, <1>t, <1>o DEF ReadConfig, Unlocked, SysType, Goes, WorkType, InPlace, Locked
  <2>3. InPlace(t)'
    BY <2>1, <2>2, <1>t, ThreadKinds DEF Moves, InPlace, On, Locked, Looks
  <2> QED
    BY <2>1, <2>2, <2>3, <1>q, ThreadKinds DEF Moves
<1>12. ASSUME NEW t \in Threads, Restore(t)
      PROVE ThreadInv'
  <2>1. Moves(t, {"load", "accept", "done"})
    BY <1>12, ThreadMoves
  <2>2. /\ UNCHANGED tx /\ sys'.started = sys.started /\ sys'.lifecycle = sys.lifecycle
        /\ work[t].pc = "restore"
        /\ \A id \in Ids : sys'.lock[id] = sys.lock[id]
                          \/ (id = On(t) /\ sys.lock[id] = t)
        /\ work'[t].pc = "load" => sys'.lock = sys.lock
    BY <1>12, <1>n, <1>t, <1>o DEF Restore, Unlocked, SysType, Goes, HandTo, WorkType, InPlace, Locked
  <2>3. InPlace(t)'
    BY <2>1, <2>2, <1>t, ThreadKinds DEF Moves, InPlace, On, Locked, Looks
  <2> QED
    BY <2>1, <2>2, <2>3, <1>q, ThreadKinds DEF Moves
<1>13. ASSUME NEW t \in Threads, ResolveLoad(t)
      PROVE ThreadInv'
  <2>1. Moves(t, {"accept", "done"})
    BY <1>13, ThreadMoves
  <2>2. /\ UNCHANGED tx /\ sys'.started = sys.started /\ sys'.lifecycle = sys.lifecycle
        /\ work[t].pc = "load" /\ t \in Callers
        /\ \A id \in Ids : sys'.lock[id] = sys.lock[id]
                          \/ (id = On(t) /\ sys.lock[id] = t)
    <3>1. /\ sys'.lock = [sys.lock EXCEPT ![On(t)] = Nobody] /\ sys.lock[On(t)] = t
          /\ sys'.lifecycle = sys.lifecycle /\ sys'.started = sys.started
      BY <1>13, <1>t, PublishUnlocks, ThreadKinds
    <3> QED
      BY <1>13, <1>o, <3>1 DEF ResolveLoad, SysType
  <2>3. InPlace(t)'
    BY <2>1, <2>2, <1>t, ThreadKinds DEF Moves, InPlace, On, Locked, Looks
  <2> QED
    BY <2>1, <2>2, <2>3, <1>q, ThreadKinds DEF Moves
<1>14. ASSUME NEW t \in Threads, Accept(t)
      PROVE ThreadInv'
  <2>1. Moves(t, {"done"})
    BY <1>14, ThreadMoves
  <2>2. UNCHANGED <<tx, sys>> /\ work[t].pc = "accept"
    BY <1>14, <1>n, <1>t, <1>o DEF Accept
  <2>3. InPlace(t)'
    BY <2>1, <2>2, <1>t, ThreadKinds DEF Moves, InPlace, On, Locked, Looks
  <2> QED
    BY <2>1, <2>2, <2>3, <1>q, ThreadKinds DEF Moves
<1>15. ASSUME NEW t \in Threads, CreateProbe(t)
      PROVE ThreadInv'
  <2>1. Moves(t, {"prepare", "done"})
    BY <1>15, ThreadMoves
  <2>2. /\ UNCHANGED tx /\ sys'.started = sys.started /\ sys'.lifecycle = sys.lifecycle
        /\ work[t].pc = "probe"
        /\ \A id \in Ids : sys'.lock[id] = sys.lock[id]
                          \/ (id = On(t) /\ sys.lock[id] = t)
        /\ work'[t].pc = "prepare" => sys' = sys
    BY <1>15, <1>n, <1>t, <1>o DEF CreateProbe, Unlocked, SysType, Goes, WorkType, InPlace, Locked
  <2>3. InPlace(t)'
    BY <2>1, <2>2, <1>t, ThreadKinds DEF Moves, InPlace, On, Locked, Looks
  <2> QED
    BY <2>1, <2>2, <2>3, <1>q, ThreadKinds DEF Moves
<1>16. ASSUME NEW t \in Threads, Prepare(t)
      PROVE ThreadInv'
  <2>1. Moves(t, {"commit"})
    BY <1>16, ThreadMoves
  <2>2. UNCHANGED <<tx, sys>> /\ work[t].pc = "prepare"
    BY <1>16, <1>n, <1>t, <1>o DEF Prepare
  <2>3. InPlace(t)'
    BY <2>1, <2>2, <1>t, ThreadKinds DEF Moves, InPlace, On, Locked, Looks
  <2> QED
    BY <2>1, <2>2, <2>3, <1>q, ThreadKinds DEF Moves
<1>17. ASSUME NEW t \in Threads, CreateCommit(t)
      PROVE ThreadInv'
  <2>1. Moves(t, {"done"})
    BY <1>17, ThreadMoves
  <2>2. /\ UNCHANGED tx /\ sys'.started = sys.started /\ sys'.lifecycle = sys.lifecycle
        /\ work[t].pc = "commit"
        /\ \A id \in Ids : sys'.lock[id] = sys.lock[id]
                          \/ (id = On(t) /\ sys.lock[id] = t)
    BY <1>17, <1>n, <1>t, <1>o DEF CreateCommit, Unlocked, SysType, InPlace, Locked
  <2>3. InPlace(t)'
    BY <2>1, <2>2, <1>t, ThreadKinds DEF Moves, InPlace, On, Locked, Looks
  <2> QED
    BY <2>1, <2>2, <2>3, <1>q, ThreadKinds DEF Moves
<1>18. ASSUME NEW t \in Threads, DeleteClose(t)
      PROVE ThreadInv'
  <2>1. Moves(t, {"drop"})
    BY <1>18, ThreadMoves
  <2>2. /\ UNCHANGED tx /\ sys'.started = sys.started /\ sys'.lifecycle = sys.lifecycle
        /\ work[t].pc = "read" /\ work[t].what = "delete" /\ sys'.lock = sys.lock
    BY <1>18, <1>n, <1>t, <1>o DEF DeleteClose, SysType
  <2>3. InPlace(t)'
    BY <2>1, <2>2, <1>t, ThreadKinds DEF Moves, InPlace, On, Locked, Looks
  <2> QED
    BY <2>1, <2>2, <2>3, <1>q, ThreadKinds DEF Moves
<1>19. ASSUME NEW t \in Threads, NEW erase \in BOOLEAN, DeleteDrop(t, erase)
      PROVE ThreadInv'
  <2>1. Moves(t, {"done"})
    BY <1>19, ThreadMoves
  <2>2. /\ UNCHANGED tx /\ sys'.started = sys.started /\ sys'.lifecycle = sys.lifecycle
        /\ work[t].pc = "drop"
        /\ \A id \in Ids : sys'.lock[id] = sys.lock[id]
                          \/ (id = On(t) /\ sys.lock[id] = t)
    BY <1>19, <1>n, <1>t, <1>o DEF DeleteDrop, Unlocked, SysType, InPlace, Locked
  <2>3. InPlace(t)'
    BY <2>1, <2>2, <1>t, ThreadKinds DEF Moves, InPlace, On, Locked, Looks
  <2> QED
    BY <2>1, <2>2, <2>3, <1>q, ThreadKinds DEF Moves
<1>20. ASSUME NEW t \in Threads, Begin(t)
      PROVE ThreadInv'
  <2>1. Moves(t, {"body"})
    BY <1>20, ThreadMoves
  <2>2. /\ UNCHANGED sys /\ work[t].pc = "idle" /\ t \in Callers /\ work[t].what = "tx"
        /\ \A u \in Threads \ {t} : tx'.by = u <=> tx.by = u
        /\ tx'.by = t
    BY <1>20, <1>n, <1>t, <1>o DEF Begin, DbFree
  <2>3. InPlace(t)'
    BY <2>1, <2>2, <1>t, ThreadKinds DEF Moves, InPlace, On, Locked, Looks
  <2> QED
    BY <2>1, <2>2, <2>3, <1>q, ThreadKinds DEF Moves
<1>21. ASSUME NEW t \in Threads, Refused(t) \/ Rollback(t)
      PROVE ThreadInv'
  <2>1. Moves(t, {"done"})
    BY <1>21, ThreadMoves
  <2>2. /\ UNCHANGED sys /\ work[t].pc = "body"
        /\ \A u \in Threads \ {t} : tx'.by = u <=> tx.by = u
        /\ tx'.by # t
    BY <1>21, <1>n, <1>t, <1>o DEF Refused, Rollback, Undo, Calls, InPlace
  <2>3. InPlace(t)'
    BY <2>1, <2>2, <1>t, ThreadKinds DEF Moves, InPlace, On, Locked, Looks
  <2> QED
    BY <2>1, <2>2, <2>3, <1>q, ThreadKinds DEF Moves
<1>22. ASSUME NEW t \in Threads, Commit(t)
      PROVE ThreadInv'
  <2>1. Moves(t, {"done"})
    BY <1>22, ThreadMoves
  <2>2. /\ sys'.started = sys.started /\ sys'.lifecycle = sys.lifecycle /\ sys'.lock = sys.lock
        /\ work[t].pc = "body"
        /\ \A u \in Threads \ {t} : tx'.by = u <=> tx.by = u
        /\ tx'.by # t
    BY <1>22, <1>n, <1>t, <1>o DEF Commit, Calls, InPlace, SysType
  <2>3. InPlace(t)'
    BY <2>1, <2>2, <1>t, ThreadKinds DEF Moves, InPlace, On, Locked, Looks
  <2> QED
    BY <2>1, <2>2, <2>3, <1>q, ThreadKinds DEF Moves
<1>23. ASSUME NEW t \in Ids, StartLoad(t)
      PROVE ThreadInv'
  <2>1. Moves(t, {"done"})
    BY <1>23, ThreadMoves, ThreadKinds
  <2>2. /\ UNCHANGED tx /\ sys'.started = sys.started /\ sys'.lifecycle = sys.lifecycle
        /\ work[t].pc = "load"
        /\ \A id \in Ids : sys'.lock[id] = sys.lock[id]
                          \/ (id = On(t) /\ sys.lock[id] = t)
    <3>1. /\ sys'.lock = [sys.lock EXCEPT ![On(t)] = Nobody] /\ sys.lock[On(t)] = t
          /\ sys'.lifecycle = sys.lifecycle /\ sys'.started = sys.started
      BY <1>23, <1>t, PublishUnlocks, ThreadKinds
    <3> QED
      BY <1>23, <1>o, <3>1 DEF StartLoad, SysType
  <2>3. InPlace(t)'
    BY <2>1, <2>2, <1>t, ThreadKinds DEF Moves, InPlace, On, Locked, Looks
  <2> QED
    BY <2>1, <2>2, <2>3, <1>q, ThreadKinds DEF Moves
<1>24. ASSUME NEW t \in Threads, Call(t) \/ TxUse(t) \/ TxCreate(t) \/ TxErase(t)
      PROVE ThreadInv'
  <2>1. UNCHANGED <<sys, work>> /\ tx.by = t
    BY <1>24 DEF Call, TxUse, TxCreate, TxErase, Calls
  <2>2. tx \in TxType
    BY <2>1, <1>n
  <2>3. tx'.by = tx.by
    BY <1>24, <2>2 DEF Call, TxUse, TxCreate, TxErase, TxType
  <2> QED
    BY <2>1, <2>3, <1>t DEF ThreadInv, InPlace, On
<1>25. ASSUME NEW id \in Ids, FinishHandover(id)
      PROVE ThreadInv'
  <2>1. UNCHANGED <<work, tx>> /\ sys'.lock = sys.lock /\ sys'.started = sys.started
        /\ sys'.lifecycle = sys.lifecycle
    BY <1>25 DEF FinishHandover, SysType
  <2> QED
    BY <2>1, <1>t DEF ThreadInv, InPlace, On
<1>26. ASSUME NEW i \in Threads, RunEnds(i) \/ CloseEnds(i)
      PROVE ThreadInv'
  BY <1>26, <1>t DEF RunEnds, CloseEnds, ThreadInv, InPlace, On
<1>27. CASE UNCHANGED vars
  BY <1>27, <1>t DEF vars, ThreadInv, InPlace, On
<1> QED
  BY <1>1, <1>2, <1>3, <1>4, <1>5, <1>6, <1>7, <1>8, <1>9, <1>10, <1>11, <1>12, <1>13, <1>14, <1>15, <1>16, <1>17, <1>18, <1>19, <1>20, <1>21, <1>22, <1>23, <1>24, <1>25, <1>26, <1>27
  DEF Next, Starting, Stopping, Proceeds, Ends

(* Restorations when no restoration is committed by the step.               *)
Restorations == RestoredOnceFirst /\ RestoredInv

(* A step that commits no restoration, puts no identity into memory that    *)
(* was not restored and sends no thread on to load keeps them.              *)
LEMMA NoRestoration ==
    ASSUME TypeOK, Restorations,
           sys'.restored = sys.restored, log'.restorations = log.restorations,
           \A id \in Ids : sys'.agents[id] # Nobody =>
               sys.agents[id] # Nobody \/ id \in sys.restored,
           \A t \in Threads : work'[t].pc = "load" =>
               work[t].pc = "load" /\ work'[t].on = work[t].on,
           tx' = tx \/ tx' = NoTx,
           \A t \in Threads : work'[t].on = work[t].on
    PROVE Restorations'
<1>1. \A t \in Threads : On(t)' = On(t)
  BY DEF On
<1>2. tx' # NoTx => tx' = tx /\ tx.by \in Threads
  BY ThreadKinds DEF TypeOK, TxType
<1> QED
  BY <1>1, <1>2 DEF Restorations, RestoredOnceFirst, RestoredInv, Agent

(* Every step keeps to one restoration, before the agent is there.          *)
LEMMA RestoredStep ==
    ASSUME TypeOK, ThreadInv, Restorations, [Next]_vars
    PROVE Restorations'
<1> /\ db \in DbType /\ sys \in SysType /\ inst \in [Threads -> AgentType]
    /\ work \in [Threads -> WorkType] /\ log \in LogType
    /\ tx = NoTx \/ tx \in TxType
  BY DEF TypeOK
<1>o. \A t \in Threads : On(t) \in Ids
  BY OnIsIdentity
<1>n. NoTx.by = Nobody /\ Nobody \notin Threads /\ Ids \subseteq Threads
      /\ (tx \in TxType => tx.by \in Threads)
  BY ThreadKinds DEF NoTx, TxType
<1>t. \A t \in Threads : InPlace(t)
  BY DEF ThreadInv
<1>q. ASSUME NEW t \in Threads, NEW pcs, Moves(t, pcs), "load" \notin pcs
      PROVE \A u \in Threads :
                /\ work'[u].pc = "load" => work[u].pc = "load" /\ work'[u].on = work[u].on
                /\ work'[u].on = work[u].on
  BY <1>q DEF Moves
<1>1. CASE OpenSystem \/ CloseAgents \/ ReleaseStore \/ Drain \/ Close
  <2>1. UNCHANGED <<work, tx, log>> /\ sys'.restored = sys.restored
        /\ \A id \in Ids : sys'.agents[id] # Nobody => sys.agents[id] # Nobody
    <3>1. CASE CloseAgents
      BY <3>1 DEF CloseAgents, SysType
    <3>2. CASE ReleaseStore
      BY <3>2 DEF ReleaseStore, SysType
    <3> QED
      BY <1>1, <3>1, <3>2 DEF OpenSystem, Drain, Close, SysType
  <2> QED
    BY <2>1, NoRestoration
<1>2. CASE StartAgents
  <2>1. UNCHANGED <<work, tx, log>> /\ sys'.restored = sys.restored /\ sys'.agents = sys.agents
    <3>1. sys' = [sys EXCEPT !.started = TRUE]
          \/ sys' = [sys EXCEPT !.started = TRUE, !.lifecycle = "closing"]
      BY <1>2 DEF StartAgents
    <3> QED
      BY <1>2, <3>1 DEF StartAgents, SysType
  <2> QED
    BY <2>1, NoRestoration
<1>3. CASE ReadOwing
  <2>1. \A t \in Threads : work'[t].on = work[t].on
                           /\ (work'[t].pc = "load" => work[t].pc = "load")
    BY <1>3, ReadOwingMoves
  <2>2. UNCHANGED <<sys, tx, log>>
    BY <1>3 DEF ReadOwing
  <2> QED
    BY <2>1, <2>2, NoRestoration
<1>4. ASSUME NEW t \in Threads, Admit(t) \/ Await(t) \/ Config(t)
      PROVE Restorations'
  <2>1. Moves(t, {"await", "lock", "accept", "done", "read"})
    BY <1>4, ThreadMoves DEF Moves
  <2>2. UNCHANGED <<sys, tx, log>>
    BY <1>4, <1>o, <1>n DEF Admit, Await, Config
  <2> QED
    BY <2>1, <2>2, <1>q, <1>n, NoRestoration
<1>5. ASSUME NEW t \in Threads, Lock(t)
      PROVE Restorations'
  <2>1. Moves(t, {"config", "probe", "accept", "done"})
    BY <1>5, ThreadMoves
  <2>2. sys'.restored = sys.restored /\ log'.restorations = log.restorations /\ tx' = tx
        /\ sys'.agents = sys.agents
    BY <1>5, <1>o, <1>n DEF Lock, SysType
  <2> QED
    BY <2>1, <2>2, <1>q, <1>n, NoRestoration
<1>6. ASSUME NEW t \in Threads, ReadConfig(t)
      PROVE Restorations'
  <2>1. Moves(t, {"restore", "done"})
    BY <1>6, ThreadMoves
  <2>2. sys'.restored = sys.restored /\ log'.restorations = log.restorations /\ tx' = tx
        /\ sys'.agents = sys.agents
    BY <1>6, <1>o, <1>n, UnlockedParts DEF ReadConfig
  <2> QED
    BY <2>1, <2>2, <1>q, <1>n, NoRestoration
<1>7. ASSUME NEW t \in Threads, CreateProbe(t)
      PROVE Restorations'
  <2>1. Moves(t, {"prepare", "done"})
    BY <1>7, ThreadMoves
  <2>2. sys'.restored = sys.restored /\ log'.restorations = log.restorations /\ tx' = tx
        /\ sys'.agents = sys.agents
    BY <1>7, <1>o, <1>n, UnlockedParts DEF CreateProbe
  <2> QED
    BY <2>1, <2>2, <1>q, <1>n, NoRestoration
<1>8. ASSUME NEW t \in Threads, Accept(t)
      PROVE Restorations'
  <2>1. Moves(t, {"done"})
    BY <1>8, ThreadMoves
  <2>2. UNCHANGED <<sys, tx, log>>
    BY <1>8, <1>o, <1>n DEF Accept
  <2> QED
    BY <2>1, <2>2, <1>q, <1>n, NoRestoration
<1>9. ASSUME NEW t \in Threads, Prepare(t)
      PROVE Restorations'
  <2>1. Moves(t, {"commit"})
    BY <1>9, ThreadMoves
  <2>2. UNCHANGED <<sys, tx>> /\ log'.restorations = log.restorations
    BY <1>9, <1>o, <1>n DEF Prepare, LogType
  <2> QED
    BY <2>1, <2>2, <1>q, <1>n, NoRestoration
<1>10. ASSUME NEW t \in Threads, DeleteClose(t)
      PROVE Restorations'
  <2>1. Moves(t, {"drop"})
    BY <1>10, ThreadMoves
  <2>2. UNCHANGED <<tx, log>> /\ sys'.restored = sys.restored
        /\ \A id \in Ids : sys'.agents[id] # Nobody => sys.agents[id] # Nobody
    BY <1>10, <1>o, <1>n DEF DeleteClose, SysType
  <2> QED
    BY <2>1, <2>2, <1>q, <1>n, NoRestoration
<1>11. ASSUME NEW t \in Threads, Refused(t) \/ Rollback(t)
      PROVE Restorations'
  <2>1. Moves(t, {"done"})
    BY <1>11, ThreadMoves
  <2>2. UNCHANGED <<sys, log>> /\ tx' = NoTx
    BY <1>11, <1>o, <1>n DEF Refused, Rollback, Undo
  <2> QED
    BY <2>1, <2>2, <1>q, <1>n, NoRestoration
<1>12. ASSUME NEW t \in Threads, ResolveLoad(t)
      PROVE Restorations'
  <2>1. Moves(t, {"accept", "done"})
    BY <1>12, <1>n, ThreadMoves
  <2>2. t \in Threads /\ work[t].pc = "load" /\ tx' = tx /\ log'.restorations = log.restorations
    BY <1>12, <1>n DEF ResolveLoad, LogType
  <2>3. /\ sys'.restored = sys.restored
        /\ sys'.agents = sys.agents \/ sys'.agents = [sys.agents EXCEPT ![On(t)] = t]
    BY <1>12, <1>t, <2>2, PublishUnlocks
  <2>4. On(t) \in sys.restored
    BY <2>2 DEF Restorations, RestoredInv
  <2>5. \A id \in Ids : sys'.agents[id] # Nobody => sys.agents[id] # Nobody \/ id \in sys.restored
    BY <2>3, <2>4, <1>o, <2>2 DEF SysType
  <2> QED
    BY <2>1, <2>2, <2>3, <2>5, <1>q, NoRestoration
<1>13. ASSUME NEW t \in Ids, StartLoad(t)
      PROVE Restorations'
  <2>1. Moves(t, {"done"})
    BY <1>13, <1>n, ThreadMoves
  <2>2. t \in Threads /\ work[t].pc = "load" /\ tx' = tx /\ log'.restorations = log.restorations
    BY <1>13, <1>n DEF StartLoad, LogType
  <2>3. /\ sys'.restored = sys.restored
        /\ sys'.agents = sys.agents \/ sys'.agents = [sys.agents EXCEPT ![On(t)] = t]
    BY <1>13, <1>t, <2>2, PublishUnlocks
  <2>4. On(t) \in sys.restored
    BY <2>2 DEF Restorations, RestoredInv
  <2>5. \A id \in Ids : sys'.agents[id] # Nobody => sys.agents[id] # Nobody \/ id \in sys.restored
    BY <2>3, <2>4, <1>o, <2>2 DEF SysType
  <2> QED
    BY <2>1, <2>2, <2>3, <2>5, <1>q, NoRestoration
<1>14. ASSUME NEW id \in Ids, FinishHandover(id)
      PROVE Restorations'
  <2>1. UNCHANGED <<work, tx, log>> /\ sys'.restored = sys.restored /\ sys'.agents = sys.agents
    BY <1>14 DEF FinishHandover, SysType
  <2> QED
    BY <2>1, NoRestoration
<1>15. ASSUME NEW i \in Threads, RunEnds(i) \/ CloseEnds(i)
      PROVE Restorations'
  <2>1. UNCHANGED <<work, tx, log, sys>>
    BY <1>15 DEF RunEnds, CloseEnds
  <2> QED
    BY <2>1, NoRestoration
<1>16. CASE UNCHANGED vars
  BY <1>16, NoRestoration DEF vars
<1>f. DbFree => tx = NoTx
  BY <1>n DEF DbFree
<1>r. /\ \A id \in Ids : /\ log.restorations[id] \in {0, 1}
                         /\ log.restorations[id] = 1 => id \in sys.restored
                         /\ sys.agents[id] # Nobody => id \in sys.restored
      /\ \A t \in Threads : work[t].pc = "load" => On(t) \in sys.restored
  <2>1. \A id \in Ids : log.restorations[id] \in Nat
    BY DEF LogType
  <2> QED
    BY <2>1 DEF Restorations, RestoredOnceFirst, RestoredInv, Agent
<1>17. ASSUME NEW t \in Threads, Restore(t)
       PROVE Restorations'
  <2> DEFINE id == On(t)
  <2>1. Moves(t, {"load", "accept", "done"})
    BY <1>17, ThreadMoves
  <2>2. sys'.restored = sys.restored \cup {id} /\ sys'.agents = sys.agents
    <3>1. [sys EXCEPT !.restored = @ \cup {id}] \in SysType
      BY <1>o DEF SysType
    <3>2. /\ Unlocked([sys EXCEPT !.restored = @ \cup {id}], id).restored = sys.restored \cup {id}
          /\ Unlocked([sys EXCEPT !.restored = @ \cup {id}], id).agents = sys.agents
      BY <1>o, <3>1 DEF Unlocked, SysType
    <3> QED
      BY <1>17, <3>2 DEF Restore, SysType
  <2>3. tx' = tx /\ (Unrestored(id) => tx = NoTx)
    BY <1>17, <1>f DEF Restore
  <2>4. \A i \in Ids : log'.restorations[i] =
            IF i = id /\ id \notin sys.restored THEN log.restorations[i] + 1 ELSE log.restorations[i]
    BY <1>17, <1>o DEF Restore, Unrestored, LogType
  <2>5. \A u \in Threads : On(u)' = On(u) /\ (work'[u].pc = "load" => work[u].pc = "load" \/ u = t)
    BY <2>1 DEF Moves, On
  <2> HIDE DEF id
  <2>6. RestoredOnceFirst'
    BY <1>r, <1>o, <2>2, <2>4 DEF RestoredOnceFirst, Agent
  <2>7. tx' # NoTx => sys'.restored = sys.restored
    BY <2>2, <2>3 DEF Unrestored
  <2>8. RestoredInv'
    BY <1>r, <1>o, <1>n, <2>2, <2>3, <2>4, <2>5, <2>7 DEF RestoredInv, Restorations, id
  <2> QED
    BY <2>6, <2>8 DEF Restorations
<1>18. ASSUME NEW t \in Threads, CreateCommit(t)
       PROVE Restorations'
  <2> DEFINE id == On(t)
             u == Unlocked(sys, id)
  <2>1. Moves(t, {"done"})
    BY <1>18, ThreadMoves
  <2>2. /\ sys.restored \subseteq sys'.restored
        /\ \A i \in Ids : sys'.agents[i] # Nobody => sys.agents[i] # Nobody \/ i \in sys'.restored
    <3>1. u \in SysType /\ u.restored = sys.restored /\ u.agents = sys.agents
      BY <1>o, UnlockedParts
    <3> HIDE DEF u
    <3> QED
      BY <1>18, <1>o, <3>1 DEF CreateCommit, SysType, u
  <2>3. tx' = NoTx
    BY <1>18, <1>f DEF CreateCommit
  <2>4. log'.restorations = log.restorations
    BY <1>18 DEF CreateCommit, LogType
  <2>5. \A v \in Threads : On(v)' = On(v) /\ (work'[v].pc = "load" => work[v].pc = "load")
    BY <2>1 DEF Moves, On
  <2> QED
    BY <1>r, <1>o, <2>2, <2>3, <2>4, <2>5
    DEF Restorations, RestoredOnceFirst, RestoredInv, Agent
<1>19. ASSUME NEW t \in Threads, NEW erase \in BOOLEAN, DeleteDrop(t, erase)
       PROVE Restorations'
  <2> DEFINE id == On(t)
             restores == id \in db.exists /\ Unrestored(id)
  <2>1. Moves(t, {"done"})
    BY <1>19, ThreadMoves
  <2>2. /\ sys'.restored = IF restores THEN sys.restored \cup {id} ELSE sys.restored
        /\ sys'.agents = sys.agents
    <3>1. /\ Unlocked(sys, id) \in SysType /\ Unlocked(sys, id).restored = sys.restored
          /\ Unlocked(sys, id).agents = sys.agents
      BY <1>o, UnlockedParts
    <3> QED
      BY <1>19, <3>1 DEF DeleteDrop, SysType
  <2>3. tx' = NoTx
    BY <1>19, <1>f DEF DeleteDrop
  <2>4. \A i \in Ids : log'.restorations[i] =
            IF i = id /\ restores THEN log.restorations[i] + 1 ELSE log.restorations[i]
    BY <1>19, <1>o DEF DeleteDrop, LogType
  <2>5. \A v \in Threads : On(v)' = On(v) /\ (work'[v].pc = "load" => work[v].pc = "load")
    BY <2>1 DEF Moves, On
  <2>6. restores => id \notin sys.restored
    BY DEF Unrestored
  <2> HIDE DEF id, restores
  <2> QED
    BY <1>r, <1>o, <2>2, <2>3, <2>4, <2>5, <2>6
    DEF Restorations, RestoredOnceFirst, RestoredInv, Agent, id
<1>20. ASSUME NEW t \in Threads, Begin(t)
       PROVE Restorations'
  <2>1. Moves(t, {"body"})
    BY <1>20, ThreadMoves
  <2>2. UNCHANGED <<sys, log>> /\ tx'.restores = "no" /\ tx'.staged = "nothing"
    BY <1>20 DEF Begin
  <2>3. \A v \in Threads : On(v)' = On(v) /\ (work'[v].pc = "load" => work[v].pc = "load")
    BY <2>1 DEF Moves, On
  <2> QED
    BY <1>r, <1>o, <2>2, <2>3 DEF Restorations, RestoredOnceFirst, RestoredInv, Agent
<1>21. ASSUME NEW t \in Threads, tx.by = t, tx \in TxType, UNCHANGED <<sys, work>>,
              log'.restorations = log.restorations,
              tx'.by = tx.by,
              \/ tx'.restores = tx.restores
              \/ tx'.restores = "created"
              \/ tx'.restores = TxRestores(t),
              tx'.staged = "agent" =>
                  tx'.restores # "no" \/ On(t) \in sys.restored
       PROVE Restorations'
  <2>1. tx'.restores = "restored" => On(t) \notin sys.restored
    BY <1>21, <1>n DEF TxRestores, Unrestored, Restorations, RestoredInv, TxType
  <2> QED
    BY <1>21, <1>r, <1>o, <2>1 DEF Restorations, RestoredOnceFirst, RestoredInv, Agent, On
<1>22. ASSUME NEW t \in Threads, Call(t) \/ TxUse(t) \/ TxCreate(t) \/ TxErase(t)
       PROVE Restorations'
  <2>1. tx.by = t /\ tx \in TxType
    BY <1>22, <1>n DEF Call, TxUse, TxCreate, TxErase, Calls
  <2>2. UNCHANGED <<sys, work, log>>
    BY <1>22 DEF Call, TxUse, TxCreate, TxErase
  <2>3. tx.staged = "agent" => tx.restores # "no" \/ On(t) \in sys.restored
    BY <2>1, <1>n DEF Restorations, RestoredInv
  <2>4. TxAgent = Nobody => tx.staged # "agent" /\ sys.agents[On(t)] = Nobody
    BY <2>1, <1>n DEF TxAgent, Agent
  <2>5. CASE Call(t)
    <3>1. tx'.by = tx.by /\ tx'.restores = tx.restores /\ tx'.staged = tx.staged
      BY <2>1, <2>5 DEF Call, TxType
    <3> QED
      BY <1>21, <2>1, <2>2, <2>3, <3>1
  <2>6. CASE TxUse(t)
    <3>1. /\ tx'.by = tx.by
          /\ tx'.restores = IF TxAgent = Nobody THEN TxRestores(t) ELSE tx.restores
          /\ tx'.staged = IF TxAgent = Nobody THEN "agent" ELSE tx.staged
      BY <2>1, <2>6 DEF TxUse, TxType
    <3>2. TxRestores(t) # "no" \/ On(t) \in sys.restored
      BY DEF TxRestores, Unrestored
    <3> QED
      BY <1>21, <2>1, <2>2, <2>3, <3>1, <3>2
  <2>7. CASE TxCreate(t)
    <3>1. /\ tx'.by = tx.by
          /\ tx'.restores = IF tx.restores = "no" THEN "created" ELSE tx.restores
          /\ tx'.staged = IF TxAgent = Nobody THEN "agent" ELSE tx.staged
      BY <2>1, <2>7 DEF TxCreate, TxType
    <3> QED
      BY <1>21, <2>1, <2>2, <3>1
  <2>8. CASE TxErase(t)
    <3>1. /\ tx'.by = tx.by
          /\ tx'.restores = IF On(t) \in db.exists THEN TxRestores(t) ELSE tx.restores
          /\ tx'.staged = "deleted"
      BY <2>1, <2>8 DEF TxErase, TxType
    <3> QED
      BY <1>21, <2>1, <2>2, <3>1
  <2> QED
    BY <1>22, <2>5, <2>6, <2>7, <2>8
<1>23. ASSUME NEW t \in Threads, Commit(t)
       PROVE Restorations'
  <2> DEFINE id == On(t)
             publishes == tx.staged = "agent" /\ Agent(id) = Nobody
  <2>1. Moves(t, {"done"})
    BY <1>23, ThreadMoves
  <2>2. tx.by = t /\ tx \in TxType /\ tx' = NoTx
    BY <1>23, <1>n DEF Commit, Calls
  <2>3. /\ sys'.restored = IF tx.restores = "no" THEN sys.restored ELSE sys.restored \cup {id}
        /\ \A i \in Ids : sys'.agents[i] # Nobody => sys.agents[i] # Nobody \/ (i = id /\ publishes)
    BY <1>23, <2>2, <1>o DEF Commit, CommittedAgents, Agent, SysType
  <2>4. \A i \in Ids : log'.restorations[i] =
            IF i = id /\ tx.restores = "restored" THEN log.restorations[i] + 1
            ELSE log.restorations[i]
    BY <1>23, <1>o DEF Commit, LogType
  <2>5. \A v \in Threads : On(v)' = On(v) /\ (work'[v].pc = "load" => work[v].pc = "load")
    BY <2>1 DEF Moves, On
  <2>6. /\ tx.restores = "restored" => id \notin sys.restored
        /\ publishes => tx.restores # "no" \/ id \in sys.restored
    BY <2>2, <1>n DEF Restorations, RestoredInv
  <2> HIDE DEF id, publishes
  <2> QED
    BY <1>r, <1>o, <2>2, <2>3, <2>4, <2>5, <2>6
    DEF Restorations, RestoredOnceFirst, RestoredInv, Agent, id
<1> QED
  BY <1>1, <1>2, <1>3, <1>4, <1>5, <1>6, <1>7, <1>8, <1>9, <1>10, <1>11, <1>12, <1>13, <1>14,
     <1>15, <1>16, <1>17, <1>18, <1>19, <1>20, <1>22, <1>23
  DEF Next, Starting, Stopping, Proceeds, Ends

(* What the initial states establish of the threads and of restorations.    *)
LEMMA PlacesInit == Init => ThreadInv /\ Restorations
<1> SUFFICES ASSUME Init PROVE ThreadInv /\ Restorations
  OBVIOUS
<1>1. PICK whom \in [Callers -> Ids],
           what \in [Callers -> {"tx", "send", "resolve", "create", "delete"}] :
          work = Begun(whom, what)
  BY Zenon DEF Init
<1>2. \A t \in Threads : /\ work[t].pc = "idle"
                         /\ t \in Ids => work[t].on = t /\ work[t].what = "start"
                         /\ t \notin Ids => work[t].what \notin {"start", "restore"}
  BY <1>1, ThreadKinds DEF Begun
<1>3. /\ tx = NoTx /\ sys.lifecycle = "initializing" /\ ~sys.started
      /\ sys.agents = [id \in Ids |-> Nobody] /\ log.restorations = [id \in Ids |-> 0]
  BY DEF Init
<1>4. ThreadInv
  BY <1>2, <1>3, ThreadKinds DEF ThreadInv, InPlace, Locked, NoTx
<1>5. Restorations
  BY <1>2, <1>3 DEF Restorations, RestoredOnceFirst, RestoredInv, Agent, NoTx
<1> QED
  BY <1>4, <1>5

(* THEOREM: restoration hooks of an identity commit once at most, before    *)
(* its agent can be used, however callers use identities.                   *)
THEOREM RestoredOnce == Spec => []RestoredOnceFirst
<1> DEFINE I == TypeOK /\ ThreadInv /\ Restorations
<1>1. Init => I
  BY TypeInit, PlacesInit
<1>2. I /\ [Next]_vars => I'
  BY TypeStep, ThreadStep, RestoredStep
<1>3. I => RestoredOnceFirst
  BY DEF Restorations
<1> QED
  BY <1>1, <1>2, <1>3, PTL DEF Spec

(* The uses of an identity that keep the properties (README, section 6).    *)
Disciplined == Uses \subseteq {"served", "handed", "private"}

(* Which calls such an identity sees.                                       *)
LEMMA DisciplinedCalls ==
    ASSUME Disciplined, NEW use \in Uses
    PROVE /\ PlainCalls[use] \subseteq {"send", "resolve", "create", "delete"}
          /\ use = "handed" => PlainCalls[use] = {}
          /\ "delete" \in PlainCalls[use] => use = "private"
          /\ TxCalls[use] \subseteq {"send", "resolve", "create", "erase"}
          /\ TxCalls[use] # {} => use \in {"served", "handed"}
          /\ "erase" \in TxCalls[use] => use = "handed"
  BY DEF Disciplined, PlainCalls, TxCalls

(* The use of an identity is kept to by what changes none of this.          *)
LEMMA UseFrame ==
    ASSUME TypeOK, UseInv, log'.use = log.use,
           \A t \in Threads : /\ work'[t].on = work[t].on
                              /\ t \in Callers => work'[t].what = work[t].what,
           \A id \in Ids : sys'.transition[id] \in {sys.transition[id], Nobody},
           sys.started => sys'.started,
           tx' = NoTx \/ (/\ tx' = tx
                          /\ \/ sys'.lifecycle = sys.lifecycle \/ tx.call = "none"
                             \/ sys'.lifecycle \in {"open", "closing"})
    PROVE UseInv'
<1>1. tx' # NoTx => tx' = tx /\ tx.by \in Callers /\ tx.by \in Threads
  BY ThreadKinds DEF TypeOK, TxType
<1>2. \A t \in Threads : On(t)' = On(t)
  BY DEF On
<1> QED
  BY <1>1, <1>2, ThreadKinds DEF UseInv, HandedOver

(* Every step keeps to the uses.                                            *)
LEMMA UseStep ==
    ASSUME TypeOK, ThreadInv, UseInv, Disciplined, [Next]_vars
    PROVE UseInv'
<1> /\ db \in DbType /\ sys \in SysType /\ inst \in [Threads -> AgentType]
    /\ work \in [Threads -> WorkType] /\ log \in LogType
    /\ tx = NoTx \/ tx \in TxType
  BY DEF TypeOK
<1>o. \A t \in Threads : On(t) \in Ids
  BY OnIsIdentity
<1>n. /\ NoTx.by = Nobody /\ Nobody \notin Threads /\ Ids \subseteq Threads
      /\ tx \in TxType => tx.by \in Threads /\ tx.by \in Callers
  BY ThreadKinds DEF NoTx, TxType
<1>t. \A t \in Threads : InPlace(t)
  BY DEF ThreadInv
<1>q. ASSUME NEW t \in Threads, NEW pcs, Moves(t, pcs)
      PROVE \A u \in Threads : work'[u].on = work[u].on /\ work'[u].what = work[u].what
  BY <1>q DEF Moves
<1>1. CASE OpenSystem \/ ReleaseStore \/ Drain \/ Close \/ CloseAgents
  <2>1. UNCHANGED <<work, tx, log>> /\ sys'.started = sys.started /\ sys'.transition = sys.transition
    <3>1. CASE CloseAgents
      BY <3>1 DEF CloseAgents, SysType
    <3> QED
      BY <1>1, <3>1 DEF OpenSystem, ReleaseStore, Drain, Close, SysType
  <2>2. \/ tx = NoTx \/ tx.call = "none" \/ sys'.lifecycle \in {"open", "closing"}
    <3>1. CASE CloseAgents
      BY <3>1, <1>n DEF CloseAgents, AllReturned, SysType
    <3>2. CASE ReleaseStore
      BY <3>2, <1>n DEF ReleaseStore, UseInv
    <3> QED
      BY <1>1, <3>1, <3>2 DEF OpenSystem, Drain, Close, SysType, Open
  <2> QED
    BY <2>1, <2>2, UseFrame
<1>2. CASE StartAgents
  <2>1. UNCHANGED <<work, tx, log>> /\ sys'.transition = sys.transition /\ sys'.started
        /\ sys'.lifecycle \in {"open", "closing"}
    <3>1. sys' = [sys EXCEPT !.started = TRUE]
          \/ sys' = [sys EXCEPT !.started = TRUE, !.lifecycle = "closing"]
      BY <1>2 DEF StartAgents
    <3> QED
      BY <1>2, <3>1 DEF StartAgents, SysType, Open
  <2> QED
    BY <2>1, UseFrame
<1>3. CASE ReadOwing
  <2>1. \A t \in Threads : /\ work'[t].on = work[t].on
                           /\ t \in Callers => work'[t].what = work[t].what
    BY <1>3, ReadOwingMoves
  <2>2. UNCHANGED <<sys, tx, log>>
    BY <1>3 DEF ReadOwing
  <2> QED
    BY <2>1, <2>2, UseFrame
<1>s. ASSUME NEW t \in Threads,
             \A u \in Threads : work'[u].on = work[u].on /\ work'[u].what = work[u].what,
             log'.use = log.use, tx' = tx \/ tx' = NoTx,
             sys'.transition = sys.transition, sys'.started = sys.started,
             sys'.lifecycle = sys.lifecycle
      PROVE UseInv'
  BY <1>s, UseFrame
<1>4. ASSUME NEW t \in Threads, Admit(t) \/ Await(t) \/ Config(t) \/ Accept(t)
      PROVE UseInv'
  <2>1. \E pcs : Moves(t, pcs)
    BY <1>4, ThreadMoves
  <2> QED
    BY <1>4, <2>1, <1>q, <1>s DEF Admit, Await, Config, Accept
<1>5. ASSUME NEW t \in Threads, Lock(t) \/ Prepare(t) \/ DeleteClose(t)
      PROVE UseInv'
  <2>1. \E pcs : Moves(t, pcs)
    BY <1>5, ThreadMoves
  <2>2. log'.use = log.use /\ tx' = tx /\ sys'.transition = sys.transition
        /\ sys'.started = sys.started /\ sys'.lifecycle = sys.lifecycle
    BY <1>5 DEF Lock, Prepare, DeleteClose, SysType, LogType
  <2> QED
    BY <2>1, <2>2, <1>q, <1>s
<1>6. ASSUME NEW t \in Threads, ReadConfig(t) \/ CreateProbe(t)
      PROVE UseInv'
  <2>1. \E pcs : Moves(t, pcs)
    BY <1>6, ThreadMoves
  <2>2. UNCHANGED <<log, tx>> /\ sys'.transition = sys.transition
        /\ sys'.started = sys.started /\ sys'.lifecycle = sys.lifecycle
    BY <1>6, <1>o, UnlockedParts DEF ReadConfig, CreateProbe
  <2> QED
    BY <2>1, <2>2, <1>q, <1>s
<1>7. ASSUME NEW t \in Threads, Restore(t)
      PROVE UseInv'
  <2>1. \E pcs : Moves(t, pcs)
    BY <1>7, ThreadMoves
  <2>2. log'.use = log.use /\ tx' = tx /\ sys'.transition = sys.transition
        /\ sys'.started = sys.started /\ sys'.lifecycle = sys.lifecycle
    BY <1>7, <1>o, RestoreParts DEF Restore
  <2> QED
    BY <2>1, <2>2, <1>q, <1>s
<1>8. ASSUME NEW t \in Threads, CreateCommit(t) \/ \E erase \in BOOLEAN : DeleteDrop(t, erase)
      PROVE UseInv'
  <2>1. \E pcs : Moves(t, pcs)
    BY <1>8, ThreadMoves
  <2>2. log'.use = log.use /\ tx' = tx /\ sys'.transition = sys.transition
        /\ sys'.started = sys.started /\ sys'.lifecycle = sys.lifecycle
    <3>1. PICK s : s = Unlocked(sys, On(t))
      OBVIOUS
    <3>2. /\ s \in SysType /\ s.transition = sys.transition
          /\ s.started = sys.started /\ s.lifecycle = sys.lifecycle
      BY <1>o, <3>1, UnlockedParts
    <3>3. CASE CreateCommit(t)
      <4>1. log'.use = log.use /\ tx' = tx
        BY <3>3 DEF CreateCommit, LogType
      <4>2. PICK restored, publishes :
                sys' = [s EXCEPT !.restored = restored,
                                 !.agents[On(t)] = IF publishes THEN t ELSE @]
        BY <3>1, <3>3, Zenon DEF CreateCommit
      <4>3. sys'.transition = s.transition /\ sys'.started = s.started
            /\ sys'.lifecycle = s.lifecycle
        BY <3>2, <4>2 DEF SysType
      <4> QED
        BY <3>2, <4>1, <4>3
    <3>4. CASE \E erase \in BOOLEAN : DeleteDrop(t, erase)
      <4>1. log'.use = log.use /\ tx' = tx
        BY <3>4 DEF DeleteDrop, LogType
      <4>2. PICK restored : sys' = [s EXCEPT !.restored = restored]
        BY <3>1, <3>4, Zenon DEF DeleteDrop
      <4>3. sys'.transition = s.transition /\ sys'.started = s.started
            /\ sys'.lifecycle = s.lifecycle
        BY <3>2, <4>2 DEF SysType
      <4> QED
        BY <3>2, <4>1, <4>3
    <3> QED
      BY <1>8, <3>3, <3>4
  <2> QED
    BY <2>1, <2>2, <1>q, <1>s
<1>9. ASSUME NEW t \in Threads, ResolveLoad(t) \/ (t \in Ids /\ StartLoad(t))
      PROVE UseInv'
  <2>1. \E pcs : Moves(t, pcs)
    BY <1>9, ThreadMoves
  <2>2. sys'.transition = sys.transition
        /\ sys'.started = sys.started /\ sys'.lifecycle = sys.lifecycle
    BY <1>9, <1>t, PublishUnlocks
  <2>3. log'.use = log.use /\ tx' = tx
    BY <1>9 DEF ResolveLoad, StartLoad, LogType
  <2> QED
    BY <2>1, <2>2, <2>3, <1>q, <1>s
<1>10. ASSUME NEW t \in Threads, Refused(t) \/ Rollback(t)
       PROVE UseInv'
  <2>1. \E pcs : Moves(t, pcs)
    BY <1>10, ThreadMoves
  <2> QED
    BY <1>10, <2>1, <1>q, <1>s DEF Refused, Rollback, Undo
<1>11. ASSUME NEW id \in Ids, FinishHandover(id)
       PROVE UseInv'
  <2>1. UNCHANGED <<work, tx, log>> /\ sys'.started = sys.started /\ sys'.lifecycle = sys.lifecycle
        /\ \A i \in Ids : sys'.transition[i] \in {sys.transition[i], Nobody}
    BY <1>11 DEF FinishHandover, SysType
  <2> QED
    BY <2>1, UseFrame
<1>12. ASSUME NEW i \in Threads, RunEnds(i) \/ CloseEnds(i)
       PROVE UseInv'
  <2>1. UNCHANGED <<work, tx, log, sys>>
    BY <1>12 DEF RunEnds, CloseEnds
  <2> QED
    BY <2>1, UseFrame
<1>13. CASE UNCHANGED vars
  BY <1>13, UseFrame DEF vars
<1>u. /\ \A c \in Callers :
             work[c].what # "tx" => work[c].what \in PlainCalls[log.use[On(c)]]
      /\ \A id \in Ids : HandedOver(id) => log.use[id] = "handed" /\ sys.started
  BY DEF UseInv
<1>x. ASSUME NEW t \in Threads, tx.by = t, tx \in TxType, tx'.by = t,
             UNCHANGED <<work, sys, log>>,
             tx'.call = "none" \/ sys.lifecycle \in {"open", "closing"},
             tx'.call # "none" \/ tx'.staged # "nothing" =>
                 log.use[On(t)] \in {"served", "handed"},
             tx'.call = "erase" \/ tx'.staged = "deleted" =>
                 log.use[On(t)] = "handed" /\ sys.started
      PROVE UseInv'
  <2>1. work[t].what = "tx"
    BY <1>x, <1>n DEF UseInv
  <2> QED
    BY <1>x, <2>1, <1>u DEF UseInv, On, HandedOver
<1>14. ASSUME NEW t \in Threads, Begin(t)
       PROVE UseInv'
  <2>1. Moves(t, {"body"})
    BY <1>14, ThreadMoves
  <2>2. /\ UNCHANGED <<sys, log>> /\ tx'.by = t /\ tx'.call = "none" /\ tx'.staged = "nothing"
        /\ work[t].what = "tx"
    BY <1>14 DEF Begin
  <2>3. \A v \in Threads : On(v)' = On(v) /\ work'[v].what = work[v].what
    BY <2>1 DEF Moves, On
  <2> QED
    BY <2>2, <2>3, <1>u, ThreadKinds DEF UseInv, HandedOver
<1>15. ASSUME NEW t \in Threads, Call(t)
       PROVE UseInv'
  <2>1. tx.by = t /\ tx \in TxType
    BY <1>15, <1>n DEF Call
  <2>2. PICK call \in TxCalls[log.use[On(t)]] :
            (call = "erase" => sys.started) /\ tx' = [tx EXCEPT !.call = call, !.ops = @ + 1]
    BY <1>15 DEF Call
  <2>3. tx'.by = t /\ tx'.call = call /\ tx'.staged = tx.staged
    BY <2>1, <2>2 DEF TxType
  <2>4. UNCHANGED <<work, sys, log>> /\ sys.lifecycle = "open"
    BY <1>15 DEF Call, Open
  <2>5. log.use[On(t)] \in Uses
    BY <1>o DEF LogType
  <2>6. /\ log.use[On(t)] \in {"served", "handed"}
        /\ call = "erase" => log.use[On(t)] = "handed" /\ sys.started
    BY <2>2, <2>5, DisciplinedCalls
  <2>7. tx.staged = "deleted" => log.use[On(t)] = "handed" /\ sys.started
    BY <2>1, <1>n DEF UseInv
  <2> QED
    BY <2>1, <2>3, <2>4, <2>6, <2>7, <1>x
<1>16. ASSUME NEW t \in Threads, TxUse(t) \/ TxCreate(t) \/ TxErase(t)
       PROVE UseInv'
  <2>1. tx.by = t /\ tx \in TxType /\ tx.call # "none"
    BY <1>16, <1>n DEF TxUse, TxCreate, TxErase, Calls
  <2>2. UNCHANGED <<work, sys, log>>
    BY <1>16 DEF TxUse, TxCreate, TxErase
  <2>3. tx'.by = t /\ tx'.call = "none"
        /\ (tx'.staged = "deleted" => tx.staged = "deleted" \/ tx.call = "erase")
    BY <1>16, <2>1 DEF TxUse, TxCreate, TxErase, Calls, TxType
  <2>4. /\ log.use[On(t)] \in {"served", "handed"}
        /\ tx.call = "erase" \/ tx.staged = "deleted" => log.use[On(t)] = "handed" /\ sys.started
    BY <2>1, <1>n DEF UseInv
  <2> QED
    BY <2>1, <2>2, <2>3, <2>4, <1>x
<1>17. ASSUME NEW t \in Threads, Commit(t)
       PROVE UseInv'
  <2>1. Moves(t, {"done"})
    BY <1>17, ThreadMoves
  <2>2. tx.by = t /\ tx \in TxType /\ tx' = NoTx
    BY <1>17, <1>n DEF Commit, Calls
  <2>3. /\ sys'.started = sys.started
        /\ \A i \in Ids : sys'.transition[i] = sys.transition[i] \/ (i = On(t) /\ tx.staged = "deleted")
    BY <1>17, <1>o DEF Commit, SysType
  <2>4. log'.use = log.use
    BY <1>17 DEF Commit, LogType
  <2>5. tx.staged = "deleted" => log.use[On(t)] = "handed" /\ sys.started
    BY <2>2, <1>n DEF UseInv
  <2>6. \A v \in Threads : On(v)' = On(v) /\ work'[v].what = work[v].what
    BY <2>1 DEF Moves, On
  <2> QED
    BY <2>2, <2>3, <2>4, <2>5, <2>6, <1>u, ThreadKinds DEF UseInv, HandedOver
<1> QED
  BY <1>1, <1>2, <1>3, <1>4, <1>5, <1>6, <1>7, <1>8, <1>9, <1>10, <1>11, <1>12, <1>13, <1>14,
     <1>15, <1>16, <1>17, <1>n
  DEF Next, Starting, Stopping, Proceeds, Ends

(* What says that two agents never work on one store, with all it rests on. *)
Memory == OneInstance /\ AgentInv /\ StagedInv /\ IdentityInv /\ QuietInv

(* A step that neither publishes, closes or drops an agent, nor writes an   *)
(* identity, nor is a transaction's, keeps it.                              *)
LEMMA MemoryFrame ==
    ASSUME TypeOK, Memory,
           sys'.agents = sys.agents, sys'.transition = sys.transition,
           sys'.lifecycle = sys.lifecycle
               \/ {sys.lifecycle, sys'.lifecycle} \subseteq {"initializing", "open", "closing"},
           \A i \in Threads : inst'[i].state = inst[i].state,
           tx' = tx, db'.exists = db.exists, log'.clash = log.clash,
           \A t \in Threads :
               /\ work'[t].on = work[t].on
               /\ work'[t].what = "tx" <=> work[t].what = "tx"
               /\ work'[t].pc = "drop" <=> work[t].pc = "drop"
               /\ work[t].pc = "drop" => work'[t].agent = work[t].agent
               /\ work[t].what = "tx" /\ work[t].pc = "done" => work'[t].pc = "done"
               /\ work'[t].pc \in {"restore", "load"} => On(t) \in Committed.exists
    PROVE Memory'
<1>1. /\ \A t \in Threads : On(t)' = On(t)
      /\ \A id \in Ids : Agent(id)' = Agent(id) /\ HandedOver(id)' = HandedOver(id)
      /\ Committed'.exists = Committed.exists
  BY DEF On, Agent, HandedOver, Committed
<1>2. tx # NoTx => tx.by \in Threads /\ (tx.ends \in Threads \/ tx.ends = Nobody)
  BY ThreadKinds DEF TypeOK, TxType, Whom
<1>3. OneInstance'
  <2>1. sys'.lifecycle # "closed" => sys.lifecycle # "closed"
    OBVIOUS
  <2> QED
    BY <1>1, <2>1 DEF Memory, OneInstance, Agent, AtWork
<1>4. AgentInv'
  <2>1. \A id \in Ids : Agent(id) # Nobody => Agent(id) \in Threads
    BY AgentIsThread
  <2>2. \A id \in Ids : HandedOver(id) => sys.transition[id] \in Threads
    BY DEF TypeOK, SysType, Whom, HandedOver
  <2>3. \A t \in Threads : work[t].agent # Nobody => work[t].agent \in Threads
    BY DEF TypeOK, WorkType, Whom
  <2>4. \A t \in Threads : On(t) \in Ids
    BY OnIsIdentity
  <2> QED
    BY <1>1, <2>1, <2>2, <2>3, <2>4, ThreadKinds DEF Memory, AgentInv
<1>5. StagedInv'
  <2>1. \A id, i : NoOther(id, i)' <=> NoOther(id, i)
    BY <1>1 DEF NoOther
  <2> QED
    BY <1>1, <1>2, <2>1, OnIsIdentity DEF Memory, StagedInv
<1>6. IdentityInv'
  BY <1>1 DEF Memory, IdentityInv, AgentHasIdentity
<1>7. QuietInv'
  BY <1>1 DEF Memory, QuietInv, ReleasedIsQuiet
<1> QED
  BY <1>3, <1>4, <1>5, <1>6, <1>7 DEF Memory

(* The steps it does not depend on.                                         *)
FrameStep ==
    \/ OpenSystem \/ ReadOwing \/ StartAgents \/ Drain \/ Close
    \/ \E t \in Threads : \/ Admit(t) \/ Await(t) \/ Lock(t) \/ Config(t) \/ ReadConfig(t)
                          \/ Restore(t) \/ Accept(t) \/ CreateProbe(t) \/ Prepare(t)
                          \/ Call(t)
    \/ \E i \in Threads : RunEnds(i)
    \/ UNCHANGED vars

(* They keep it: what they change is no agent's place.                      *)
LEMMA MemoryFrameStep ==
    ASSUME TypeOK, ThreadInv, Memory, FrameStep
    PROVE Memory'
<1> /\ db \in DbType /\ sys \in SysType /\ inst \in [Threads -> AgentType]
    /\ work \in [Threads -> WorkType] /\ log \in LogType
    /\ tx = NoTx \/ tx \in TxType
  BY DEF TypeOK
<1>o. \A t \in Threads : On(t) \in Ids
  BY OnIsIdentity
<1>n. NoTx.by = Nobody /\ Nobody \notin Threads /\ Ids \subseteq Threads
      /\ (tx \in TxType => tx.by \in Threads)
  BY ThreadKinds DEF NoTx, TxType
<1>f. DbFree => tx = NoTx /\ Committed = db
  BY <1>n DEF DbFree, Committed
<1>e. \A t \in Threads : work[t].pc \in {"restore", "load"} => On(t) \in Committed.exists
  BY DEF Memory, IdentityInv
<1>q. ASSUME NEW t \in Threads, NEW pcs, Moves(t, pcs), "drop" \notin pcs,
             work[t].pc \notin {"drop", "done"},
             pcs \cap {"restore", "load"} # {} => On(t) \in Committed.exists,
             sys'.agents = sys.agents, sys'.transition = sys.transition,
             sys'.lifecycle = sys.lifecycle,
             \A i \in Threads : inst'[i].state = inst[i].state,
             tx' = tx, db'.exists = db.exists, log'.clash = log.clash
      PROVE Memory'
  <2>1. \A u \in Threads :
               /\ work'[u].on = work[u].on
               /\ work'[u].what = "tx" <=> work[u].what = "tx"
               /\ work'[u].pc = "drop" <=> work[u].pc = "drop"
               /\ work[u].pc = "drop" => work'[u].agent = work[u].agent
               /\ work[u].what = "tx" /\ work[u].pc = "done" => work'[u].pc = "done"
               /\ work'[u].pc \in {"restore", "load"} => On(u) \in Committed.exists
    BY <1>q, <1>e DEF Moves
  <2> QED
    BY <1>q, <2>1, MemoryFrame
<1>1. CASE OpenSystem \/ Drain \/ Close \/ UNCHANGED vars
  <2>1. /\ UNCHANGED <<db, work, tx, inst, log>> /\ sys'.agents = sys.agents
        /\ sys'.transition = sys.transition
        /\ \/ sys'.lifecycle = sys.lifecycle
           \/ {sys.lifecycle, sys'.lifecycle} \subseteq {"initializing", "open", "closing"}
    BY <1>1 DEF OpenSystem, Drain, Close, Open, SysType, vars
  <2> QED
    BY <2>1, <1>e, MemoryFrame
<1>2. CASE ReadOwing
  <2>1. /\ UNCHANGED <<db, sys, tx, inst, log>>
        /\ \A t \in Ids : work[t].pc = "idle"
    BY <1>2 DEF ReadOwing
  <2>2. /\ \A t \in Callers : work'[t] = work[t]
        /\ \A t \in Ids : /\ work'[t].what \in {"start", "restore"}
                         /\ work'[t].pc \in {"lock", "done"}
                         /\ work'[t].on = work[t].on
    BY <1>2, ReadOwingMoves
  <2>3. \A t \in Ids : work[t].what \in {"start", "restore"}
    BY <1>n DEF ThreadInv, InPlace
  <2>4. \A t \in Threads :
               /\ work'[t].on = work[t].on
               /\ work'[t].what = "tx" <=> work[t].what = "tx"
               /\ work'[t].pc = "drop" <=> work[t].pc = "drop"
               /\ work[t].pc = "drop" => work'[t].agent = work[t].agent
               /\ work[t].what = "tx" /\ work[t].pc = "done" => work'[t].pc = "done"
               /\ work'[t].pc \in {"restore", "load"} => On(t) \in Committed.exists
    BY <2>1, <2>2, <2>3, <1>e, ThreadKinds DEF Threads
  <2> QED
    BY <2>1, <2>4, MemoryFrame
<1>3. CASE StartAgents
  <2>1. /\ UNCHANGED <<db, work, tx, log>> /\ sys'.agents = sys.agents
        /\ sys'.transition = sys.transition
        /\ {sys.lifecycle, sys'.lifecycle} \subseteq {"initializing", "open", "closing"}
    <3>1. sys' = [sys EXCEPT !.started = TRUE]
          \/ sys' = [sys EXCEPT !.started = TRUE, !.lifecycle = "closing"]
      BY <1>3 DEF StartAgents
    <3> QED
      BY <1>3, <3>1 DEF StartAgents, SysType, Open
  <2>2. \A i \in Threads : inst'[i].state = inst[i].state
    <3>1. \A i \in Threads : [inst[i] EXCEPT !.run = ~sys.draining].state = inst[i].state
      BY DEF AgentType
    <3>2. CASE inst' = inst
      BY <3>2
    <3>3. CASE inst' # inst
      BY <1>3, <3>1, <3>3 DEF StartAgents
    <3> QED
      BY <3>2, <3>3
  <2> QED
    BY <2>1, <2>2, <1>e, MemoryFrame
<1>4. ASSUME NEW t \in Threads, Admit(t) \/ Await(t) \/ Config(t) PROVE Memory'
  <2>1. Moves(t, {"await", "lock", "accept", "done", "read"})
    BY <1>4, ThreadMoves DEF Moves
  <2> QED
    BY <1>4, <2>1, <1>q DEF Admit, Await, Config
<1>5. ASSUME NEW t \in Threads, Lock(t) PROVE Memory'
  <2>1. Moves(t, {"config", "probe", "accept", "done"})
    BY <1>5, ThreadMoves
  <2>2. /\ UNCHANGED <<db, tx, inst, log>> /\ sys'.agents = sys.agents
        /\ sys'.transition = sys.transition /\ sys'.lifecycle = sys.lifecycle
        /\ work[t].pc = "lock"
    BY <1>5 DEF Lock, SysType
  <2> QED
    BY <2>1, <2>2, <1>q
<1>6. ASSUME NEW t \in Threads, ReadConfig(t) \/ CreateProbe(t) PROVE Memory'
  <2>2. /\ UNCHANGED <<db, tx, inst, log>> /\ sys'.agents = sys.agents
        /\ sys'.transition = sys.transition /\ sys'.lifecycle = sys.lifecycle
        /\ work[t].pc \in {"read", "probe"}
    BY <1>6, <1>o, UnlockedParts DEF ReadConfig, CreateProbe
  <2>3. CASE On(t) \in db.exists /\ ReadConfig(t)
    <3>1. Moves(t, {"restore", "done"}) /\ On(t) \in Committed.exists
      BY <2>3, <1>f, ThreadMoves DEF ReadConfig
    <3> QED
      BY <2>2, <3>1, <1>q
  <2>4. CASE ~(On(t) \in db.exists /\ ReadConfig(t))
    <3>1. ReadConfig(t) => work'[t].pc = "done"
      BY <2>4, <1>f DEF ReadConfig, Goes, WorkType
    <3>2. Moves(t, {"prepare", "done"})
      BY <1>6, <3>1, ThreadMoves DEF Moves
    <3> QED
      BY <2>2, <3>2, <1>q
  <2> QED
    BY <2>3, <2>4
<1>7. ASSUME NEW t \in Threads, Restore(t) PROVE Memory'
  <2>1. Moves(t, {"load", "accept", "done"})
    BY <1>7, ThreadMoves
  <2>2. /\ UNCHANGED <<db, tx, inst>> /\ sys'.agents = sys.agents
        /\ sys'.transition = sys.transition /\ sys'.lifecycle = sys.lifecycle
        /\ work[t].pc = "restore" /\ log'.clash = log.clash
    <3>1. UNCHANGED <<db, tx, inst>> /\ work[t].pc = "restore"
      BY <1>7, Zenon DEF Restore
    <3> QED
      BY <1>7, <1>o, <3>1, RestoreParts
  <2> QED
    BY <2>1, <2>2, <1>e, <1>q
<1>8. ASSUME NEW t \in Threads, Accept(t) PROVE Memory'
  <2>1. Moves(t, {"done"})
    BY <1>8, ThreadMoves
  <2>2. /\ UNCHANGED <<tx, sys, log>> /\ db'.exists = db.exists /\ work[t].pc = "accept"
        /\ \A i \in Threads : inst'[i].state = inst[i].state
    BY <1>8 DEF Accept, AgentType, DbType
  <2> QED
    BY <2>1, <2>2, <1>q
<1>9. ASSUME NEW t \in Threads, Prepare(t) PROVE Memory'
  <2>1. Moves(t, {"commit"})
    BY <1>9, ThreadMoves
  <2>2. /\ UNCHANGED <<tx, sys, inst>> /\ db'.exists = db.exists /\ work[t].pc = "prepare"
        /\ log'.clash = log.clash
    BY <1>9 DEF Prepare, LogType, DbType
  <2> QED
    BY <2>1, <2>2, <1>q
<1>10. ASSUME NEW i \in Threads, RunEnds(i) PROVE Memory'
  <2>1. /\ UNCHANGED <<tx, sys, work, log>> /\ db'.exists = db.exists
        /\ \A j \in Threads : inst'[j].state = inst[j].state
    BY <1>10 DEF RunEnds, AgentType, DbType
  <2> QED
    BY <2>1, <1>e, MemoryFrame
<1>11. ASSUME NEW t \in Threads, Call(t) PROVE Memory'
  <2>1. tx \in TxType /\ UNCHANGED <<db, sys, inst, work, log>>
    BY <1>11, <1>n DEF Call
  <2>2. tx'.by = tx.by /\ tx'.before = tx.before /\ tx'.staged = tx.staged /\ tx'.ends = tx.ends
    BY <1>11, <2>1 DEF Call, TxType
  <2>3. tx' # NoTx /\ tx # NoTx
    BY <2>1, <2>2, <1>n
  <2>4. OneInstance' /\ AgentInv' /\ QuietInv'
    BY <2>1 DEF Memory, OneInstance, AgentInv, QuietInv, ReleasedIsQuiet, Agent, On, HandedOver
  <2>5. IdentityInv'
    BY <2>1, <2>2 DEF Memory, IdentityInv, AgentHasIdentity, Agent, On, Committed
  <2>6. StagedInv'
    BY <2>1, <2>2, <2>3 DEF Memory, StagedInv, NoOther, Agent, On, HandedOver
  <2> QED
    BY <2>4, <2>5, <2>6 DEF Memory
<1> QED
  BY <1>1, <1>2, <1>3, <1>4, <1>5, <1>6, <1>7, <1>8, <1>9, <1>10, <1>11 DEF FrameStep

(* Where there is no handover, an agent in the map, or a call that deletes, *)
(* nothing is at work on an identity.                                       *)
LEMMA NothingAtWork ==
    ASSUME TypeOK, Memory, NEW id \in Ids,
           sys.lifecycle \notin {"stopping", "closed"}, ~HandedOver(id),
           \A u \in Callers : work[u].pc = "drop" => On(u) # id
    PROVE NoOther(id, Agent(id))
<1> SUFFICES ASSUME NEW j \in Threads \ {Agent(id)}, On(j) = id, inst[j].state \in AtWork
             PROVE FALSE
  BY DEF NoOther
<1>1. CASE inst[j].state = "live"
  BY <1>1 DEF Memory, OneInstance
<1>2. CASE inst[j].state = "closing"
  BY <1>2, ThreadKinds DEF Memory, AgentInv, HandedOver
<1> QED
  BY <1>1, <1>2 DEF AtWork

(* Whoever has the lock of an identity outside transactions meets no        *)
(* handover: identities that are handed over get no such calls.             *)
LEMMA LockedIsNotHandedOver ==
    ASSUME TypeOK, ThreadInv, UseInv, Disciplined, NEW t \in Threads, work[t].pc \in Locked
    PROVE ~HandedOver(On(t))
<1>1. InPlace(t) /\ On(t) \in Ids /\ log.use[On(t)] \in Uses
  BY OnIsIdentity DEF ThreadInv, TypeOK, LogType
<1>2. CASE t \in Ids
  BY <1>1, <1>2 DEF UseInv, InPlace, Locked
<1>3. CASE t \in Callers
  BY <1>1, <1>3, DisciplinedCalls DEF UseInv, InPlace, Locked
<1> QED
  BY <1>2, <1>3 DEF Threads

(* Publishing the one agent of an identity, whoever does it.                *)
LEMMA PublishFrame ==
    ASSUME TypeOK, Memory, NEW t \in Threads,
           Agent(On(t)) = Nobody, NoOther(On(t), t), ~HandedOver(On(t)),
           \A u \in Threads : work[u].pc = "drop" => u # t /\ On(u) # On(t),
           sys'.agents = [sys.agents EXCEPT ![On(t)] = t],
           sys'.transition = sys.transition, sys'.lifecycle = sys.lifecycle,
           \A i \in Threads \ {t} : inst'[i].state = inst[i].state, inst'[t].state = "live",
           log'.clash = log.clash,
           \A u \in Threads \ {t} : work'[u] = work[u],
           work'[t].on = work[t].on, work'[t].pc \in {"accept", "done"},
           work'[t].what = "tx" => work'[t].pc = "done"
    PROVE OneInstance' /\ AgentInv'
<1> DEFINE id == On(t)
<1>o. \A u \in Threads : On(u) \in Ids /\ On(u)' = On(u)
  BY OnIsIdentity DEF On
<1>n. Nobody \notin Threads /\ Ids \subseteq Threads /\ Callers \subseteq Threads
  BY ThreadKinds
<1>1. \A i \in Ids : /\ sys'.agents[i] = IF i = id THEN t ELSE sys.agents[i]
                     /\ sys.agents[i] # Nobody => sys.agents[i] \in Threads
                     /\ sys.transition[i] # Nobody => sys.transition[i] \in Threads
  BY <1>o DEF TypeOK, SysType, Whom
<1> HIDE DEF id
<1>8. OneInstance'
  <2>1. ~log'.clash
    BY DEF Memory, OneInstance
  <2>2. \A i, j \in Threads :
           i # j /\ On(i) = On(j) /\ inst'[i].state \in AtWork => inst'[j].state \notin AtWork
    BY <1>o DEF Memory, OneInstance, NoOther, id
  <2>3. sys.lifecycle # "closed" =>
            \A i \in Threads : inst'[i].state = "live" => sys'.agents[On(i)] = i
    BY <1>1, <1>o DEF Memory, OneInstance, NoOther, id, Agent, AtWork
  <2> QED
    BY <2>1, <2>2, <2>3, <1>o DEF OneInstance, Agent
<1>9. AgentInv'
  <2>1. \A i \in Ids : sys'.agents[i] # Nobody =>
            /\ sys'.agents[i] \in Threads /\ On(sys'.agents[i]) = i
            /\ \/ inst'[sys'.agents[i]].state = "live"
               \/ inst'[sys'.agents[i]].state \in {"closing", "closed"} /\ sys.lifecycle = "stopping"
    BY <1>1, <1>o DEF Memory, AgentInv, Agent, id
  <2>2. \A i \in Threads : inst'[i].state = "closing" =>
            \/ sys'.transition[On(i)] = i
            \/ \E u \in Callers : work'[u].pc = "drop" /\ work'[u].agent = i /\ On(u) = On(i)
            \/ sys.lifecycle = "stopping" /\ sys'.agents[On(i)] = i
    <3> SUFFICES ASSUME NEW i \in Threads, inst'[i].state = "closing",
                        sys.transition[On(i)] # i,
                        ~(sys.lifecycle = "stopping" /\ sys'.agents[On(i)] = i)
                 PROVE \E u \in Callers : work'[u].pc = "drop" /\ work'[u].agent = i /\ On(u) = On(i)
      OBVIOUS
    <3>1. i # t /\ inst[i].state = "closing"
      OBVIOUS
    <3>2. On(i) # id
      BY <3>1 DEF NoOther, AtWork, id
    <3>3. sys'.agents[On(i)] = sys.agents[On(i)]
      BY <3>2, <1>1, <1>o
    <3> QED
      BY <3>1, <3>3, <1>n, <1>o DEF Memory, AgentInv, Agent
  <2>3. \A i \in Ids : sys'.transition[i] # Nobody =>
            /\ sys'.agents[i] = Nobody /\ sys'.transition[i] \in Threads
            /\ On(sys'.transition[i]) = i
            /\ inst'[sys'.transition[i]].state \in {"closing", "closed"}
    BY <1>1, <1>o DEF Memory, AgentInv, Agent, HandedOver, id
  <2>4. \A u \in Threads : work'[u].what = "tx" /\ work'[u].pc # "done" =>
            inst'[u].state \in {"none", "loaded"}
    BY DEF Memory, AgentInv
  <2>5. \A u \in Threads : work'[u].pc = "drop" =>
            /\ sys'.agents[On(u)] = Nobody
            /\ work'[u].agent # Nobody =>
                 /\ On(work'[u].agent) = On(u) /\ work'[u].agent \in Threads
                 /\ inst'[work'[u].agent].state \in {"closing", "closed"}
    <3>1. \A u \in Threads : work[u].agent # Nobody => work[u].agent \in Threads
      BY DEF TypeOK, WorkType, Whom
    <3> QED
      BY <1>1, <1>o, <3>1 DEF Memory, AgentInv, Agent, id
  <2> QED
    BY <2>1, <2>2, <2>3, <2>4, <2>5, <1>o, <1>n DEF AgentInv, Agent, HandedOver, On
<1> QED
  BY <1>8, <1>9

(* Publishing, by a call or by #start.                                      *)
LEMMA PublishStep ==
    ASSUME TypeOK, ThreadInv, UseInv, Disciplined, Memory,
           NEW t \in Threads, work[t].pc \in {"load", "commit"}, DbFree,
           Agent(On(t)) = Nobody,
           sys'.agents = [sys.agents EXCEPT ![On(t)] = t],
           sys'.transition = sys.transition, sys'.lifecycle = sys.lifecycle,
           \A i \in Threads \ {t} : inst'[i] = inst[i], inst'[t].state = "live",
           tx' = tx, db'.exists = db.exists \cup {On(t)}, log'.clash = log.clash,
           Moves(t, {"accept", "done"})
    PROVE Memory'
<1> DEFINE id == On(t)
<1>o. \A u \in Threads : On(u) \in Ids /\ On(u)' = On(u)
  BY OnIsIdentity DEF Moves, On
<1>t. \A u \in Threads : InPlace(u)
  BY DEF ThreadInv
<1>n. Nobody \notin Threads /\ Ids \subseteq Threads /\ Callers \subseteq Threads
  BY ThreadKinds
<1>f. tx = NoTx /\ Committed = db /\ Committed' = db'
  BY ThreadKinds DEF DbFree, TypeOK, TxType, Committed, NoTx
<1>1. sys.lifecycle \notin {"stopping", "closed"} /\ work[t].what # "tx" /\ sys.lock[id] = t
  BY <1>t DEF InPlace, Locked
<1>2. \A u \in Threads : work[u].pc = "drop" => u # t /\ On(u) # id
  BY <1>1, <1>t DEF InPlace, Locked
<1>3. ~HandedOver(id)
  BY LockedIsNotHandedOver DEF Locked
<1>4. NoOther(id, t)
  <2>1. NoOther(id, Nobody)
    BY <1>1, <1>2, <1>3, <1>o, <1>n, NothingAtWork
  <2> QED
    BY <2>1, <1>n DEF NoOther
<1>5. \A i \in Ids : /\ sys'.agents[i] = IF i = id THEN t ELSE sys.agents[i]
                     /\ sys.agents[i] # Nobody => sys.agents[i] \in Threads
                     /\ sys.transition[i] # Nobody => sys.transition[i] \in Threads
  BY <1>o DEF TypeOK, SysType, Whom
<1>6. \A u \in Threads \ {t} : work'[u] = work[u]
  BY DEF Moves
<1>7. work'[t].what # "tx" /\ work'[t].pc \in {"accept", "done"}
  BY <1>1 DEF Moves
<1> HIDE DEF id
<1>8. OneInstance' /\ AgentInv'
  <2>1. \A i \in Threads \ {t} : inst'[i].state = inst[i].state
    OBVIOUS
  <2>2. work'[t].on = work[t].on
    BY DEF Moves
  <2> QED
    BY <1>2, <1>3, <1>4, <1>6, <1>7, <2>1, <2>2, PublishFrame DEF id
<1>9. StagedInv'
  BY <1>f DEF StagedInv
<1>10. IdentityInv'
  <2>1. id \in db'.exists /\ db.exists \subseteq db'.exists
    BY DEF id
  <2> QED
    BY <2>1, <1>f, <1>5, <1>6, <1>7, <1>o DEF Memory, IdentityInv, AgentHasIdentity, Agent, id
<1>11. QuietInv'
  BY <1>1 DEF QuietInv, ReleasedIsQuiet
<1> QED
  BY <1>8, <1>9, <1>10, <1>11 DEF Memory

(* The three steps that may publish.                                        *)
LEMMA MemoryPublishStep ==
    ASSUME TypeOK, ThreadInv, UseInv, Disciplined, Memory, NEW t \in Threads,
           ResolveLoad(t) \/ (t \in Ids /\ StartLoad(t)) \/ CreateCommit(t)
    PROVE Memory'
<1> DEFINE id == On(t)
<1> /\ db \in DbType /\ sys \in SysType /\ inst \in [Threads -> AgentType]
    /\ work \in [Threads -> WorkType] /\ log \in LogType
  BY DEF TypeOK
<1>o. id \in Ids /\ InPlace(t) /\ t \in Whom
  BY OnIsIdentity DEF ThreadInv, Whom
<1>e. \A u \in Threads : work[u].pc \in {"restore", "load"} => On(u) \in Committed.exists
  BY DEF Memory, IdentityInv
<1>f. DbFree => Committed = db
  BY DEF DbFree, Committed
<1>c. ~log.clash /\ \A i \in Ids : Agent(i) # Nobody => i \in Committed.exists
  BY DEF Memory, OneInstance, IdentityInv, AgentHasIdentity
<1>m. Moves(t, {"accept", "done"})
  BY ThreadMoves DEF Moves
<1>q. ASSUME work[t].pc \in {"load", "commit"},
             sys'.agents = sys.agents, sys'.transition = sys.transition,
             sys'.lifecycle = sys.lifecycle, inst' = inst,
             tx' = tx, db'.exists = db.exists, log'.clash = log.clash
      PROVE Memory'
  <2>1. \A u \in Threads :
               /\ work'[u].on = work[u].on
               /\ work'[u].what = "tx" <=> work[u].what = "tx"
               /\ work'[u].pc = "drop" <=> work[u].pc = "drop"
               /\ work[u].pc = "drop" => work'[u].agent = work[u].agent
               /\ work[u].what = "tx" /\ work[u].pc = "done" => work'[u].pc = "done"
               /\ work'[u].pc \in {"restore", "load"} => On(u) \in Committed.exists
    BY <1>q, <1>m, <1>e DEF Moves
  <2> QED
    BY <1>q, <2>1, MemoryFrame
<1>p. \A active, start : Published(active, start).state = "live"
  BY DEF Published
<1>1. CASE ResolveLoad(t) \/ (t \in Ids /\ StartLoad(t))
  <2>1. UNCHANGED <<db, tx>> /\ DbFree /\ work[t].pc = "load"
    BY <1>1 DEF ResolveLoad, StartLoad
  <2>2. /\ sys'.transition = sys.transition /\ sys'.lifecycle = sys.lifecycle
        /\ \/ inst' = inst /\ sys'.agents = sys.agents
           \/ /\ sys'.agents = [sys.agents EXCEPT ![id] = t] /\ Agent(id) = Nobody
              /\ \E active, start \in BOOLEAN :
                     inst' = [inst EXCEPT ![t] = Published(active, start)]
    BY <1>1, <1>o, PublishUnlocks
  <2>3. log'.clash = log.clash
    <3>1. t \in Ids => On(t) = t
      BY <1>o DEF InPlace, On
    <3> QED
      BY <1>1, <3>1 DEF ResolveLoad, StartLoad, LogType, Concurrent
  <2>4. CASE inst' = inst /\ sys'.agents = sys.agents
    BY <2>1, <2>2, <2>3, <2>4, <1>q
  <2>5. CASE sys'.agents = [sys.agents EXCEPT ![id] = t] /\ Agent(id) = Nobody
             /\ \E active, start \in BOOLEAN :
                    inst' = [inst EXCEPT ![t] = Published(active, start)]
    <3>1. \A i \in Threads \ {t} : inst'[i] = inst[i]
      BY <2>5
    <3>2. inst'[t].state = "live"
      BY <2>5, <1>p
    <3>3. db'.exists = db.exists \cup {id}
      BY <1>e, <1>f, <2>1 DEF DbType
    <3> QED
      BY <2>1, <2>2, <2>3, <2>5, <3>1, <3>2, <3>3, <1>m, PublishStep
  <2> QED
    BY <2>2, <2>4, <2>5
<1>2. CASE CreateCommit(t)
  <2> DEFINE u == Unlocked(sys, id)
  <2>1. UNCHANGED tx /\ DbFree /\ work[t].pc = "commit" /\ db'.exists = db.exists \cup {id}
    BY <1>2 DEF CreateCommit, DbType
  <2>2. u \in SysType /\ u.agents = sys.agents /\ u.transition = sys.transition
        /\ u.lifecycle = sys.lifecycle
    BY <1>o, UnlockedParts
  <2>3. CASE id \in db.exists
    <3>1. /\ inst' = inst /\ log'.clash = log.clash /\ sys'.agents = sys.agents
          /\ sys'.transition = sys.transition /\ sys'.lifecycle = sys.lifecycle
      BY <1>2, <2>2, <2>3 DEF CreateCommit, LogType, SysType
    <3> QED
      BY <2>1, <2>3, <3>1, <1>q
  <2>4. CASE id \notin db.exists
    <3>1. Agent(id) = Nobody
      BY <2>1, <2>4, <1>c, <1>f, <1>o
    <3>2. /\ inst' = [inst EXCEPT ![t] = Published(FALSE, FALSE)]
          /\ log'.clash = log.clash
      BY <1>2, <2>4, <3>1 DEF CreateCommit, LogType
    <3>3. /\ sys'.agents = [sys.agents EXCEPT ![id] = t]
          /\ sys'.transition = sys.transition /\ sys'.lifecycle = sys.lifecycle
      <4>1. sys' = [u EXCEPT !.restored = u.restored \cup {id}, !.agents[id] = t]
        BY <1>2, <2>4, <3>1 DEF CreateCommit
      <4> HIDE DEF u
      <4> QED
        BY <4>1, <2>2 DEF SysType
    <3>4. \A i \in Threads \ {t} : inst'[i] = inst[i]
      BY <3>2
    <3>5. inst'[t].state = "live"
      BY <3>2, <1>p
    <3> QED
      BY <2>1, <3>1, <3>2, <3>3, <3>4, <3>5, <1>m, PublishStep
  <2> QED
    BY <2>3, <2>4
<1> QED
  BY <1>1, <1>2

(* A deletion that closes the agent it found.                               *)
LEMMA DeleteCloseStep ==
    ASSUME TypeOK, ThreadInv, UseInv, Disciplined, Memory, NEW t \in Threads, DeleteClose(t)
    PROVE Memory'
<1> DEFINE id == On(t)
           a == Agent(id)
<1>m. Moves(t, {"drop"}) /\ work'[t].agent = a
  BY ThreadMoves
<1>o. \A u \in Threads : On(u) \in Ids /\ On(u)' = On(u)
  BY <1>m, OnIsIdentity DEF Moves, On
<1>t. \A u \in Threads : InPlace(u)
  BY DEF ThreadInv
<1>n. Nobody \notin Threads /\ Ids \subseteq Threads /\ Callers \subseteq Threads
      /\ \A u \in Threads : u \in Callers <=> u \notin Ids
  BY ThreadKinds
<1>1. work[t].pc = "read" /\ work[t].what = "delete" /\ UNCHANGED <<db, tx, log>> /\ DbFree
  BY DEF DeleteClose
<1>f. tx = NoTx /\ Committed = db /\ Committed' = db
  BY <1>1, ThreadKinds DEF DbFree, TypeOK, TxType, Committed, NoTx
<1>2. sys.lifecycle \notin {"stopping", "closed"} /\ sys.lock[id] = t /\ t \in Callers
  BY <1>1, <1>t, <1>n DEF InPlace, Locked
<1>3. /\ \A i \in Ids : /\ sys'.agents[i] = IF i = id THEN Nobody ELSE sys.agents[i]
                        /\ sys.agents[i] # Nobody => sys.agents[i] \in Threads
                        /\ sys.transition[i] # Nobody => sys.transition[i] \in Threads
      /\ sys'.transition = sys.transition /\ sys'.lifecycle = sys.lifecycle
  BY <1>o DEF DeleteClose, TypeOK, SysType, Whom
<1>4. a # Nobody => a \in Threads /\ On(a) = id /\ inst[a].state = "live"
  BY <1>2, <1>3, <1>o DEF Memory, AgentInv, Agent
<1>5. \A i \in Threads : inst'[i].state = IF i = a THEN "closing" ELSE inst[i].state
  BY <1>4, <1>n DEF DeleteClose, TypeOK, AgentType
<1>6. /\ \A u \in Threads \ {t} : work'[u] = work[u]
      /\ work'[t].pc = "drop" /\ work'[t].what = "delete" /\ work'[t].on = work[t].on
  BY <1>m, <1>1 DEF Moves
<1>7. \A u \in Threads : work[u].pc = "drop" => u # t /\ On(u) # id
  BY <1>1, <1>2, <1>t DEF InPlace, Locked
<1>8. \A u \in Threads : work[u].agent # Nobody => work[u].agent \in Threads
  BY DEF TypeOK, WorkType, Whom
<1>i. \A i \in Ids : Agent(i) = sys.agents[i]
  BY DEF Agent
<1> HIDE DEF id, a
<1>9. OneInstance'
  <2>1. \A i, j \in Threads :
           i # j /\ On(i) = On(j) /\ inst'[i].state \in AtWork => inst'[j].state \notin AtWork
    <3>1. \A i \in Threads : inst'[i].state \in AtWork <=> inst[i].state \in AtWork
      BY <1>4, <1>5, <1>n DEF AtWork
    <3> QED
      BY <3>1 DEF Memory, OneInstance
  <2>2. \A i \in Threads : inst'[i].state = "live" => sys'.agents[On(i)] = i
    BY <1>2, <1>3, <1>5, <1>o, <1>i DEF Memory, OneInstance, id, a
  <2> QED
    BY <2>1, <2>2, <1>1, <1>o DEF Memory, OneInstance, Agent
<1>10. AgentInv'
  <2>1. \A i \in Ids : sys'.agents[i] # Nobody =>
            /\ sys'.agents[i] \in Threads
            /\ On(sys'.agents[i]) = i /\ inst'[sys'.agents[i]].state = "live"
    BY <1>2, <1>3, <1>4, <1>5, <1>i DEF Memory, AgentInv
  <2>2. \A i \in Threads : inst'[i].state = "closing" =>
            \/ sys'.transition[On(i)] = i
            \/ \E u \in Callers : work'[u].pc = "drop" /\ work'[u].agent = i /\ On(u) = On(i)
    <3>1. ASSUME NEW i \in Threads, i = a
          PROVE \E u \in Callers : work'[u].pc = "drop" /\ work'[u].agent = i /\ On(u) = On(i)
      BY <3>1, <1>2, <1>4, <1>m, <1>6, <1>n DEF id
    <3>2. ASSUME NEW i \in Threads, i # a, inst[i].state = "closing"
          PROVE \/ sys.transition[On(i)] = i
                \/ \E u \in Callers : work'[u].pc = "drop" /\ work'[u].agent = i /\ On(u) = On(i)
      BY <3>2, <1>2, <1>6, <1>7, <1>n DEF Memory, AgentInv
    <3> QED
      BY <3>1, <3>2, <1>3, <1>5
  <2>3. \A i \in Ids : sys'.transition[i] # Nobody =>
            /\ sys'.agents[i] = Nobody /\ sys'.transition[i] \in Threads
            /\ On(sys'.transition[i]) = i
            /\ inst'[sys'.transition[i]].state \in {"closing", "closed"}
    BY <1>3, <1>5, <1>i DEF Memory, AgentInv, HandedOver
  <2>4. \A u \in Threads : work'[u].what = "tx" /\ work'[u].pc # "done" =>
            inst'[u].state \in {"none", "loaded"}
    BY <1>4, <1>5, <1>6, <1>n DEF Memory, AgentInv
  <2>5. \A u \in Threads : work'[u].pc = "drop" =>
            /\ sys'.agents[On(u)] = Nobody
            /\ work'[u].agent # Nobody =>
                 /\ On(work'[u].agent) = On(u) /\ work'[u].agent \in Threads
                 /\ inst'[work'[u].agent].state \in {"closing", "closed"}
    <3>1. CASE a # Nobody
      BY <1>3, <1>4, <1>5, <1>6, <1>8, <1>m, <1>o, <1>i, <3>1 DEF Memory, AgentInv, id
    <3>2. CASE a = Nobody
      BY <1>3, <1>5, <1>6, <1>8, <1>m, <1>n, <1>o, <1>i, <3>2 DEF Memory, AgentInv, id
    <3> QED
      BY <3>1, <3>2
  <2> QED
    BY <2>1, <2>2, <2>3, <2>4, <2>5, <1>o, <1>n DEF AgentInv, Agent, HandedOver, On
<1>11. StagedInv'
  BY <1>f, <1>1 DEF StagedInv
<1>12. IdentityInv'
  BY <1>1, <1>f, <1>3, <1>6, <1>o, <1>i DEF Memory, IdentityInv, AgentHasIdentity, Agent
<1>13. QuietInv'
  BY <1>2, <1>3 DEF QuietInv, ReleasedIsQuiet
<1> QED
  BY <1>9, <1>10, <1>11, <1>12, <1>13 DEF Memory

(* Steps that only end things: a deletion, a closing agent, a handover, a   *)
(* transaction undone.                                                      *)
LEMMA DeleteDropStep ==
    ASSUME TypeOK, ThreadInv, Memory, NEW t \in Threads, NEW erase \in BOOLEAN,
           DeleteDrop(t, erase)
    PROVE Memory'
<1> DEFINE id == On(t)
<1>m. Moves(t, {"done"})
  BY ThreadMoves
<1>o. \A u \in Threads : On(u) \in Ids /\ On(u)' = On(u)
  BY <1>m, OnIsIdentity DEF Moves, On
<1>t. \A u \in Threads : InPlace(u)
  BY DEF ThreadInv
<1>n. Nobody \notin Threads /\ Ids \subseteq Threads /\ Callers \subseteq Threads
  BY ThreadKinds
<1>1. /\ work[t].pc = "drop" /\ UNCHANGED <<inst, tx>> /\ DbFree
      /\ work[t].agent # Nobody => inst[work[t].agent].state = "closed"
      /\ db'.exists = db.exists \ {id} /\ log'.clash = log.clash
  BY DEF DeleteDrop, TypeOK, DbType, LogType
<1>f. tx = NoTx /\ tx' = NoTx /\ Committed = db /\ Committed' = db'
  BY <1>1, ThreadKinds DEF DbFree, TypeOK, TxType, Committed, NoTx
<1>2. sys'.agents = sys.agents /\ sys'.transition = sys.transition
      /\ sys'.lifecycle = sys.lifecycle
  <2>1. /\ Unlocked(sys, id) \in SysType /\ Unlocked(sys, id).agents = sys.agents
        /\ Unlocked(sys, id).transition = sys.transition
        /\ Unlocked(sys, id).lifecycle = sys.lifecycle
    BY <1>o, UnlockedParts DEF TypeOK
  <2> QED
    BY <2>1 DEF DeleteDrop, SysType
<1>3. \A i \in Ids : /\ sys.agents[i] # Nobody => sys.agents[i] \in Threads
                     /\ sys.transition[i] # Nobody => sys.transition[i] \in Threads
  BY DEF TypeOK, SysType, Whom
<1>4. /\ \A u \in Threads \ {t} : work'[u] = work[u]
      /\ work'[t].pc = "done" /\ work'[t].on = work[t].on
  BY <1>m DEF Moves
<1>5. \A u \in Threads \ {t} : work[u].pc \in Locked => On(u) # id
  BY <1>1, <1>t DEF InPlace, Locked
<1>8. \A u \in Threads : work[u].agent # Nobody => work[u].agent \in Threads
  BY DEF TypeOK, WorkType, Whom
<1>i. \A i \in Ids : Agent(i) = sys.agents[i]
  BY DEF Agent
<1> HIDE DEF id
<1>9. OneInstance'
  BY <1>1, <1>2, <1>o DEF Memory, OneInstance, Agent
<1>10. AgentInv'
  <2>1. \A i \in Threads : inst[i].state = "closing" =>
            \/ sys.transition[On(i)] = i
            \/ \E u \in Callers : work'[u].pc = "drop" /\ work'[u].agent = i /\ On(u) = On(i)
            \/ sys.lifecycle = "stopping" /\ sys.agents[On(i)] = i
    <3> SUFFICES ASSUME NEW i \in Threads, inst[i].state = "closing",
                        NEW u \in Callers, work[u].pc = "drop", work[u].agent = i, On(u) = On(i)
                 PROVE work'[u].pc = "drop" /\ work'[u].agent = i
      BY <1>o, <1>i DEF Memory, AgentInv
    <3>1. u # t
      BY <1>1, <1>n
    <3> QED
      BY <3>1, <1>4, <1>n
  <2>2. \A u \in Threads : work'[u].pc = "drop" => work'[u] = work[u]
    BY <1>4
  <2>3. \A u \in Threads : work'[u].what = "tx" /\ work'[u].pc # "done" =>
            inst[u].state \in {"none", "loaded"}
    BY <1>4 DEF Memory, AgentInv
  <2> QED
    BY <2>1, <2>2, <2>3, <1>1, <1>2, <1>3, <1>8, <1>o, <1>n, <1>i
    DEF Memory, AgentInv, Agent, HandedOver, On
<1>11. StagedInv'
  BY <1>f DEF StagedInv
<1>12. IdentityInv'
  <2>1. Agent(id) = Nobody
    BY <1>1 DEF Memory, AgentInv, id
  <2>2. \A u \in Threads : work'[u].pc \in {"restore", "load"} => On(u) \in db'.exists
    BY <1>1, <1>4, <1>5, <1>f DEF Memory, IdentityInv, Locked
  <2> QED
    BY <2>1, <2>2, <1>1, <1>2, <1>f, <1>o, <1>i DEF Memory, IdentityInv, AgentHasIdentity, Agent
<1>13. QuietInv'
  <2>1. \A u \in Threads : work'[u].what = work[u].what
    BY <1>m DEF Moves
  <2> QED
    BY <2>1, <1>1, <1>2 DEF Memory, QuietInv, ReleasedIsQuiet
<1> QED
  BY <1>9, <1>10, <1>11, <1>12, <1>13 DEF Memory

(* An agent whose close has ended is at work no longer ...                  *)
LEMMA CloseEndsStep ==
    ASSUME TypeOK, Memory, NEW a \in Threads, CloseEnds(a)
    PROVE Memory'
<1>1. UNCHANGED <<db, tx, sys, work, log>> /\ inst[a].state = "closing"
  BY DEF CloseEnds
<1>2. \A i \in Threads : inst'[i].state = IF i = a THEN "closed" ELSE inst[i].state
  BY DEF CloseEnds, TypeOK, AgentType
<1>o. \A u \in Threads : On(u) \in Ids /\ On(u)' = On(u)
  BY <1>1, OnIsIdentity DEF On
<1>3. \A i \in Ids : /\ sys.agents[i] # Nobody => sys.agents[i] \in Threads
                     /\ sys.transition[i] # Nobody => sys.transition[i] \in Threads
  BY DEF TypeOK, SysType, Whom
<1>4. \A u \in Threads : work[u].agent # Nobody => work[u].agent \in Threads
  BY DEF TypeOK, WorkType, Whom
<1>n. Nobody \notin Threads /\ Callers \subseteq Threads
  BY ThreadKinds
<1>5. \A i \in Threads : inst'[i].state \in AtWork => inst[i].state \in AtWork
  BY <1>2 DEF AtWork
<1>6. OneInstance'
  BY <1>1, <1>2, <1>5, <1>o DEF Memory, OneInstance, Agent
<1>7. AgentInv'
  BY <1>1, <1>2, <1>3, <1>4, <1>o, <1>n DEF Memory, AgentInv, Agent, HandedOver, On
<1>8. StagedInv'
  <2> SUFFICES ASSUME tx # NoTx PROVE StagedInv'
    BY <1>1 DEF StagedInv
  <2>1. tx.by \in Threads /\ (tx.ends = Nobody \/ tx.ends \in Threads)
    BY ThreadKinds DEF TypeOK, TxType, Whom
  <2>2. \A id, i : NoOther(id, i) => NoOther(id, i)'
    BY <1>5, <1>1 DEF NoOther, On
  <2> QED
    BY <1>1, <1>2, <1>o, <2>1, <2>2 DEF Memory, StagedInv, Agent, HandedOver
<1>9. IdentityInv'
  BY <1>1 DEF Memory, IdentityInv, AgentHasIdentity, Agent, Committed, On
<1>10. QuietInv'
  BY <1>1, <1>2, <1>5 DEF Memory, QuietInv, ReleasedIsQuiet
<1> QED
  BY <1>6, <1>7, <1>8, <1>9, <1>10 DEF Memory

(* ... and its handover may then end: the identity has no agent by then.    *)
LEMMA FinishHandoverStep ==
    ASSUME TypeOK, Memory, NEW id \in Ids, FinishHandover(id)
    PROVE Memory'
<1>1. /\ UNCHANGED <<tx, inst, work, log>> /\ DbFree /\ db'.exists = db.exists
      /\ sys.transition[id] # Nobody /\ inst[sys.transition[id]].state = "closed"
      /\ sys'.agents = sys.agents /\ sys'.lifecycle = sys.lifecycle
      /\ \A i \in Ids : sys'.transition[i] = IF i = id THEN Nobody ELSE sys.transition[i]
  BY DEF FinishHandover, TypeOK, DbType, SysType
<1>f. tx = NoTx /\ tx' = NoTx /\ Committed = db /\ Committed' = db'
  BY <1>1, ThreadKinds DEF DbFree, TypeOK, TxType, Committed, NoTx
<1>o. \A u \in Threads : On(u) \in Ids /\ On(u)' = On(u)
  BY <1>1, OnIsIdentity DEF On
<1>3. \A i \in Ids : /\ sys.agents[i] # Nobody => sys.agents[i] \in Threads
                     /\ sys.transition[i] # Nobody => sys.transition[i] \in Threads
  BY DEF TypeOK, SysType, Whom
<1>4. \A u \in Threads : work[u].agent # Nobody => work[u].agent \in Threads
  BY DEF TypeOK, WorkType, Whom
<1>n. Nobody \notin Threads /\ Callers \subseteq Threads
  BY ThreadKinds
<1>6. OneInstance'
  BY <1>1, <1>o DEF Memory, OneInstance, Agent
<1>7. AgentInv'
  BY <1>1, <1>3, <1>4, <1>o, <1>n DEF Memory, AgentInv, Agent, HandedOver, On
<1>8. StagedInv'
  BY <1>f DEF StagedInv
<1>9. IdentityInv'
  BY <1>1, <1>f DEF Memory, IdentityInv, AgentHasIdentity, Agent, On
<1>10. QuietInv'
  BY <1>1 DEF Memory, QuietInv, ReleasedIsQuiet
<1> QED
  BY <1>6, <1>7, <1>8, <1>9, <1>10 DEF Memory

(* What is known of a transaction and of its thread.                        *)
LEMMA TxFacts ==
    ASSUME TypeOK, ThreadInv, UseInv, Memory, NEW t \in Threads, tx.by = t
    PROVE /\ tx \in TxType /\ tx # NoTx /\ t \in Callers
          /\ work[t].pc = "body" /\ work[t].what = "tx"
          /\ inst[t].state \in {"none", "loaded"}
          /\ Committed.exists \ {On(t)} = db.exists \ {On(t)}
          /\ On(t) \in Committed.exists /\ tx.staged # "deleted" => On(t) \in db.exists
          /\ tx.staged # "nothing" => ~HandedOver(On(t))
<1>1. tx \in TxType /\ tx # NoTx /\ tx.by # Nobody
  BY ThreadKinds DEF TypeOK, NoTx
<1>2. work[t].pc = "body" /\ work[t].what = "tx"
  BY <1>1 DEF ThreadInv, InPlace, UseInv
<1>3. inst[t].state \in {"none", "loaded"}
  BY <1>2 DEF Memory, AgentInv
<1>4. Committed = tx.before
  BY <1>1 DEF Committed
<1> QED
  BY <1>1, <1>2, <1>3, <1>4 DEF Memory, StagedInv, TxType

(* A transaction's own agent, before it is published, is at work nowhere.   *)
LEMMA TxFrame ==
    ASSUME TypeOK, Memory, NEW t \in Threads,
           inst[t].state \in {"none", "loaded"}, inst'[t].state \in {"none", "loaded"},
           \A i \in Threads \ {t} : inst'[i].state = inst[i].state,
           sys'.agents = sys.agents, sys'.transition = sys.transition,
           sys'.lifecycle = sys.lifecycle, log'.clash = log.clash,
           \A u \in Threads :
               /\ work'[u].on = work[u].on /\ work'[u].what = work[u].what
               /\ work'[u].pc = "drop" <=> work[u].pc = "drop"
               /\ work[u].pc = "drop" => work'[u].agent = work[u].agent
               /\ work[u].what = "tx" /\ work[u].pc = "done" => work'[u].pc = "done"
    PROVE OneInstance' /\ AgentInv' /\ QuietInv'
<1>o. \A u \in Threads : On(u) \in Ids /\ On(u)' = On(u)
  BY OnIsIdentity DEF On
<1>3. \A i \in Ids : /\ sys.agents[i] # Nobody => sys.agents[i] \in Threads
                     /\ sys.transition[i] # Nobody => sys.transition[i] \in Threads
  BY DEF TypeOK, SysType, Whom
<1>4. \A u \in Threads : work[u].agent # Nobody => work[u].agent \in Threads
  BY DEF TypeOK, WorkType, Whom
<1>n. Nobody \notin Threads /\ Callers \subseteq Threads
  BY ThreadKinds
<1>5. \A i \in Threads, s \in {"live", "closing", "closed"} :
          inst'[i].state = s <=> inst[i].state = s
  OBVIOUS
<1>6. OneInstance'
  BY <1>5, <1>o DEF Memory, OneInstance, AtWork, Agent
<1>7. AgentInv'
  <2>1. \A u \in Threads : work'[u].what = "tx" /\ work'[u].pc # "done" =>
            inst'[u].state \in {"none", "loaded"}
    BY DEF Memory, AgentInv
  <2> QED
    BY <2>1, <1>3, <1>4, <1>5, <1>o, <1>n DEF Memory, AgentInv, Agent, HandedOver, On
<1>8. QuietInv'
  BY <1>5 DEF Memory, QuietInv, ReleasedIsQuiet, AtWork
<1> QED
  BY <1>6, <1>7, <1>8

(* A transaction begins with what is committed; undone, it leaves nothing.  *)
LEMMA BeginUndoStep ==
    ASSUME TypeOK, ThreadInv, UseInv, Memory, NEW t \in Threads,
           Begin(t) \/ Refused(t) \/ Rollback(t)
    PROVE Memory'
<1>m. Moves(t, {"body", "done"})
  BY ThreadMoves DEF Moves
<1>o. \A u \in Threads : On(u) \in Ids /\ On(u)' = On(u)
  BY <1>m, OnIsIdentity DEF Moves, On
<1>1. CASE Begin(t)
  <2>1. UNCHANGED <<db, sys, inst, log>> /\ DbFree /\ work[t].what = "tx" /\ work[t].pc = "idle"
        /\ tx'.by = t /\ tx'.before = db /\ tx'.staged = "nothing"
    BY <1>1 DEF Begin
  <2>2. Committed = db /\ Committed' = db
    BY <2>1, ThreadKinds DEF DbFree, Committed
  <2>3. inst[t].state \in {"none", "loaded"}
    BY <2>1 DEF Memory, AgentInv
  <2>4. \A u \in Threads :
               /\ work'[u].on = work[u].on /\ work'[u].what = work[u].what
               /\ work'[u].pc = "drop" <=> work[u].pc = "drop"
               /\ work[u].pc = "drop" => work'[u].agent = work[u].agent
               /\ work[u].what = "tx" /\ work[u].pc = "done" => work'[u].pc = "done"
               /\ work'[u].pc \in {"restore", "load"} => work[u].pc \in {"restore", "load"}
    BY <1>m, <2>1 DEF Moves
  <2>5. OneInstance' /\ AgentInv' /\ QuietInv'
    BY <2>1, <2>3, <2>4, TxFrame
  <2>6. StagedInv'
    BY <2>1 DEF StagedInv
  <2>7. IdentityInv'
    BY <2>1, <2>2, <2>4, <1>o DEF Memory, IdentityInv, AgentHasIdentity, Agent
  <2> QED
    BY <2>5, <2>6, <2>7 DEF Memory
<1>2. CASE Refused(t) \/ Rollback(t)
  <2>1. tx.by = t /\ Undo(t)
    BY <1>2 DEF Refused, Rollback, Calls
  <2>2. /\ tx \in TxType /\ work[t].pc = "body" /\ inst[t].state \in {"none", "loaded"}
    BY <2>1, TxFacts
  <2>3. UNCHANGED <<sys, log>> /\ db' = tx.before /\ tx' = NoTx
        /\ \A i \in Threads \ {t} : inst'[i].state = inst[i].state
    BY <2>1 DEF Undo, TypeOK
  <2>4. inst'[t].state = "none"
    BY <2>1 DEF Undo, TypeOK, NoAgent
  <2>5. Committed = tx.before /\ Committed' = tx.before
    BY <2>1, <2>3, ThreadKinds DEF Committed, NoTx
  <2>6. \A u \in Threads :
               /\ work'[u].on = work[u].on /\ work'[u].what = work[u].what
               /\ work'[u].pc = "drop" <=> work[u].pc = "drop"
               /\ work[u].pc = "drop" => work'[u].agent = work[u].agent
               /\ work[u].what = "tx" /\ work[u].pc = "done" => work'[u].pc = "done"
               /\ work'[u].pc \in {"restore", "load"} => work[u].pc \in {"restore", "load"}
    <3>1. Moves(t, {"done"})
      BY <1>2, ThreadMoves
    <3> QED
      BY <3>1, <2>2 DEF Moves
  <2>7. OneInstance' /\ AgentInv' /\ QuietInv'
    BY <2>2, <2>3, <2>4, <2>6, TxFrame
  <2>8. StagedInv'
    BY <2>3 DEF StagedInv
  <2>9. IdentityInv'
    BY <2>3, <2>5, <2>6, <1>o DEF Memory, IdentityInv, AgentHasIdentity, Agent
  <2> QED
    BY <2>7, <2>8, <2>9 DEF Memory
<1> QED
  BY <1>1, <1>2

(* A call in a transaction that nothing hands over meets no agent but the   *)
(* one in the map.                                                          *)
LEMMA TxMeets ==
    ASSUME TypeOK, ThreadInv, UseInv, Disciplined, Memory, NEW t \in Threads,
           tx.by = t, tx.call # "none", ~HandedOver(On(t))
    PROVE NoOther(On(t), Agent(On(t))) /\ sys.lifecycle \in {"open", "closing"}
<1>1. tx # NoTx /\ On(t) \in Ids
  BY TxFacts, OnIsIdentity
<1>2. log.use[On(t)] \in {"served", "handed"} /\ sys.lifecycle \in {"open", "closing"}
  BY <1>1 DEF UseInv
<1>3. ASSUME NEW u \in Callers, work[u].pc = "drop", On(u) = On(t)
      PROVE FALSE
  <2>1. work[u].what = "delete"
    BY <1>3, ThreadKinds DEF ThreadInv, InPlace
  <2>2. "delete" \in PlainCalls[log.use[On(t)]]
    BY <1>3, <2>1 DEF UseInv
  <2>3. log.use[On(t)] \in Uses
    BY <1>1 DEF TypeOK, LogType
  <2> QED
    BY <1>2, <2>2, <2>3, DisciplinedCalls
<1> QED
  BY <1>1, <1>2, <1>3, NothingAtWork

(* The calls in a transaction.                                              *)
LEMMA TxCallStep ==
    ASSUME TypeOK, ThreadInv, UseInv, Disciplined, Memory, NEW t \in Threads,
           TxUse(t) \/ TxCreate(t) \/ TxErase(t)
    PROVE Memory'
<1> DEFINE id == On(t)
<1>1. /\ tx.by = t /\ tx.call # "none" /\ ~HandedOver(id) /\ ~Refuses(t)
      /\ UNCHANGED <<sys, work, log>>
  BY DEF TxUse, TxCreate, TxErase, Calls
<1>2. /\ tx \in TxType /\ tx # NoTx /\ t \in Callers
      /\ inst[t].state \in {"none", "loaded"}
      /\ Committed.exists \ {id} = db.exists \ {id}
      /\ id \in Committed.exists /\ tx.staged # "deleted" => id \in db.exists
  BY <1>1, TxFacts
<1>3. NoOther(id, Agent(id)) /\ sys.lifecycle \in {"open", "closing"}
  BY <1>1, TxMeets
<1>o. id \in Ids /\ \A u \in Threads : On(u) \in Ids /\ On(u)' = On(u)
  BY <1>1, OnIsIdentity DEF On
<1>n. Nobody \notin Threads
  BY ThreadKinds
<1>4. Agent(id) # Nobody => /\ Agent(id) \in Threads \ {t} /\ On(Agent(id)) = id
                            /\ id \in Committed.exists
  <2>1. Agent(id) # Nobody => On(Agent(id)) = id /\ inst[Agent(id)].state \notin {"none", "loaded"}
                              /\ id \in Committed.exists
    BY <1>o DEF Memory, AgentInv, IdentityInv, AgentHasIdentity
  <2> QED
    BY <2>1, <1>2, <1>o, AgentIsThread
<1>5. Agent(id)' = Agent(id) /\ HandedOver(id)' = HandedOver(id)
  BY <1>1, <1>o DEF Agent, HandedOver
<1>6. /\ tx.staged = "agent" =>
             /\ id \in db.exists
             /\ inst[t].state = "loaded" /\ Agent(id) = Nobody /\ NoOther(id, t)
      /\ tx.staged = "deleted" =>
             /\ id \notin db.exists /\ NoOther(id, tx.ends)
             /\ tx.ends = t => inst[t].state = "loaded"
             /\ tx.ends \notin {t, Nobody} =>
                   /\ On(tx.ends) = id
                   /\ Agent(id) # tx.ends => inst[tx.ends].state = "closed"
             /\ Agent(id) \in {tx.ends, Nobody}
  BY <1>1, <1>2 DEF Memory, StagedInv
<1>7. TxAgent = IF tx.staged = "agent" THEN t ELSE Agent(id)
  BY <1>1 DEF TxAgent
<1>8. \A i \in Threads \ {t} : inst'[i].state = inst[i].state
  BY DEF TxUse, TxCreate, TxErase, TypeOK
<1>9. tx.ends \in Threads \/ tx.ends = Nobody
  BY <1>2 DEF TxType, Whom
<1>w. ASSUME tx' # NoTx, tx'.by = t, tx'.before = tx.before, inst'[t].state \in {"none", "loaded"},
             db'.exists \ {id} = db.exists \ {id},
             tx'.staged \in {"nothing", "agent", "deleted"},
             id \in tx.before.exists /\ tx'.staged # "deleted" => id \in db'.exists,
             tx'.staged = "agent" =>
                 /\ id \in db'.exists
                 /\ inst'[t].state = "loaded" /\ Agent(id) = Nobody /\ NoOther(id, t),
             tx'.staged = "deleted" =>
                 /\ id \notin db'.exists /\ NoOther(id, tx'.ends)
                 /\ tx'.ends = t => inst'[t].state = "loaded"
                 /\ tx'.ends \notin {t, Nobody} =>
                       /\ tx'.ends \in Threads /\ On(tx'.ends) = id
                       /\ Agent(id) # tx'.ends => inst[tx'.ends].state = "closed"
                 /\ Agent(id) \in {tx'.ends, Nobody}
      PROVE Memory'
  <2>1. OneInstance' /\ AgentInv' /\ QuietInv'
    BY <1>w, <1>1, <1>2, <1>8, TxFrame
  <2>2. Committed' = tx.before /\ Committed = tx.before
    BY <1>w, <1>1, <1>n DEF Committed
  <2>3. IdentityInv'
    BY <1>1, <2>2 DEF Memory, IdentityInv, AgentHasIdentity, Agent, On
  <2>4. \A i : NoOther(id, i) => \A j \in Threads \ {i} : On(j)' = id => inst'[j].state \notin AtWork
    BY <1>w, <1>8, <1>o DEF NoOther, AtWork
  <2>5. /\ tx'.staged = "agent" => \A j \in Threads \ {t} : On(j)' = id => inst'[j].state \notin AtWork
        /\ tx'.staged = "deleted" =>
               \A j \in Threads \ {tx'.ends} : On(j)' = id => inst'[j].state \notin AtWork
    BY <1>w, <2>4
  <2>6. StagedInv'
    <3>1. tx'.before.exists \ {id} = db'.exists \ {id}
      BY <1>w, <1>2, <2>2
    <3>2. sys'.lifecycle \notin {"stopping", "closed"}
      BY <1>1, <1>3
    <3> QED
      BY <1>w, <1>1, <1>5, <1>8, <1>o, <2>5, <3>1, <3>2 DEF StagedInv, NoOther
  <2> QED
    BY <2>1, <2>3, <2>6 DEF Memory
<1>10. CASE TxUse(t)
  <2>1. /\ id \in db.exists /\ db'.exists = db.exists
        /\ tx'.by = t /\ tx'.before = tx.before /\ tx'.ends = tx.ends
        /\ tx'.staged = IF TxAgent = Nobody THEN "agent" ELSE tx.staged
    BY <1>1, <1>2, <1>10 DEF TxUse, Refuses, Calls, TypeOK, DbType, TxType
  <2>2. inst'[t].state = IF TxAgent = Nobody THEN "loaded" ELSE inst[t].state
    BY <1>10 DEF TxUse, TypeOK
  <2>3. tx' # NoTx /\ tx'.staged \in {"nothing", "agent"}
    BY <1>2, <1>6, <1>n, <2>1 DEF NoTx, TxType
  <2>4. tx'.staged = "agent" =>
            inst'[t].state = "loaded" /\ Agent(id) = Nobody /\ NoOther(id, t)
    <3>1. CASE tx.staged = "agent"
      BY <3>1, <2>2, <1>2, <1>6, <1>7, <1>n
    <3>2. CASE tx.staged # "agent"
      <4>1. ASSUME Agent(id) = Nobody
            PROVE NoOther(id, t)
        BY <4>1, <1>3, <1>n DEF NoOther
      <4> QED
        BY <3>2, <4>1, <1>6, <1>7, <2>1, <2>2
    <3> QED
      BY <3>1, <3>2
  <2>5. inst'[t].state \in {"none", "loaded"}
    BY <2>2, <1>2
  <2> HIDE DEF id
  <2> QED
    BY <2>1, <2>3, <2>4, <2>5, <1>w
<1>11. CASE TxCreate(t)
  <2>1. /\ id \notin db.exists /\ tx.staged # "deleted"
        /\ db'.exists = db.exists \cup {id}
        /\ tx'.by = t /\ tx'.before = tx.before
        /\ tx'.staged = IF TxAgent = Nobody THEN "agent" ELSE tx.staged
    BY <1>1, <1>2, <1>11 DEF TxCreate, Refuses, Calls, TypeOK, DbType, TxType
  <2>2. Agent(id) = Nobody /\ TxAgent = Nobody
    BY <2>1, <1>2, <1>4, <1>6, <1>7
  <2>3. inst'[t].state = "loaded"
    BY <2>2, <1>11 DEF TxCreate, TypeOK, NoAgent
  <2>4. NoOther(id, t)
    BY <2>2, <1>3, <1>n DEF NoOther
  <2>5. tx' # NoTx
    BY <1>2, <1>n, <2>1 DEF NoTx
  <2> HIDE DEF id
  <2> QED
    BY <2>1, <2>2, <2>3, <2>4, <2>5, <1>w
<1>12. CASE TxErase(t)
  <2>1. /\ db'.exists = db.exists \ {id} /\ inst' = inst
        /\ tx'.by = t /\ tx'.before = tx.before /\ tx'.staged = "deleted"
        /\ tx'.ends = IF tx.staged = "deleted" THEN tx.ends ELSE TxAgent
    BY <1>1, <1>2, <1>12 DEF TxErase, TypeOK, DbType, TxType
  <2>2. NoOther(id, tx'.ends) /\ Agent(id) \in {tx'.ends, Nobody}
    BY <2>1, <1>3, <1>6, <1>7
  <2>3. tx'.ends = t => inst[t].state = "loaded"
    BY <2>1, <1>4, <1>6, <1>7, <1>n
  <2>4. tx'.ends \notin {t, Nobody} =>
            /\ tx'.ends \in Threads /\ On(tx'.ends) = id
            /\ Agent(id) # tx'.ends => inst[tx'.ends].state = "closed"
    BY <2>1, <1>4, <1>6, <1>7, <1>9
  <2>5. tx' # NoTx
    BY <1>2, <1>n, <2>1 DEF NoTx
  <2> HIDE DEF id
  <2> QED
    BY <2>1, <2>2, <2>3, <2>4, <2>5, <1>2, <1>w
<1> QED
  BY <1>10, <1>11, <1>12

(* What a commit makes of the transaction's agents.                         *)
LEMMA CommitParts ==
    ASSUME TypeOK, ThreadInv, UseInv, Memory, NEW t \in Threads, Commit(t)
    PROVE LET id == On(t)
              deleted == tx.staged = "deleted"
              publishes == tx.staged = "agent" /\ Agent(id) = Nobody
          IN  /\ tx.by = t /\ tx' = NoTx /\ db' = db
              /\ sys'.lifecycle = sys.lifecycle
              /\ sys'.agents = [sys.agents EXCEPT ![id] = CommittedAgents(id, deleted, publishes)]
              /\ \A i \in Ids : sys'.transition[i] = IF deleted /\ i = id THEN tx.ends
                                                     ELSE sys.transition[i]
              /\ \A i \in Threads : inst'[i].state =
                     IF deleted /\ i = tx.ends
                     THEN IF inst[i].state = "closed" THEN "closed" ELSE "closing"
                     ELSE IF publishes /\ i = t THEN "live" ELSE inst[i].state
              /\ log'.clash = (log.clash \/ (tx.staged = "agent" /\ ~publishes))
<1> DEFINE id == On(t)
           deleted == tx.staged = "deleted"
           publishes == tx.staged = "agent" /\ Agent(id) = Nobody
<1>1. tx.by = t /\ tx' = NoTx /\ db' = db
  BY DEF Commit, Calls
<1>2. tx \in TxType /\ On(t) \in Ids
  BY <1>1, TxFacts, OnIsIdentity
<1>3. /\ sys'.lifecycle = sys.lifecycle
      /\ sys'.agents = [sys.agents EXCEPT ![id] = CommittedAgents(id, deleted, publishes)]
      /\ \A i \in Ids : sys'.transition[i] = IF deleted /\ i = id THEN tx.ends
                                             ELSE sys.transition[i]
  BY <1>2 DEF Commit, TypeOK, SysType
<1>4. log'.clash = (log.clash \/ (tx.staged = "agent" /\ ~publishes))
  BY DEF Commit, TypeOK, LogType
<1>5. \A i \in Threads : inst'[i].state =
             IF deleted /\ i = tx.ends
             THEN IF inst[i].state = "closed" THEN "closed" ELSE "closing"
             ELSE IF publishes /\ i = t THEN "live" ELSE inst[i].state
  <2> DEFINE Opened == [Published(inst[t].active, tx.start) EXCEPT
                            !.run = @ \/ Activated(t).run]
             Closing(i) == [Activated(i) EXCEPT !.state = IF @ = "closed" THEN @ ELSE "closing"]
  <2>1. Opened.state = "live"
    BY DEF Published
  <2>2. \A i \in Threads : Activated(i).state = inst[i].state
    BY DEF Activated, TypeOK, AgentType
  <2>d. \A i \in Threads : DOMAIN Activated(i) = {"state", "active", "run"}
    BY DEF Activated, TypeOK, AgentType
  <2>3. \A i \in Threads : Closing(i).state = IF inst[i].state = "closed" THEN "closed" ELSE "closing"
    BY <2>2, <2>d
  <2>4. \A i \in Threads : inst'[i] = IF deleted /\ i = tx.ends THEN Closing(i)
                                      ELSE IF publishes /\ i = t THEN Opened
                                      ELSE Activated(i)
    BY DEF Commit
  <2> HIDE DEF Opened, Closing
  <2> QED
    BY <2>1, <2>2, <2>3, <2>4
<1> QED
  BY <1>1, <1>3, <1>4, <1>5

(* A transaction's commit.                                                  *)
LEMMA CommitStep ==
    ASSUME TypeOK, ThreadInv, UseInv, Disciplined, Memory, NEW t \in Threads, Commit(t)
    PROVE Memory'
<1> DEFINE id == On(t)
           deleted == tx.staged = "deleted"
           publishes == tx.staged = "agent" /\ Agent(id) = Nobody
<1>1. /\ tx.by = t /\ tx' = NoTx /\ db' = db
      /\ sys'.lifecycle = sys.lifecycle
      /\ sys'.agents = [sys.agents EXCEPT ![id] = CommittedAgents(id, deleted, publishes)]
      /\ \A i \in Ids : sys'.transition[i] = IF deleted /\ i = id THEN tx.ends
                                             ELSE sys.transition[i]
      /\ \A i \in Threads : inst'[i].state =
             IF deleted /\ i = tx.ends
             THEN IF inst[i].state = "closed" THEN "closed" ELSE "closing"
             ELSE IF publishes /\ i = t THEN "live" ELSE inst[i].state
      /\ log'.clash = (log.clash \/ (tx.staged = "agent" /\ ~publishes))
  BY CommitParts
<1>m. Moves(t, {"done"})
  BY ThreadMoves
<1>o. \A u \in Threads : On(u) \in Ids /\ On(u)' = On(u)
  BY <1>m, OnIsIdentity DEF Moves, On
<1>2. /\ tx \in TxType /\ tx # NoTx /\ t \in Callers
      /\ work[t].pc = "body" /\ work[t].what = "tx"
      /\ inst[t].state \in {"none", "loaded"}
      /\ Committed.exists \ {id} = db.exists \ {id}
      /\ id \in Committed.exists /\ ~deleted => id \in db.exists
      /\ tx.staged # "nothing" => ~HandedOver(id)
  BY <1>1, TxFacts
<1>n. Nobody \notin Threads /\ Ids \subseteq Threads /\ Callers \subseteq Threads
  BY ThreadKinds
<1>3. \A i \in Ids : /\ sys.agents[i] # Nobody => sys.agents[i] \in Threads
                     /\ sys.transition[i] # Nobody => sys.transition[i] \in Threads
  BY DEF TypeOK, SysType, Whom
<1>4. /\ \A u \in Threads \ {t} : work'[u] = work[u]
      /\ work'[t].pc = "done" /\ work'[t].on = work[t].on /\ work'[t].what = "tx"
  BY <1>m, <1>2 DEF Moves
<1>5. Committed' = db
  BY <1>1 DEF Committed, NoTx
<1>6. tx.ends \in Threads \/ tx.ends = Nobody
  BY <1>2 DEF TxType, Whom
<1>7. \A u \in Threads : work[u].agent # Nobody => work[u].agent \in Threads
  BY DEF TypeOK, WorkType, Whom
<1>i. \A i \in Ids : Agent(i) = sys.agents[i]
  BY DEF Agent
<1>8. StagedInv'
  BY <1>1 DEF StagedInv
<1>9. tx.staged # "nothing" => log.use[id] \in {"served", "handed"}
                               /\ \A u \in Threads : work[u].pc = "drop" => u # t /\ On(u) # id
  <2>1. tx.staged # "nothing" => log.use[id] \in {"served", "handed"} /\ log.use[id] \in Uses
    BY <1>1, <1>2, <1>o DEF UseInv, TypeOK, LogType
  <2>2. ASSUME NEW u \in Threads, work[u].pc = "drop", On(u) = id, tx.staged # "nothing"
        PROVE FALSE
    <3>1. work[u].what = "delete" /\ u \in Callers
      BY <2>2, ThreadKinds DEF ThreadInv, InPlace, Threads
    <3>2. "delete" \in PlainCalls[log.use[id]]
      BY <2>2, <3>1 DEF UseInv
    <3> QED
      BY <2>1, <2>2, <3>2, DisciplinedCalls
  <2> QED
    BY <2>1, <2>2, <1>2
<1>10. CASE tx.staged = "nothing"
  <2>1. /\ \A i \in Threads : inst'[i].state = inst[i].state
        /\ sys'.agents = sys.agents /\ log'.clash = log.clash
    BY <1>1, <1>10, <1>o DEF CommittedAgents, Agent, TypeOK, SysType, LogType
  <2>2. sys'.transition = sys.transition
    BY <1>10, <1>o DEF Commit, TypeOK, SysType
  <2>3. \A u \in Threads :
               /\ work'[u].on = work[u].on /\ work'[u].what = work[u].what
               /\ work'[u].pc = "drop" <=> work[u].pc = "drop"
               /\ work[u].pc = "drop" => work'[u].agent = work[u].agent
               /\ work[u].what = "tx" /\ work[u].pc = "done" => work'[u].pc = "done"
               /\ work'[u].pc \in {"restore", "load"} => work[u].pc \in {"restore", "load"}
    BY <1>2, <1>4
  <2>4. OneInstance' /\ AgentInv' /\ QuietInv'
    BY <2>1, <2>2, <2>3, <1>1, <1>2, TxFrame
  <2>5. Committed.exists \subseteq db.exists
    BY <1>2, <1>10
  <2>6. IdentityInv'
    BY <2>1, <2>3, <2>5, <1>5, <1>o DEF Memory, IdentityInv, AgentHasIdentity, Agent
  <2> QED
    BY <2>4, <2>6, <1>8 DEF Memory
<1>11. CASE tx.staged = "agent"
  <2>1. /\ id \in db.exists /\ Agent(id) = Nobody /\ NoOther(id, t)
    BY <1>1, <1>2, <1>11 DEF Memory, StagedInv
  <2>2. /\ sys'.agents = [sys.agents EXCEPT ![id] = t]
        /\ \A i \in Threads \ {t} : inst'[i].state = inst[i].state
        /\ inst'[t].state = "live" /\ log'.clash = log.clash
    BY <1>1, <1>11, <2>1 DEF CommittedAgents, TypeOK, LogType
  <2>3. sys'.transition = sys.transition
    BY <1>11, <1>o DEF Commit, TypeOK, SysType
  <2>4. OneInstance' /\ AgentInv'
    BY <1>1, <1>2, <1>4, <1>9, <1>11, <2>1, <2>2, <2>3, PublishFrame
  <2>5. IdentityInv'
    <3>1. Committed.exists \subseteq db.exists
      BY <1>2, <1>11
    <3>2. \A i \in Ids : sys'.agents[i] = IF i = id THEN t ELSE sys.agents[i]
      BY <2>2, <1>o DEF TypeOK, SysType
    <3>3. \A i \in Ids : sys'.agents[i] # Nobody => i \in db.exists
      BY <3>1, <3>2, <2>1, <1>i DEF Memory, IdentityInv, AgentHasIdentity
    <3>4. \A u \in Threads : work'[u].pc \in {"restore", "load"} => On(u) \in db.exists
      BY <3>1, <1>4 DEF Memory, IdentityInv
    <3> QED
      BY <3>3, <3>4, <1>5, <1>o DEF IdentityInv, AgentHasIdentity, Agent
  <2>6. QuietInv'
    <3>1. \A u \in Threads : work'[u].what = work[u].what
      BY <1>m DEF Moves
    <3> QED
      BY <3>1, <1>1, <1>4, <2>2 DEF Memory, QuietInv, ReleasedIsQuiet, AtWork
  <2> QED
    BY <2>4, <2>5, <2>6, <1>8 DEF Memory
<1>12. CASE tx.staged = "deleted"
  <2> DEFINE e == tx.ends
  <2>1. /\ id \notin db.exists /\ NoOther(id, e)
        /\ e = t => inst[t].state = "loaded"
        /\ e \notin {t, Nobody} =>
              /\ On(e) = id
              /\ Agent(id) # e => inst[e].state = "closed"
              /\ sys.lifecycle \in {"stopping", "closed"} => inst[e].state # "live"
        /\ Agent(id) \in {e, Nobody}
    BY <1>1, <1>2, <1>12 DEF Memory, StagedInv
  <2>2. \A i \in Ids : sys'.agents[i] = IF i = id THEN Nobody ELSE sys.agents[i]
    BY <1>1, <1>12, <2>1, <1>o DEF CommittedAgents, TypeOK, SysType
  <2>3. e # Nobody => On(e) = id /\ e \in Threads
    BY <2>1, <1>6
  <2>4. /\ e # Nobody => inst'[e].state \in {"closing", "closed"}
        /\ \A i \in Threads : /\ i # e => inst'[i].state = inst[i].state
                              /\ inst[i].state = "closed" => inst'[i].state = "closed"
    BY <1>1, <1>6, <1>12
  <2>5. e \notin {t, Nobody} => /\ inst[e].state \in {"live", "closing", "closed"}
                                /\ sys.lifecycle = "closed" => inst[e].state = "closed"
    BY <2>1, <2>3, <1>o DEF Memory, AgentInv
  <2>6. /\ \A i \in Ids : sys'.transition[i] = IF i = id THEN e ELSE sys.transition[i]
        /\ ~log'.clash
    BY <1>1, <1>12 DEF Memory, OneInstance
  <2> HIDE DEF e, id
  <2>7. OneInstance'
    <3>1. \A i, j \in Threads :
             i # j /\ On(i) = On(j) /\ inst'[i].state \in AtWork => inst'[j].state \notin AtWork
      <4> SUFFICES ASSUME NEW i \in Threads, NEW j \in Threads, i # j, On(i) = On(j),
                          inst'[i].state \in AtWork, inst'[j].state \in AtWork
                   PROVE FALSE
        OBVIOUS
      <4>1. CASE i # e /\ j # e
        BY <4>1, <2>4 DEF Memory, OneInstance
      <4>2. CASE i = e
        BY <4>2, <2>1, <2>3, <2>4, <1>n DEF NoOther
      <4>3. CASE j = e
        BY <4>3, <2>1, <2>3, <2>4, <1>n DEF NoOther
      <4> QED
        BY <4>1, <4>2, <4>3
    <3>2. sys.lifecycle # "closed" =>
              \A i \in Threads : inst'[i].state = "live" => sys'.agents[On(i)] = i
      <4> SUFFICES ASSUME NEW i \in Threads, inst'[i].state = "live", sys.lifecycle # "closed"
                   PROVE sys'.agents[On(i)] = i
        OBVIOUS
      <4>1. i # e /\ inst[i].state = "live"
        BY <2>4, <1>n
      <4>2. On(i) # id
        BY <4>1, <2>1 DEF NoOther, AtWork
      <4> QED
        BY <4>1, <4>2, <2>2, <1>o, <1>i DEF Memory, OneInstance
    <3> QED
      BY <3>1, <3>2, <2>6, <1>1, <1>o DEF OneInstance, Agent
  <2>8. AgentInv'
    <3>1. \A i \in Ids : sys'.agents[i] # Nobody =>
              /\ sys'.agents[i] \in Threads /\ On(sys'.agents[i]) = i
              /\ \/ inst'[sys'.agents[i]].state = "live"
                 \/ inst'[sys'.agents[i]].state \in {"closing", "closed"}
                    /\ sys.lifecycle = "stopping"
      BY <2>2, <2>3, <2>4, <1>3, <1>i, <1>n DEF Memory, AgentInv
    <3>2. \A i \in Threads : inst'[i].state = "closing" =>
              \/ sys'.transition[On(i)] = i
              \/ \E u \in Callers : work'[u].pc = "drop" /\ work'[u].agent = i /\ On(u) = On(i)
              \/ sys.lifecycle = "stopping" /\ sys'.agents[On(i)] = i
      <4> SUFFICES ASSUME NEW i \in Threads, inst'[i].state = "closing",
                          sys'.transition[On(i)] # i,
                          ~(sys.lifecycle = "stopping" /\ sys'.agents[On(i)] = i)
                   PROVE \E u \in Callers : work'[u].pc = "drop" /\ work'[u].agent = i /\ On(u) = On(i)
        OBVIOUS
      <4>1. i # e
        BY <2>3, <2>6, <1>n, <1>o
      <4>2. inst[i].state = "closing" /\ On(i) # id
        BY <4>1, <2>1, <2>4 DEF NoOther, AtWork
      <4>3. sys'.agents[On(i)] = sys.agents[On(i)] /\ sys'.transition[On(i)] = sys.transition[On(i)]
        BY <4>2, <2>2, <2>6, <1>o
      <4>4. PICK u \in Callers : work[u].pc = "drop" /\ work[u].agent = i /\ On(u) = On(i)
        BY <4>2, <4>3, <1>o, <1>i DEF Memory, AgentInv
      <4> QED
        BY <4>4, <1>2, <1>4, <1>n
    <3>3. \A i \in Ids : sys'.transition[i] # Nobody =>
              /\ sys'.agents[i] = Nobody /\ sys'.transition[i] \in Threads
              /\ On(sys'.transition[i]) = i
              /\ inst'[sys'.transition[i]].state \in {"closing", "closed"}
      BY <2>2, <2>3, <2>4, <2>6, <1>3, <1>i, <1>n DEF Memory, AgentInv, HandedOver
    <3>4. \A u \in Threads : work'[u].what = "tx" /\ work'[u].pc # "done" =>
              inst'[u].state \in {"none", "loaded"}
      BY <2>4, <2>5, <1>4, <1>n DEF Memory, AgentInv
    <3>5. \A u \in Threads : work'[u].pc = "drop" =>
              /\ sys'.agents[On(u)] = Nobody
              /\ work'[u].agent # Nobody =>
                   /\ On(work'[u].agent) = On(u) /\ work'[u].agent \in Threads
                   /\ inst'[work'[u].agent].state \in {"closing", "closed"}
      BY <2>2, <2>3, <2>4, <1>4, <1>7, <1>9, <1>12, <1>i, <1>o DEF Memory, AgentInv
    <3> QED
      BY <3>1, <3>2, <3>3, <3>4, <3>5, <1>1, <1>o, <1>n DEF AgentInv, Agent, HandedOver, On
  <2>9. IdentityInv'
    <3>1. \A i \in Ids : sys'.agents[i] # Nobody => i \in db.exists
      BY <2>2, <1>2, <1>i DEF Memory, IdentityInv, AgentHasIdentity
    <3>2. ASSUME NEW u \in Threads, work[u].pc \in {"restore", "load"}, On(u) = id
          PROVE FALSE
      <4>1. log.use[id] = "handed" /\ sys.started /\ log.use[id] \in Uses
        BY <1>1, <1>2, <1>12, <1>o DEF UseInv, TypeOK, LogType, id
      <4>2. InPlace(u)
        BY DEF ThreadInv
      <4>3. CASE u \in Ids
        BY <4>1, <4>2, <4>3, <3>2 DEF InPlace
      <4>4. CASE u \in Callers
        <5>1. work[u].what # "tx"
          BY <4>2, <3>2 DEF InPlace
        <5>2. work[u].what \in PlainCalls[log.use[id]]
          BY <4>4, <5>1, <3>2 DEF UseInv
        <5> QED
          BY <4>1, <5>2, DisciplinedCalls
      <4> QED
        BY <4>3, <4>4 DEF Threads
    <3>3. \A u \in Threads : work'[u].pc \in {"restore", "load"} => On(u) \in db.exists
      <4>1. \A u \in Threads : work'[u].pc \in {"restore", "load"} =>
                work[u].pc \in {"restore", "load"} /\ On(u) \in Committed.exists
        BY <1>4 DEF Memory, IdentityInv
      <4> QED
        BY <4>1, <3>2, <1>2
    <3> QED
      BY <3>1, <3>3, <1>5, <1>o DEF IdentityInv, AgentHasIdentity, Agent
  <2>10. QuietInv'
    <3>1. \A u \in Threads : work'[u].what = work[u].what
      BY <1>m DEF Moves
    <3>2. sys.lifecycle = "stopping" =>
              \A i \in Threads : inst'[i].state = "live" => work[i].what = "tx"
      BY <2>4, <1>n DEF Memory, QuietInv
    <3>3. sys.lifecycle = "closed" =>
              \A i \in Threads : inst'[i].state \in AtWork => work[i].what = "tx"
      <4> SUFFICES ASSUME sys.lifecycle = "closed", NEW i \in Threads, inst'[i].state \in AtWork
                   PROVE work[i].what = "tx"
        OBVIOUS
      <4>1. CASE i # e
        BY <4>1, <2>4 DEF Memory, QuietInv, ReleasedIsQuiet
      <4>2. CASE i = e
        BY <4>2, <2>4, <2>5, <1>2, <1>n DEF AtWork
      <4> QED
        BY <4>1, <4>2
    <3> QED
      BY <3>1, <3>2, <3>3, <1>1 DEF QuietInv, ReleasedIsQuiet
  <2> QED
    BY <2>7, <2>8, <2>9, <2>10, <1>8 DEF Memory
<1> QED
  BY <1>2, <1>10, <1>11, <1>12 DEF TxType

(* Shutting down closes every agent in the map ...                          *)
LEMMA CloseAgentsStep ==
    ASSUME TypeOK, Memory, CloseAgents
    PROVE Memory'
<1>1. /\ UNCHANGED <<db, tx, work, log>>
      /\ sys.lifecycle = "closing" /\ sys'.lifecycle = "stopping"
      /\ sys'.agents = sys.agents /\ sys'.transition = sys.transition
      /\ \A t \in Callers : work[t].pc # "drop"
  BY DEF CloseAgents, AllReturned, TypeOK, SysType
<1>o. \A u \in Threads : On(u) \in Ids /\ On(u)' = On(u)
  BY <1>1, OnIsIdentity DEF On
<1>i. \A i \in Ids : Agent(i) = sys.agents[i]
  BY DEF Agent
<1>2. \A i \in Threads : inst'[i].state = IF inst[i].state = "live" THEN "closing" ELSE inst[i].state
  <2>1. \A i \in Threads : inst[i].state = "live" => Agent(On(i)) = i
    BY <1>1 DEF Memory, OneInstance
  <2>2. \A i \in Threads : inst'[i] = IF i \in {Agent(id) : id \in Ids} /\ inst[i].state = "live"
                                      THEN [inst[i] EXCEPT !.state = "closing"] ELSE inst[i]
    BY DEF CloseAgents
  <2>3. \A i \in Threads : inst[i].state = "live" => i \in {Agent(id) : id \in Ids}
    BY <2>1, <1>o
  <2>4. \A i \in Threads : [inst[i] EXCEPT !.state = "closing"].state = "closing"
    BY DEF TypeOK, AgentType
  <2> QED
    BY <2>2, <2>3, <2>4
<1>3. \A i \in Ids : /\ sys.agents[i] # Nobody => sys.agents[i] \in Threads
                     /\ sys.transition[i] # Nobody => sys.transition[i] \in Threads
  BY DEF TypeOK, SysType, Whom
<1>4. \A u \in Threads : work[u].agent # Nobody => work[u].agent \in Threads
  BY DEF TypeOK, WorkType, Whom
<1>n. Nobody \notin Threads /\ Callers \subseteq Threads
  BY ThreadKinds
<1>5. \A i \in Threads : inst'[i].state \in AtWork <=> inst[i].state \in AtWork
  BY <1>2 DEF AtWork
<1>6. OneInstance'
  <2>1. \A i \in Threads : inst'[i].state # "live"
    BY <1>2
  <2> QED
    BY <2>1, <1>1, <1>5, <1>o DEF Memory, OneInstance
<1>7. AgentInv'
  <2>1. \A i \in Threads : inst'[i].state = "closing" =>
            \/ sys.transition[On(i)] = i
            \/ sys.agents[On(i)] = i
    BY <1>1, <1>2, <1>i, <1>o DEF Memory, AgentInv, OneInstance
  <2>2. \A i \in Ids : sys.agents[i] # Nobody =>
            On(sys.agents[i]) = i /\ inst'[sys.agents[i]].state = "closing"
    BY <1>1, <1>2, <1>3, <1>i DEF Memory, AgentInv
  <2> QED
    BY <2>1, <2>2, <1>1, <1>2, <1>3, <1>4, <1>o, <1>n, <1>i
    DEF Memory, AgentInv, Agent, HandedOver, On
<1>8. StagedInv'
  <2> SUFFICES ASSUME tx # NoTx PROVE StagedInv'
    BY <1>1 DEF StagedInv
  <2>1. tx.by \in Threads /\ (tx.ends = Nobody \/ tx.ends \in Threads)
    BY ThreadKinds DEF TypeOK, TxType, Whom
  <2>2. \A id, i : NoOther(id, i) => NoOther(id, i)'
    BY <1>5, <1>1 DEF NoOther, On
  <2> QED
    BY <1>1, <1>2, <1>o, <2>1, <2>2 DEF Memory, StagedInv, Agent, HandedOver
<1>9. IdentityInv'
  BY <1>1 DEF Memory, IdentityInv, AgentHasIdentity, Agent, Committed, On
<1>10. QuietInv'
  BY <1>1, <1>2 DEF QuietInv, ReleasedIsQuiet
<1> QED
  BY <1>6, <1>7, <1>8, <1>9, <1>10 DEF Memory

(* ... and forgets the map when they are closed.                            *)
LEMMA ReleaseStoreStep ==
    ASSUME TypeOK, ThreadInv, Memory, ReleaseStore
    PROVE Memory'
<1>1. /\ UNCHANGED <<db, tx, inst, work, log>>
      /\ sys.lifecycle = "stopping" /\ sys'.lifecycle = "closed"
      /\ sys'.transition = sys.transition /\ \A id \in Ids : sys'.agents[id] = Nobody
      /\ \A i \in Threads : inst[i].state # "closing"
  BY DEF ReleaseStore, TypeOK, SysType
<1>o. \A u \in Threads : On(u) \in Ids /\ On(u)' = On(u)
  BY <1>1, OnIsIdentity DEF On
<1>2. \A u \in Threads : work[u].pc # "drop"
  BY <1>1 DEF ThreadInv, InPlace
<1>3. \A i \in Ids : sys.transition[i] # Nobody => sys.transition[i] \in Threads
  BY DEF TypeOK, SysType, Whom
<1>n. Nobody \notin Threads
  BY ThreadKinds
<1>6. OneInstance'
  BY <1>1, <1>o DEF Memory, OneInstance
<1>7. AgentInv'
  BY <1>1, <1>2, <1>3, <1>o DEF Memory, AgentInv, Agent, HandedOver, On
<1>8. StagedInv'
  <2> SUFFICES ASSUME tx # NoTx PROVE StagedInv'
    BY <1>1 DEF StagedInv
  <2>1. tx.by \in Threads /\ (tx.ends = Nobody \/ tx.ends \in Threads)
    BY ThreadKinds DEF TypeOK, TxType, Whom
  <2>2. \A id, i : NoOther(id, i) => NoOther(id, i)'
    BY <1>1 DEF NoOther, On
  <2>3. tx.staged = "deleted" /\ tx.ends \notin {tx.by, Nobody} => inst[tx.ends].state = "closed"
    <3> SUFFICES ASSUME tx.staged = "deleted", tx.ends \notin {tx.by, Nobody}
                 PROVE inst[tx.ends].state = "closed"
      OBVIOUS
    <3>1. /\ Agent(On(tx.by)) # tx.ends => inst[tx.ends].state = "closed"
          /\ inst[tx.ends].state # "live"
      BY <1>1 DEF Memory, StagedInv
    <3>2. Agent(On(tx.by)) = tx.ends => inst[tx.ends].state \in {"live", "closing", "closed"}
      BY <1>o, <2>1 DEF Memory, AgentInv
    <3> QED
      BY <3>1, <3>2, <1>1, <2>1
  <2> QED
    BY <1>1, <1>o, <2>1, <2>2, <2>3 DEF Memory, StagedInv, Agent, HandedOver
<1>9. IdentityInv'
  BY <1>1 DEF Memory, IdentityInv, AgentHasIdentity, Agent, Committed, On
<1>10. QuietInv'
  BY <1>1 DEF Memory, QuietInv, ReleasedIsQuiet, AtWork
<1> QED
  BY <1>6, <1>7, <1>8, <1>9, <1>10 DEF Memory

(* Every step keeps two agents from working on one store.                   *)
LEMMA MemoryStep ==
    ASSUME TypeOK, ThreadInv, UseInv, Disciplined, Memory, [Next]_vars
    PROVE Memory'
<1>n. Ids \subseteq Threads
  BY ThreadKinds
<1>1. CASE FrameStep
  BY <1>1, MemoryFrameStep
<1>2. CASE CloseAgents
  BY <1>2, CloseAgentsStep
<1>3. CASE ReleaseStore
  BY <1>3, ReleaseStoreStep
<1>4. ASSUME NEW t \in Threads,
             ResolveLoad(t) \/ (t \in Ids /\ StartLoad(t)) \/ CreateCommit(t)
      PROVE Memory'
  BY <1>4, MemoryPublishStep
<1>5. ASSUME NEW t \in Threads, DeleteClose(t) PROVE Memory'
  BY <1>5, DeleteCloseStep
<1>6. ASSUME NEW t \in Threads, NEW erase \in BOOLEAN, DeleteDrop(t, erase) PROVE Memory'
  BY <1>6, DeleteDropStep
<1>7. ASSUME NEW t \in Threads, Begin(t) \/ Refused(t) \/ Rollback(t) PROVE Memory'
  BY <1>7, BeginUndoStep
<1>8. ASSUME NEW t \in Threads, TxUse(t) \/ TxCreate(t) \/ TxErase(t) PROVE Memory'
  BY <1>8, TxCallStep
<1>9. ASSUME NEW t \in Threads, Commit(t) PROVE Memory'
  BY <1>9, CommitStep
<1>10. ASSUME NEW i \in Threads, CloseEnds(i) PROVE Memory'
  BY <1>10, CloseEndsStep
<1>11. ASSUME NEW id \in Ids, FinishHandover(id) PROVE Memory'
  BY <1>11, FinishHandoverStep
<1> QED
  BY <1>1, <1>2, <1>3, <1>4, <1>5, <1>6, <1>7, <1>8, <1>9, <1>10, <1>11, <1>n
  DEF FrameStep, Next, Starting, Stopping, Proceeds, Ends

(* A process starts with no agent, no call and no transaction.              *)
LEMMA SystemInit == Init => UseInv /\ Memory
<1> SUFFICES ASSUME Init PROVE UseInv /\ Memory
  OBVIOUS
<1>1. PICK use \in [Ids -> Uses] :
          /\ log = [use |-> use, restorations |-> [id \in Ids |-> 0], erased |-> {},
                    strays |-> {}, clash |-> FALSE]
          /\ \E whom \in [Callers -> Ids] :
             \E what \in [Callers -> {"tx", "send", "resolve", "create", "delete"}] :
              /\ \A c \in Callers :
                  IF what[c] = "tx" THEN TxCalls[use[whom[c]]] # {}
                  ELSE what[c] \in PlainCalls[use[whom[c]]]
              /\ work = Begun(whom, what)
  BY Zenon DEF Init
<1>c. PICK whom \in [Callers -> Ids],
           what \in [Callers -> {"tx", "send", "resolve", "create", "delete"}] :
          /\ \A c \in Callers :
                IF what[c] = "tx" THEN TxCalls[use[whom[c]]] # {}
                ELSE what[c] \in PlainCalls[use[whom[c]]]
          /\ work = Begun(whom, what)
  BY <1>1, Zenon
<1>2. /\ tx = NoTx /\ sys.lifecycle = "initializing"
      /\ \A id \in Ids : sys.agents[id] = Nobody /\ sys.transition[id] = Nobody
      /\ \A i \in Threads : inst[i].state = "none"
  BY DEF Init, NoAgent
<1>3. /\ \A t \in Threads : work[t].pc = "idle"
      /\ \A c \in Callers : work[c].what = what[c] /\ work[c].on = whom[c]
  BY <1>c, ThreadKinds DEF Begun
<1>4. UseInv
  BY <1>1, <1>c, <1>2, <1>3 DEF UseInv, HandedOver, On
<1>5. Memory
  BY <1>1, <1>2, <1>3, ThreadKinds, OnIsIdentity, TypeInit
  DEF Memory, OneInstance, AgentInv, StagedInv, IdentityInv, AgentHasIdentity, QuietInv,
      ReleasedIsQuiet, AtWork, Agent, HandedOver
<1> QED
  BY <1>4, <1>5

-----------------------------------------------------------------------------
(* What was erased                                                          *)

Aged == {"live", "closing", "closed"}

(* How each step leaves the threads: they keep their identity, and only     *)
(* some steps lead to a message's admission or to a creation's commit.      *)
LEMMA ThreadsGo ==
    ASSUME TypeOK, [Next]_vars
    PROVE \A u \in Threads :
              /\ work'[u].on = work[u].on
              /\ work'[u].pc = "commit" => work'[u] = work[u] \/ Prepare(u)
              /\ work'[u].pc = "accept" =>
                     work'[u] = work[u] \/ Await(u) \/ Lock(u) \/ Restore(u) \/ ResolveLoad(u)
<1> SUFFICES ASSUME NEW u \in Threads
             PROVE /\ work'[u].on = work[u].on
                   /\ work'[u].pc = "commit" => work'[u] = work[u] \/ Prepare(u)
                   /\ work'[u].pc = "accept" =>
                          work'[u] = work[u] \/ Await(u) \/ Lock(u) \/ Restore(u) \/ ResolveLoad(u)
  OBVIOUS
<1>n. Ids \subseteq Threads
  BY ThreadKinds
<1>1. ASSUME NEW t \in Threads, NEW pcs, Moves(t, pcs), t # u PROVE work'[u] = work[u]
  BY <1>1 DEF Moves
<1>2. ASSUME NEW pcs, Moves(u, pcs) PROVE work'[u].on = work[u].on /\ work'[u].pc \in pcs
  BY <1>2 DEF Moves
<1>3. CASE UNCHANGED work
  BY <1>3
<1>4. CASE ReadOwing
  BY <1>4, ReadOwingMoves DEF Threads
<1>5. ASSUME NEW t \in Threads, Await(t) \/ Lock(t) \/ Restore(t) \/ ResolveLoad(t)
      PROVE t # u => work'[u] = work[u]
  BY <1>1, <1>5, ThreadMoves
<1>6. CASE Await(u) \/ Lock(u) \/ Restore(u) \/ ResolveLoad(u)
  <2>1. Moves(u, {"lock", "accept", "done"}) \/ Moves(u, {"config", "probe", "accept", "done"})
        \/ Moves(u, {"load", "accept", "done"}) \/ Moves(u, {"accept", "done"})
    BY <1>6, ThreadMoves
  <2> QED
    BY <1>2, <1>6, <2>1
<1>7. ASSUME NEW t \in Threads, Prepare(t)
      PROVE (t # u => work'[u] = work[u]) /\ (t = u => work'[u].on = work[u].on /\ work'[u].pc = "commit")
  BY <1>1, <1>2, <1>7, ThreadMoves
<1>8. ASSUME NEW t \in Threads,
             \/ Admit(t) \/ Config(t) \/ ReadConfig(t) \/ Accept(t) \/ CreateProbe(t)
             \/ CreateCommit(t) \/ DeleteClose(t) \/ (\E erase \in BOOLEAN : DeleteDrop(t, erase))
             \/ Begin(t) \/ Commit(t) \/ Refused(t) \/ Rollback(t) \/ (t \in Ids /\ StartLoad(t))
      PROVE work'[u] = work[u]
            \/ (work'[u].on = work[u].on /\ work'[u].pc \notin {"accept", "commit"})
  <2>1. \E pcs : Moves(t, pcs) /\ pcs \cap {"accept", "commit"} = {}
    <3>1. Moves(t, {"await"}) \/ Moves(t, {"read"}) \/ Moves(t, {"restore", "done"})
          \/ Moves(t, {"done"}) \/ Moves(t, {"prepare", "done"}) \/ Moves(t, {"drop"})
          \/ Moves(t, {"body"})
      BY <1>8, ThreadMoves
    <3> QED
      BY <3>1
  <2> QED
    BY <1>1, <1>2, <2>1
<1>9. ASSUME NEW t \in Threads, Call(t) \/ TxUse(t) \/ TxCreate(t) \/ TxErase(t) PROVE work' = work
  BY <1>9 DEF Call, TxUse, TxCreate, TxErase
<1>10. ASSUME \/ OpenSystem \/ StartAgents \/ CloseAgents \/ ReleaseStore \/ Drain \/ Close
              \/ (\E id \in Ids : FinishHandover(id)) \/ (\E i \in Threads : RunEnds(i) \/ CloseEnds(i))
              \/ UNCHANGED vars
       PROVE work' = work
  BY <1>10 DEF OpenSystem, StartAgents, CloseAgents, ReleaseStore, Drain, Close, FinishHandover,
               RunEnds, CloseEnds, vars
<1> QED
  BY <1>3, <1>4, <1>5, <1>6, <1>7, <1>8, <1>9, <1>10, <1>n
  DEF Next, Starting, Stopping, Proceeds, Ends

(* The states of the agents: none that lives, closes or is closed becomes   *)
(* anything else, and none leaves its work but by the end of its close.     *)
LEMMA AgentsAge ==
    ASSUME TypeOK, ThreadInv, UseInv, Memory, [Next]_vars
    PROVE \A i \in Threads :
              /\ inst[i].state \in Aged => inst'[i].state \in Aged
              /\ inst[i].state \in AtWork => inst'[i].state \in AtWork \/ CloseEnds(i)
<1> USE DEF Aged, AtWork
<1> /\ inst \in [Threads -> AgentType] /\ sys \in SysType
  BY DEF TypeOK
<1>n. Ids \subseteq Threads
  BY ThreadKinds
<1>o. \A u \in Threads : On(u) \in Ids
  BY OnIsIdentity
<1> DEFINE Q == \A i \in Threads :
              /\ inst[i].state \in Aged => inst'[i].state \in Aged
              /\ inst[i].state \in AtWork => inst'[i].state \in AtWork \/ CloseEnds(i)
<1>1. ASSUME \A i \in Threads : inst'[i].state = inst[i].state PROVE Q
  BY <1>1
<1>2. ASSUME NEW t \in Threads, NEW new, inst' = inst \/ inst' = [inst EXCEPT ![t] = new],
             new.state \in {"live", "closing"} \/ inst[t].state \notin Aged
      PROVE Q
  <2>1. \A i \in Threads \ {t} : inst'[i] = inst[i]
    BY <1>2
  <2>2. inst'[t] = inst[t] \/ inst'[t] = new
    BY <1>2
  <2> QED
    BY <1>2, <2>1, <2>2
<1>3. ASSUME StartAgents PROVE Q
  <2>1. \A i \in Threads : [inst[i] EXCEPT !.run = ~sys.draining].state = inst[i].state
    BY DEF AgentType
  <2>2. CASE inst' = inst
    BY <1>1, <2>2
  <2>3. CASE inst' # inst
    BY <1>1, <1>3, <2>1, <2>3 DEF StartAgents
  <2> QED
    BY <2>2, <2>3
<1>4. ASSUME NEW t \in Threads, Accept(t) \/ RunEnds(t) PROVE Q
  <2>1. \A i \in Threads : inst'[i].state = inst[i].state
    BY <1>4 DEF Accept, RunEnds, AgentType
  <2> QED
    BY <1>1, <2>1
<1>5. ASSUME NEW t \in Threads, ResolveLoad(t) \/ (t \in Ids /\ StartLoad(t)) \/ CreateCommit(t)
      PROVE Q
  <2>1. \A active, start : Published(active, start).state = "live"
    BY DEF Published
  <2>2. \E active, start : inst' = inst \/ inst' = [inst EXCEPT ![t] = Published(active, start)]
    BY <1>5 DEF ResolveLoad, StartLoad, CreateCommit
  <2> QED
    BY <1>2, <2>1, <2>2
<1>6. ASSUME NEW t \in Threads, DeleteClose(t) PROVE Q
  <2>1. inst' = inst \/ (/\ Agent(On(t)) \in Threads
                         /\ inst' = [inst EXCEPT ![Agent(On(t))] = [inst[Agent(On(t))] EXCEPT !.state = "closing"]])
    BY <1>6, <1>o, AgentIsThread DEF DeleteClose
  <2>2. \A i \in Threads : [inst[i] EXCEPT !.state = "closing"].state = "closing"
    BY DEF AgentType
  <2> QED
    BY <1>1, <1>2, <2>1, <2>2
<1>7. ASSUME NEW t \in Threads, tx.by = t PROVE inst[t].state \notin Aged
  BY <1>7, TxFacts
<1>8. ASSUME NEW t \in Threads, TxUse(t) \/ TxCreate(t) PROVE Q
  <2>1. tx.by = t
    BY <1>8 DEF TxUse, TxCreate, Calls
  <2>2. \E new : inst' = inst \/ inst' = [inst EXCEPT ![t] = new]
    BY <1>8 DEF TxUse, TxCreate
  <2> QED
    BY <1>2, <1>7, <2>1, <2>2
<1>9. ASSUME NEW t \in Threads, Refused(t) \/ Rollback(t) PROVE Q
  <2>1. tx.by = t /\ inst' = [inst EXCEPT ![t] = NoAgent]
    BY <1>9 DEF Refused, Rollback, Calls, Undo
  <2> QED
    BY <1>2, <1>7, <2>1
<1>10. ASSUME NEW t \in Threads, Commit(t) PROVE Q
  BY <1>10, CommitParts
<1>11. ASSUME NEW i \in Threads, CloseEnds(i) PROVE Q
  <2>1. \A j \in Threads : inst'[j].state = IF j = i THEN "closed" ELSE inst[j].state
    BY <1>11 DEF CloseEnds, AgentType
  <2> QED
    BY <1>11, <2>1
<1>12. ASSUME CloseAgents PROVE Q
  <2>1. \A i \in Threads : [inst[i] EXCEPT !.state = "closing"].state = "closing"
    BY DEF AgentType
  <2>2. \A i \in Threads : inst'[i] \in {inst[i], [inst[i] EXCEPT !.state = "closing"]}
                           /\ (inst[i].state # "live" => inst'[i] = inst[i])
    BY <1>12 DEF CloseAgents
  <2> QED
    BY <2>1, <2>2
<1>13. ASSUME OpenSystem \/ ReadOwing \/ ReleaseStore \/ Drain \/ Close \/ UNCHANGED vars
       PROVE Q
  <2>1. inst' = inst
    BY <1>13 DEF OpenSystem, ReadOwing, ReleaseStore, Drain, Close, vars
  <2> QED
    BY <1>1, <2>1
<1>14. ASSUME NEW t \in Threads,
              \/ Admit(t) \/ Await(t) \/ Lock(t) \/ Config(t) \/ ReadConfig(t)
              \/ Restore(t) \/ CreateProbe(t) \/ Prepare(t) \/ Call(t)
              \/ (\E erase \in BOOLEAN : DeleteDrop(t, erase)) \/ Begin(t) \/ TxErase(t)
       PROVE Q
  <2>1. inst' = inst
    BY <1>14 DEF Admit, Await, Lock, Config, ReadConfig, Restore, CreateProbe, Prepare, Call,
                 DeleteDrop, Begin, TxErase
  <2> QED
    BY <1>1, <2>1
<1>15. ASSUME NEW id \in Ids, FinishHandover(id) PROVE Q
  BY <1>1, <1>15 DEF FinishHandover
<1>16. Q
  <2> HIDE DEF Q, Aged, AtWork
  <2> QED
    BY <1>3, <1>4, <1>5, <1>6, <1>8, <1>9, <1>10, <1>11, <1>12, <1>13, <1>14, <1>15, <1>n
    DEF Next, Starting, Stopping, Proceeds, Ends
<1> QED
  BY <1>16

(* A message is admitted by an agent at work, which stays so until it is.   *)
LEMMA AcceptStep ==
    ASSUME TypeOK, ThreadInv, UseInv, Memory, AcceptInv, [Next]_vars
    PROVE AcceptInv'
<1> SUFFICES ASSUME NEW u \in Threads, work'[u].pc = "accept"
             PROVE /\ work'[u].agent \in Threads /\ On(work'[u].agent) = On(u)
                   /\ inst'[work'[u].agent].state \in AtWork
  <2>1. \A i \in Threads : On(i)' = On(i)
    BY ThreadsGo DEF On
  <2> QED
    BY <2>1 DEF AcceptInv, On
<1>o. \A i \in Threads : On(i) \in Ids
  BY OnIsIdentity
<1>1. CASE work'[u] = work[u]
  <2>1. /\ work[u].agent \in Threads /\ On(work[u].agent) = On(u)
        /\ inst[work[u].agent].state \in AtWork
    BY <1>1 DEF AcceptInv
  <2>2. ~CloseEnds(work[u].agent)
    BY <1>1 DEF CloseEnds
  <2> QED
    BY <1>1, <2>1, <2>2, AgentsAge
<1>2. ASSUME NEW i \in Threads, HandTo(u, i), On(i) = On(u)
      PROVE /\ work'[u].agent \in Threads /\ On(work'[u].agent) = On(u)
            /\ inst'[work'[u].agent].state \in AtWork
  <2> DEFINE pc == IF work[u].what = "send" /\ inst'[i].state = "live" THEN "accept" ELSE "done"
  <2>1. work'[u].agent = i /\ work'[u].pc = pc
    BY <1>2 DEF HandTo, TypeOK, WorkType
  <2>2. inst'[i].state = "live"
    BY <2>1
  <2> QED
    BY <1>2, <2>1, <2>2 DEF AtWork
<1>3. Agent(On(u)) # Nobody => Agent(On(u)) \in Threads /\ On(Agent(On(u))) = On(u)
  BY <1>o, AgentIsThread DEF Memory, AgentInv
<1>4. ASSUME NEW pc \in {"lock", "config", "probe", "load", "done"}, Goes(u, pc) PROVE FALSE
  BY <1>4, GoesMoves DEF TypeOK, Moves
<1>5. CASE Await(u)
  BY <1>2, <1>3, <1>4, <1>5 DEF Await
<1>6. CASE Lock(u)
  BY <1>2, <1>3, <1>4, <1>6 DEF Lock
<1>7. CASE Restore(u)
  BY <1>2, <1>3, <1>4, <1>7 DEF Restore
<1>8. CASE ResolveLoad(u)
  BY <1>2, <1>3, <1>8 DEF ResolveLoad, Concurrent
<1> QED
  BY <1>1, <1>5, <1>6, <1>7, <1>8, ThreadsGo

(* The use of an identity is chosen once, and only a commit sets an agent   *)
(* astray.                                                                  *)
LEMMA UsesStay ==
    ASSUME TypeOK, [Next]_vars
    PROVE /\ log'.use = log.use /\ log.strays \subseteq log'.strays
          /\ \/ log'.strays = log.strays
             \/ \E t \in Threads : Commit(t) /\ SetsAstray /\ log'.strays = log.strays \cup {On(t)}
<1> DEFINE Same == log'.use = log.use /\ log'.strays = log.strays
<1> log \in LogType
  BY DEF TypeOK
<1>n. Ids \subseteq Threads
  BY ThreadKinds
<1>1. ASSUME \/ OpenSystem \/ ReadOwing \/ StartAgents \/ CloseAgents \/ ReleaseStore
             \/ Drain \/ Close \/ UNCHANGED vars
      PROVE Same
  BY <1>1 DEF OpenSystem, ReadOwing, StartAgents, CloseAgents, ReleaseStore, Drain, Close, vars
<1>2. ASSUME NEW t \in Threads,
             \/ Admit(t) \/ Await(t) \/ Lock(t) \/ Config(t) \/ ReadConfig(t) \/ Restore(t)
             \/ ResolveLoad(t) \/ StartLoad(t) \/ Accept(t) \/ CreateProbe(t) \/ Prepare(t)
             \/ CreateCommit(t) \/ DeleteClose(t) \/ RunEnds(t) \/ CloseEnds(t)
      PROVE Same
  BY <1>2 DEF Admit, Await, Lock, Config, ReadConfig, Restore, ResolveLoad, StartLoad, Accept,
              CreateProbe, Prepare, CreateCommit, DeleteClose, RunEnds, CloseEnds, LogType
<1>3. ASSUME NEW t \in Threads,
             \/ Begin(t) \/ Call(t) \/ TxUse(t) \/ TxCreate(t) \/ TxErase(t)
             \/ Refused(t) \/ Rollback(t)
      PROVE Same
  BY <1>3 DEF Begin, Call, TxUse, TxCreate, TxErase, Refused, Rollback, Undo
<1>4. ASSUME NEW t \in Threads, Commit(t)
      PROVE /\ log'.use = log.use
            /\ log'.strays = IF SetsAstray THEN log.strays \cup {On(t)} ELSE log.strays
  BY <1>4 DEF Commit, LogType
<1>5. ASSUME NEW t \in Threads, NEW erase \in BOOLEAN, DeleteDrop(t, erase)
      PROVE Same
  BY <1>5 DEF DeleteDrop, LogType
<1>6. ASSUME NEW id \in Ids, FinishHandover(id) PROVE Same
  BY <1>6 DEF FinishHandover
<1> HIDE DEF Same
<1>7. Same \/ \E t \in Threads : Commit(t)
  BY <1>1, <1>2, <1>3, <1>5, <1>6, <1>n DEF Next, Starting, Stopping, Proceeds, Ends
<1> QED
  BY <1>4, <1>7 DEF Same

(* The steps that leave the transaction as it is write to the database only *)
(* when there is none.                                                      *)
LEMMA TxKinds ==
    ASSUME [Next]_vars
    PROVE \/ tx' = tx /\ (db' = db \/ DbFree)
          \/ \E t \in Threads : \/ Begin(t) \/ Call(t) \/ TxUse(t) \/ TxCreate(t) \/ TxErase(t)
                                \/ Refused(t) \/ Rollback(t) \/ Commit(t)
<1> DEFINE Q == tx' = tx /\ (db' = db \/ DbFree)
<1>n. Ids \subseteq Threads
  BY ThreadKinds
<1>1. ASSUME \/ OpenSystem \/ ReadOwing \/ StartAgents \/ CloseAgents \/ ReleaseStore
             \/ Drain \/ Close \/ UNCHANGED vars
      PROVE Q
  BY <1>1 DEF OpenSystem, ReadOwing, StartAgents, CloseAgents, ReleaseStore, Drain, Close, vars
<1>2. ASSUME NEW t \in Threads,
             \/ Admit(t) \/ Await(t) \/ Lock(t) \/ Config(t) \/ ReadConfig(t) \/ Restore(t)
             \/ ResolveLoad(t) \/ StartLoad(t) \/ Accept(t) \/ CreateProbe(t) \/ Prepare(t)
             \/ CreateCommit(t) \/ DeleteClose(t) \/ RunEnds(t) \/ CloseEnds(t)
             \/ \E erase \in BOOLEAN : DeleteDrop(t, erase)
      PROVE Q
  BY <1>2 DEF Admit, Await, Lock, Config, ReadConfig, Restore, ResolveLoad, StartLoad, Accept,
              CreateProbe, Prepare, CreateCommit, DeleteClose, DeleteDrop, RunEnds, CloseEnds
<1>3. ASSUME NEW id \in Ids, FinishHandover(id) PROVE Q
  BY <1>3 DEF FinishHandover
<1> HIDE DEF Q
<1>4. Q \/ \E t \in Threads : \/ Begin(t) \/ Call(t) \/ TxUse(t) \/ TxCreate(t) \/ TxErase(t)
                              \/ Refused(t) \/ Rollback(t) \/ Commit(t)
  BY <1>1, <1>2, <1>3, <1>n DEF Next, Starting, Stopping, Proceeds, Ends
<1> QED
  BY <1>4 DEF Q

(* The shutdown tells the agents to leave once, and does not take it back.  *)
LEMMA StoppedStays ==
    ASSUME TypeOK, [Next]_vars
    PROVE Stopped' <=> Stopped \/ CloseAgents
<1> USE DEF Stopped
<1> sys \in SysType
  BY DEF TypeOK
<1>n. Ids \subseteq Threads
  BY ThreadKinds
<1> DEFINE Q == ~CloseAgents => (Stopped' <=> Stopped)
<1>1. ASSUME sys'.lifecycle = sys.lifecycle PROVE Q
  BY <1>1
<1>2. ASSUME OpenSystem \/ StartAgents \/ ReleaseStore \/ Close PROVE Q
  BY <1>2 DEF OpenSystem, StartAgents, ReleaseStore, Close, Open, SysType
<1>3. ASSUME ReadOwing \/ Drain \/ UNCHANGED vars PROVE Q
  BY <1>1, <1>3 DEF ReadOwing, Drain, vars, SysType
<1>4. ASSUME NEW t \in Threads,
             \/ Admit(t) \/ Await(t) \/ Lock(t) \/ Config(t) \/ ReadConfig(t) \/ Restore(t)
             \/ ResolveLoad(t) \/ StartLoad(t) \/ Accept(t) \/ CreateProbe(t) \/ Prepare(t)
             \/ CreateCommit(t) \/ DeleteClose(t) \/ RunEnds(t) \/ CloseEnds(t)
             \/ \E erase \in BOOLEAN : DeleteDrop(t, erase)
      PROVE Q
  <2>1. sys'.lifecycle = sys.lifecycle
    BY <1>4 DEF Admit, Await, Lock, Config, ReadConfig, Restore, ResolveLoad, StartLoad, Accept,
       CreateProbe, Prepare, CreateCommit, DeleteClose, DeleteDrop, RunEnds, CloseEnds, Unlocked,
       SysType
  <2> QED
    BY <1>1, <2>1
<1>5. ASSUME NEW t \in Threads,
             \/ Begin(t) \/ Call(t) \/ TxUse(t) \/ TxCreate(t) \/ TxErase(t)
             \/ Refused(t) \/ Rollback(t) \/ Commit(t)
      PROVE Q
  <2>1. sys'.lifecycle = sys.lifecycle
    BY <1>5 DEF Begin, Call, TxUse, TxCreate, TxErase, Refused, Rollback, Undo, Commit, SysType
  <2> QED
    BY <1>1, <2>1
<1>6. ASSUME NEW id \in Ids, FinishHandover(id) PROVE Q
  <2>1. sys'.lifecycle = sys.lifecycle
    BY <1>6 DEF FinishHandover, SysType
  <2> QED
    BY <1>1, <2>1
<1>7. Q
  <2>1. CloseAgents => Q
    OBVIOUS
  <2> HIDE DEF Q, Stopped
  <2> QED
    BY <2>1, <1>2, <1>3, <1>4, <1>5, <1>6, <1>n DEF Next, Starting, Stopping, Proceeds, Ends
<1>8. CloseAgents => Stopped'
  BY DEF CloseAgents, SysType
<1> QED
  BY <1>7, <1>8

(* Agents take up work, and enter and leave the map, where nobody has the   *)
(* database or at a commit; the shutdown empties the map at its end.        *)
LEMMA MapKinds ==
    ASSUME TypeOK, [Next]_vars
    PROVE \/ DbFree \/ ReleaseStore \/ \E t \in Threads : Commit(t)
          \/ /\ sys'.agents = sys.agents
             /\ \A i \in Threads : inst'[i].state \in AtWork => inst[i].state \in AtWork
<1> USE DEF AtWork
<1> /\ inst \in [Threads -> AgentType] /\ sys \in SysType
  BY DEF TypeOK
<1>n. Ids \subseteq Threads
  BY ThreadKinds
<1> DEFINE Q == /\ sys'.agents = sys.agents
                /\ \A i \in Threads : inst'[i].state \in AtWork => inst[i].state \in AtWork
<1>1. ASSUME OpenSystem \/ ReadOwing \/ StartAgents \/ CloseAgents \/ Drain \/ Close
             \/ UNCHANGED vars
      PROVE Q
  <2>1. sys'.agents = sys.agents
    BY <1>1 DEF OpenSystem, ReadOwing, StartAgents, CloseAgents, Drain, Close, vars, SysType
  <2>2. CASE StartAgents
    <3>1. \A i \in Threads : [inst[i] EXCEPT !.run = ~sys.draining].state = inst[i].state
      BY DEF AgentType
    <3>2. \A i \in Threads : inst'[i] \in {inst[i], [inst[i] EXCEPT !.run = ~sys.draining]}
      BY <2>2 DEF StartAgents
    <3> QED
      BY <2>1, <3>1, <3>2
  <2>3. CASE CloseAgents
    <3>1. \A i \in Threads : inst'[i] = inst[i] \/ inst[i].state = "live"
      BY <2>3 DEF CloseAgents
    <3> QED
      BY <2>1, <3>1
  <2>4. CASE OpenSystem \/ ReadOwing \/ Drain \/ Close \/ UNCHANGED vars
    BY <2>1, <2>4 DEF OpenSystem, ReadOwing, Drain, Close, vars
  <2> QED
    BY <1>1, <2>2, <2>3, <2>4
<1>2. ASSUME NEW t \in Threads,
             \/ Admit(t) \/ Await(t) \/ Lock(t) \/ Config(t) \/ ReadConfig(t) \/ Restore(t)
             \/ Call(t) \/ TxErase(t)
      PROVE Q
  BY <1>2 DEF Admit, Await, Lock, Config, ReadConfig, Restore, Call, TxErase, Unlocked, SysType
<1>3. ASSUME NEW t \in Threads, TxUse(t) \/ TxCreate(t) \/ Refused(t) \/ Rollback(t) PROVE Q
  <2>1. \E new : (inst' = inst \/ inst' = [inst EXCEPT ![t] = new])
                 /\ new.state \in {"none", "loaded"}
    BY <1>3 DEF TxUse, TxCreate, Refused, Rollback, Undo, NoAgent
  <2> QED
    BY <1>3, <2>1 DEF TxUse, TxCreate, Refused, Rollback, Undo
<1>4. ASSUME NEW i \in Threads, CloseEnds(i) PROVE Q
  <2>1. \A j \in Threads : inst'[j] = inst[j] \/ inst'[j].state = "closed"
    BY <1>4 DEF CloseEnds, AgentType
  <2> QED
    BY <1>4, <2>1 DEF CloseEnds
<1>5. ASSUME NEW id \in Ids, FinishHandover(id) PROVE Q \/ DbFree
  BY <1>5 DEF FinishHandover, SysType
<1>6. ASSUME NEW t \in Threads,
             \/ ResolveLoad(t) \/ StartLoad(t) \/ Accept(t) \/ CreateProbe(t) \/ Prepare(t)
             \/ CreateCommit(t) \/ DeleteClose(t) \/ RunEnds(t) \/ Begin(t)
             \/ \E erase \in BOOLEAN : DeleteDrop(t, erase)
      PROVE DbFree
  BY <1>6 DEF ResolveLoad, StartLoad, Accept, CreateProbe, Prepare, CreateCommit, DeleteClose,
     RunEnds, Begin, DeleteDrop
<1> HIDE DEF Q
<1>7. ASSUME NEW t \in Threads, ReadConfig(t) PROVE Q \/ DbFree
  BY <1>7 DEF ReadConfig
<1>8. Q \/ DbFree \/ ReleaseStore \/ \E t \in Threads : Commit(t)
  BY <1>1, <1>2, <1>3, <1>4, <1>5, <1>6, <1>7, <1>n DEF Next, Starting, Stopping, Proceeds, Ends
<1> QED
  BY <1>8 DEF Q

(* What a transaction sent to was live, or is what it has loaded itself; and*)
(* no other agent takes its place before the transaction ends.              *)
LEMMA SentStep ==
    ASSUME TypeOK, ThreadInv, UseInv, Memory, SentInv, [Next]_vars
    PROVE SentInv'
<1>n. Nobody \notin Threads /\ Ids \subseteq Threads
  BY ThreadKinds
<1>o. \A u \in Threads : On(u) \in Ids /\ On(u)' = On(u)
  BY OnIsIdentity, ThreadsGo DEF On
<1>1. tx # NoTx => /\ tx \in TxType /\ tx.by \in Threads /\ ~DbFree
                   /\ tx.sent \in Threads \/ tx.sent = Nobody
  BY ThreadKinds DEF TypeOK, TxType, Whom, DbFree
<1>s. ~Stopped' => ~Stopped
  BY StoppedStays
<1>2. ASSUME tx' = tx, db' = db \/ DbFree PROVE SentInv'
  <2>1. SUFFICES ASSUME tx # NoTx, tx.sent # Nobody, tx.sent # tx.by
                 PROVE LET id == On(tx.by)
                       IN  /\ \A j \in Threads \ {tx.sent} :
                                  On(j) = id => inst'[j].state \notin AtWork
                           /\ inst'[tx.sent].state \in {"live", "closing", "closed"}
                           /\ ~Stopped' => sys'.agents[id] = tx.sent
    BY <1>1, <1>2, <1>o DEF SentInv, Agent, NoOther, Owes
  <2>2. db' = db
    BY <1>1, <1>2, <2>1
  <2>3. /\ On(tx.sent) = On(tx.by) /\ NoOther(On(tx.by), tx.sent)
        /\ inst[tx.sent].state \in {"live", "closing", "closed"}
        /\ ~Stopped => sys.agents[On(tx.by)] = tx.sent
    BY <2>1 DEF SentInv, Agent
  <2>4. ASSUME NEW t \in Threads PROVE ~Commit(t)
    BY <1>2, <2>1 DEF Commit
  <2>5. ReleaseStore => /\ Stopped' /\ inst' = inst
    BY DEF ReleaseStore, Stopped, TypeOK, SysType
  <2>6. /\ ~Stopped' => sys'.agents = sys.agents
        /\ \A i \in Threads : inst'[i].state \in AtWork => inst[i].state \in AtWork
    BY <1>1, <2>1, <2>4, <2>5, MapKinds
  <2>7. inst'[tx.sent].state \in {"live", "closing", "closed"}
    BY <1>1, <2>1, <2>3, AgentsAge DEF Aged
  <2>8. \A j \in Threads \ {tx.sent} : On(j) = On(tx.by) => inst'[j].state \notin AtWork
    BY <2>3, <2>6 DEF NoOther
  <2> QED
    BY <1>s, <2>3, <2>6, <2>7, <2>8
<1>3. ASSUME NEW t \in Threads, Begin(t) PROVE SentInv'
  <2>1. tx'.sent = Nobody
    BY <1>3 DEF Begin
  <2> QED
    BY <2>1 DEF SentInv
<1>4. ASSUME NEW t \in Threads, Call(t) \/ TxUse(t) \/ TxCreate(t) \/ TxErase(t) PROVE SentInv'
  <2> PICK id \in Ids : id = On(t)
    BY <1>o
  <2>y. tx.by = t
    BY <1>4 DEF Call, TxUse, TxCreate, TxErase, Calls
  <2>1. tx.by = t /\ tx # NoTx
    BY <2>y, <1>n DEF NoTx
  <2>2. /\ tx \in TxType /\ t \in Threads /\ inst[t].state \in {"none", "loaded"}
        /\ tx.staged \in {"agent"} => id \in db.exists
        /\ tx.staged = "deleted" => id \notin db.exists
        /\ id \in Committed.exists /\ tx.staged # "deleted" => id \in db.exists
    BY <2>1, TxFacts DEF Memory, StagedInv
  <2>3. tx'.by = t /\ work' = work /\ sys' = sys
    BY <1>4, <2>1, <2>2 DEF Call, TxUse, TxCreate, TxErase, TxType
  <2>4. TxAgent = IF tx.staged = "agent" THEN t ELSE Agent(id)
    BY <2>1 DEF TxAgent
  <2>5. ~Stopped
    <3>1. CASE Call(t)
      BY <3>1 DEF Call, Open, Stopped
    <3>2. CASE ~Call(t)
      BY <1>4, <2>1, <3>2 DEF UseInv, TxUse, TxCreate, TxErase, Calls, Stopped
    <3> QED
      BY <3>1, <3>2
  <2>x. PICK new : (inst' = inst \/ inst' = [inst EXCEPT ![t] = new]) /\ new.state = "loaded"
    <3>1. [NoAgent EXCEPT !.state = "loaded"].state = "loaded"
      BY DEF NoAgent
    <3>2. \A active : [state |-> "loaded", active |-> active, run |-> FALSE].state = "loaded"
      OBVIOUS
    <3>3. \E active : inst' \in {inst, [inst EXCEPT ![t] = [state |-> "loaded", active |-> active, run |-> FALSE]],
                                 [inst EXCEPT ![t] = [NoAgent EXCEPT !.state = "loaded"]]}
      BY <1>4 DEF Call, TxUse, TxCreate, TxErase
    <3> QED
      BY <3>1, <3>2, <3>3
  <2>i. inst \in [Threads -> AgentType]
    BY DEF TypeOK
  <2>6. \A i \in Threads : i # t => inst'[i] = inst[i]
    BY <2>x, <2>i
  <2>a. \A i \in Threads : inst'[i].state \in AtWork => inst[i].state \in AtWork
    <3>1. inst'[t] = inst[t] \/ inst'[t] = new
      BY <2>x, <2>i
    <3>2. inst'[t] = new => inst'[t].state = "loaded"
      BY <2>x
    <3> QED
      BY <2>6, <3>1, <3>2 DEF AtWork
  <2>7. \A i : Agent(id) = i /\ i # Nobody =>
            /\ i \in Threads /\ On(i) = id /\ inst[i].state = "live" /\ i # t
            /\ NoOther(id, i)
    BY <2>1, <2>2, <2>5, AgentIsThread, <1>o
    DEF Memory, AgentInv, OneInstance, NoOther, Stopped, AtWork
  <2>8. /\ tx.sent = t => tx.staged = "agent" \/ (tx.staged = "deleted" /\ tx.ends = t)
        /\ tx.sent \notin {t, Nobody} =>
               /\ Agent(id) = tx.sent
               /\ \/ tx.staged = "nothing" /\ id \in db.exists /\ db.store[id] = "owed"
                  \/ tx.staged = "deleted" /\ tx.ends = tx.sent
    BY <1>n, <2>1, <2>5 DEF SentInv, Owes
  <2>9. SUFFICES
          /\ tx'.sent = t => tx'.staged = "agent" \/ (tx'.staged = "deleted" /\ tx'.ends = t)
          /\ tx'.sent \notin {t, Nobody} =>
                 /\ Agent(id) = tx'.sent
                 /\ \/ tx'.staged = "nothing" /\ id \in db'.exists /\ db'.store[id] = "owed"
                    \/ tx'.staged = "deleted" /\ tx'.ends = tx'.sent
    <3>1. ASSUME tx'.sent \notin {t, Nobody}, Agent(id) = tx'.sent
          PROVE /\ On(tx'.sent) = id /\ tx'.sent \in Threads
                /\ \A j \in Threads \ {tx'.sent} : On(j) = id => inst'[j].state \notin AtWork
                /\ inst'[tx'.sent].state = "live"
      BY <3>1, <2>6, <2>7, <2>a DEF NoOther
    <3> QED
      BY <2>3, <2>9, <3>1 DEF SentInv, Agent, On, NoOther, Owes
  <2>10. CASE Call(t)
    <3>1. tx'.sent = tx.sent /\ tx'.staged = tx.staged /\ tx'.ends = tx.ends /\ db' = db
      BY <2>2, <2>10 DEF Call, TxType
    <3> QED
      BY <2>8, <3>1
  <2>11. CASE TxUse(t)
    <3>1. ~Refuses(t) /\ tx.staged # "deleted"
      BY <2>1, <2>2, <2>11 DEF TxUse, Refuses, Calls
    <3>2. /\ tx'.staged = IF TxAgent = Nobody THEN "agent" ELSE tx.staged
          /\ tx'.sent = IF tx.call = "send" THEN (IF TxAgent = Nobody THEN t ELSE TxAgent) ELSE tx.sent
          /\ tx'.ends = tx.ends
      BY <2>2, <2>11 DEF TxUse, TxType
    <3>3. /\ db'.store[id] = IF tx.call = "send" THEN "owed" ELSE db.store[id]
          /\ db'.exists = db.exists /\ id \in db.exists
      BY <2>1, <2>11 DEF TxUse, Refuses, Calls, TypeOK, DbType
    <3> QED
      BY <1>n, <2>2, <2>4, <2>7, <2>8, <3>1, <3>2, <3>3 DEF TxType
  <2>12. CASE TxCreate(t)
    <3>1. id \notin db.exists /\ tx.staged # "deleted"
      BY <2>1, <2>12 DEF TxCreate, Refuses, Calls
    <3>2. Agent(id) = Nobody
      BY <2>1, <2>2, <3>1 DEF Memory, IdentityInv, AgentHasIdentity
    <3>3. tx.sent = Nobody
      BY <2>2, <2>8, <3>1, <3>2
    <3>4. tx'.sent = tx.sent
      BY <2>2, <2>12 DEF TxCreate, TxType
    <3> QED
      BY <1>n, <3>3, <3>4
  <2>13. CASE TxErase(t)
    <3>1. /\ tx'.sent = tx.sent /\ tx'.staged = "deleted"
          /\ tx'.ends = IF tx.staged = "deleted" THEN tx.ends ELSE TxAgent
      BY <2>2, <2>13 DEF TxErase, TxType
    <3> QED
      BY <2>4, <2>8, <3>1
  <2> QED
    BY <1>4, <2>10, <2>11, <2>12, <2>13
<1>5. ASSUME NEW t \in Threads, Refused(t) \/ Rollback(t) \/ Commit(t) PROVE SentInv'
  BY <1>5 DEF Refused, Rollback, Undo, Commit, SentInv
<1> QED
  BY <1>2, <1>3, <1>4, <1>5, TxKinds

(* What a step does to an agent's run, where only an agent at work is set   *)
(* going.                                                                   *)
Kept(i) == inst'[i] = inst[i] \/ ~inst'[i].run \/ inst'[i].state \in AtWork

(* A transaction's commit sets one that is closed going.                    *)
Astray(i) ==
    /\ i = tx.sent /\ inst[i].state = "closed" /\ inst'[i].state = "closed"
    /\ Activated(i).run

(* Only an agent at work is set going, but by a commit the one it sent to.  *)
LEMMA RunsGo ==
    ASSUME TypeOK, ThreadInv, UseInv, Memory, AcceptInv, SentInv, [Next]_vars
    PROVE \/ \A i \in Threads : Kept(i)
          \/ \E t \in Threads : Commit(t) /\ \A i \in Threads : Kept(i) \/ Astray(i)
<1> DEFINE Q == \A i \in Threads : Kept(i)
<1> /\ inst \in [Threads -> AgentType] /\ sys \in SysType
  BY DEF TypeOK
<1>n. Ids \subseteq Threads
  BY ThreadKinds
<1>o. \A u \in Threads : On(u) \in Ids
  BY OnIsIdentity
<1>1. ASSUME \A i \in Threads : \/ inst'[i] = inst[i]
                               \/ ~inst'[i].run
                               \/ inst'[i].state \in AtWork
      PROVE Q
  BY <1>1 DEF Kept
<1>2. ASSUME inst' = inst PROVE Q
  BY <1>2 DEF Kept
<1>3. ASSUME NEW t \in Threads, NEW new, inst' = inst \/ inst' = [inst EXCEPT ![t] = new],
             ~new.run \/ new.state \in AtWork
      PROVE Q
  <2>1. \A i \in Threads \ {t} : inst'[i] = inst[i]
    BY <1>3
  <2>2. inst'[t] = inst[t] \/ inst'[t] = new
    BY <1>3
  <2> QED
    BY <1>1, <1>3, <2>1, <2>2
<1>4. ASSUME StartAgents PROVE Q
  <2>1. CASE inst' = inst
    BY <1>2, <2>1
  <2>2. CASE inst' # inst
    <3>1. \A i \in Threads : [inst[i] EXCEPT !.run = ~sys.draining].state = inst[i].state
      BY DEF AgentType
    <3>2. \A i \in Threads :
              \/ inst'[i] = inst[i]
              \/ (inst'[i] = [inst[i] EXCEPT !.run = ~sys.draining] /\ inst[i].state = "live")
      BY <1>4, <2>2 DEF StartAgents
    <3> QED
      BY <1>1, <3>1, <3>2 DEF AtWork
  <2> QED
    BY <2>1, <2>2
<1>5. ASSUME NEW t \in Threads, ResolveLoad(t) \/ (t \in Ids /\ StartLoad(t)) \/ CreateCommit(t)
      PROVE Q
  <2>1. \A active, start : Published(active, start).state = "live"
    BY DEF Published
  <2>2. \E active, start : inst' = inst \/ inst' = [inst EXCEPT ![t] = Published(active, start)]
    BY <1>5 DEF ResolveLoad, StartLoad, CreateCommit
  <2> QED
    BY <1>3, <2>1, <2>2 DEF AtWork
<1>6. ASSUME NEW t \in Threads, Accept(t) PROVE Q
  <2> DEFINE a == work[t].agent
             new == [inst[a] EXCEPT !.run = inst[a].run \/ ~sys.draining]
  <2>1. a \in Threads /\ inst[a].state \in AtWork
    BY <1>6 DEF Accept, AcceptInv
  <2>2. inst' = [inst EXCEPT ![a] = new]
    BY <1>6 DEF Accept
  <2>3. new.state \in AtWork
    BY <2>1 DEF AgentType
  <2> HIDE DEF new, a
  <2> QED
    BY <1>3, <2>1, <2>2, <2>3
<1>7. ASSUME NEW t \in Threads, DeleteClose(t) PROVE Q
  <2>1. inst' = inst \/ (/\ Agent(On(t)) \in Threads
                         /\ inst' = [inst EXCEPT ![Agent(On(t))] = [inst[Agent(On(t))] EXCEPT !.state = "closing"]])
    BY <1>7, <1>o, AgentIsThread DEF DeleteClose
  <2>2. \A i \in Threads : [inst[i] EXCEPT !.state = "closing"].state = "closing"
    BY DEF AgentType
  <2> QED
    BY <1>2, <1>3, <2>1, <2>2 DEF AtWork
<1>8. ASSUME NEW t \in Threads, TxUse(t) \/ TxCreate(t) \/ Refused(t) \/ Rollback(t) PROVE Q
  <2>1. \A active : ~[state |-> "loaded", active |-> active, run |-> FALSE].run
    OBVIOUS
  <2>2. ~NoAgent.run /\ ~[NoAgent EXCEPT !.state = "loaded"].run
    BY DEF NoAgent
  <2>3. \E active : inst' \in {inst, [inst EXCEPT ![t] = [state |-> "loaded", active |-> active, run |-> FALSE]],
                              [inst EXCEPT ![t] = NoAgent],
                              [inst EXCEPT ![t] = [NoAgent EXCEPT !.state = "loaded"]]}
    BY <1>8 DEF TxUse, TxCreate, Refused, Rollback, Undo
  <2> QED
    BY <1>3, <2>1, <2>2, <2>3
<1>9. ASSUME NEW t \in Threads, Commit(t) PROVE \A i \in Threads : Kept(i) \/ Astray(i)
  <2> DEFINE id == On(t)
             deleted == tx.staged = "deleted"
             publishes == tx.staged = "agent" /\ Agent(id) = Nobody
             Opened == [Published(inst[t].active, tx.start) EXCEPT !.run = @ \/ Activated(t).run]
             Closing(i) == [Activated(i) EXCEPT !.state = IF @ = "closed" THEN @ ELSE "closing"]
  <2>1. Opened.state = "live"
    BY DEF Published
  <2>2. \A i \in Threads : /\ Activated(i).state = inst[i].state
                           /\ i # tx.sent => Activated(i) = inst[i]
                           /\ DOMAIN Activated(i) = {"state", "active", "run"}
    BY DEF Activated, AgentType
  <2>3. \A i \in Threads : /\ Closing(i).state = IF inst[i].state = "closed" THEN "closed" ELSE "closing"
                           /\ Closing(i).run = Activated(i).run
                           /\ Closing(i).active = Activated(i).active
    BY <2>2
  <2>4. \A i \in Threads : inst'[i] = IF deleted /\ i = tx.ends THEN Closing(i)
                                      ELSE IF publishes /\ i = t THEN Opened
                                      ELSE Activated(i)
    BY <1>9 DEF Commit
  <2>5. tx.by = t /\ tx # NoTx /\ Nobody \notin Threads
    BY <1>9, TxFacts, ThreadKinds DEF Commit, Calls
  <2>6. tx.staged = "agent" => publishes
    BY <2>5 DEF Memory, StagedInv
  <2>7. ASSUME NEW i \in Threads, i = tx.sent, ~(deleted /\ i = tx.ends), ~(publishes /\ i = t)
        PROVE inst[i].state \in {"live", "closing", "closed"}
    BY <2>5, <2>6, <2>7 DEF SentInv
  <2> HIDE DEF Opened, Closing, deleted, publishes
  <2>8. SUFFICES ASSUME NEW i \in Threads PROVE Kept(i) \/ Astray(i)
    OBVIOUS
  <2>9. CASE deleted /\ i = tx.ends
    <3>1. inst'[i] = Closing(i)
      BY <2>4, <2>9
    <3>2. CASE inst[i].state # "closed"
      BY <2>3, <3>1, <3>2 DEF Kept, AtWork
    <3>3. CASE inst[i].state = "closed" /\ i = tx.sent
      BY <2>3, <3>1, <3>3 DEF Kept, Astray
    <3>4. CASE inst[i].state = "closed" /\ i # tx.sent
      <4>1. Closing(i) = inst[i]
        BY <2>2, <3>4 DEF Closing, AgentType
      <4> QED
        BY <3>1, <4>1 DEF Kept
    <3> QED
      BY <3>2, <3>3, <3>4
  <2>10. CASE ~(deleted /\ i = tx.ends) /\ publishes /\ i = t
    BY <2>1, <2>4, <2>10 DEF Kept, AtWork
  <2>11. CASE ~(deleted /\ i = tx.ends) /\ ~(publishes /\ i = t)
    <3>1. inst'[i] = Activated(i)
      BY <2>4, <2>11
    <3> QED
      BY <2>2, <2>7, <2>11, <3>1 DEF Kept, Astray, AtWork
  <2> QED
    BY <2>9, <2>10, <2>11
<1>10. ASSUME NEW i \in Threads, RunEnds(i) PROVE Q
  <2>1. ~[inst[i] EXCEPT !.run = FALSE].run
    BY DEF AgentType
  <2> QED
    BY <1>3, <1>10, <2>1 DEF RunEnds
<1>11. ASSUME NEW i \in Threads, CloseEnds(i) PROVE Q
  <2>1. ~[inst[i] EXCEPT !.state = "closed"].run
    BY <1>11 DEF CloseEnds, AgentType
  <2> QED
    BY <1>3, <1>11, <2>1 DEF CloseEnds
<1>12. ASSUME CloseAgents PROVE Q
  <2>1. \A i \in Threads : [inst[i] EXCEPT !.state = "closing"].state = "closing"
    BY DEF AgentType
  <2>2. \A i \in Threads : inst'[i] \in {inst[i], [inst[i] EXCEPT !.state = "closing"]}
    BY <1>12 DEF CloseAgents
  <2> QED
    BY <1>1, <2>1, <2>2 DEF AtWork
<1>13. ASSUME OpenSystem \/ ReadOwing \/ ReleaseStore \/ Drain \/ Close \/ UNCHANGED vars
       PROVE Q
  BY <1>2, <1>13 DEF OpenSystem, ReadOwing, ReleaseStore, Drain, Close, vars
<1>14. ASSUME NEW t \in Threads,
              \/ Admit(t) \/ Await(t) \/ Lock(t) \/ Config(t) \/ ReadConfig(t)
              \/ Restore(t) \/ CreateProbe(t) \/ Prepare(t) \/ Call(t)
              \/ (\E erase \in BOOLEAN : DeleteDrop(t, erase)) \/ Begin(t) \/ TxErase(t)
       PROVE Q
  BY <1>2, <1>14 DEF Admit, Await, Lock, Config, ReadConfig, Restore, CreateProbe, Prepare, Call,
                     DeleteDrop, Begin, TxErase
<1>15. ASSUME NEW id \in Ids, FinishHandover(id) PROVE Q
  BY <1>2, <1>15 DEF FinishHandover
<1> HIDE DEF Q
<1>16. Q \/ \E t \in Threads : Commit(t)
  BY <1>4, <1>5, <1>6, <1>7, <1>8, <1>10, <1>11, <1>12, <1>13, <1>14, <1>15, <1>n
  DEF Next, Starting, Stopping, Proceeds, Ends
<1> QED
  BY <1>9, <1>16 DEF Q

(* What is said of runs stays true: a stray is set going by the last commit *)
(* of a transaction that has sent to it, and only after the shutdown.       *)
LEMMA RunStep ==
    ASSUME TypeOK, ThreadInv, UseInv, Memory, RunInv, AcceptInv, SentInv, [Next]_vars
    PROVE RunInv'
<1>o. \A u \in Threads : On(u)' = On(u)
  BY ThreadsGo DEF On
<1>r. log.strays \subseteq log'.strays
  BY UsesStay
<1>1. ASSUME NEW i \in Threads, Kept(i) PROVE Stray(i)' => Stray(i)
  BY <1>1 DEF Kept, Stray, AtWork
<1>2. ASSUME NEW i \in Threads, inst'[i].run, Kept(i) \/ Astray(i)
      PROVE inst'[i].state \in AtWork \/ Stray(i)'
  BY <1>2 DEF Kept, Astray, Stray, RunInv
<1>3. ASSUME NEW t \in Threads, Commit(t), NEW i \in Threads,
             i = tx.sent, inst[i].state = "closed", Activated(i).run
      PROVE /\ Stopped /\ On(i) = On(t) /\ log.strays = {}
            /\ log'.strays = log.strays \cup {On(t)}
  <2>1. tx.by = t /\ tx # NoTx /\ i # Nobody
    BY <1>3, TxFacts, ThreadKinds DEF Commit, Calls
  <2>2. i # t
    BY <1>3, <2>1, TxFacts
  <2>3. On(i) = On(t) /\ (~Stopped => Agent(On(t)) = i)
    BY <1>3, <2>1, <2>2 DEF SentInv
  <2>4. Stopped
    <3>1. Agent(On(t)) = i => inst[i].state = "live" \/ Stopped
      BY <2>1, OnIsIdentity DEF Memory, AgentInv, Stopped
    <3> QED
      BY <1>3, <2>3, <3>1
  <2>5. SetsAstray
    BY <1>3 DEF SetsAstray
  <2>6. log.strays = {}
    BY <1>3, <2>1 DEF RunInv
  <2>7. log'.strays = log.strays \cup {On(t)}
    BY <1>3, <2>5 DEF Commit, TypeOK, LogType
  <2> QED
    BY <2>3, <2>4, <2>6, <2>7
<1>4. log'.strays # {} => Stopped'
  <2>1. CASE log'.strays = log.strays
    BY <2>1, StoppedStays DEF RunInv
  <2>2. CASE \E t \in Threads : Commit(t) /\ SetsAstray
    BY <1>3, <2>2, StoppedStays DEF SetsAstray
  <2> QED
    BY <2>1, <2>2, UsesStay
<1>5. log'.strays # {} /\ tx' # NoTx => tx'.staged = "nothing" /\ tx'.sent = Nobody
  <2>1. ASSUME NEW t \in Threads, Refused(t) \/ Rollback(t) \/ Commit(t) PROVE tx' = NoTx
    BY <2>1 DEF Refused, Rollback, Undo, Commit
  <2>2. ASSUME NEW t \in Threads, Begin(t) PROVE tx'.staged = "nothing" /\ tx'.sent = Nobody
    BY <2>2 DEF Begin
  <2>3. ASSUME log.strays # {}, NEW t \in Threads,
               Call(t) \/ TxUse(t) \/ TxCreate(t) \/ TxErase(t)
        PROVE FALSE
    <3>1. Stopped
      BY <2>3 DEF RunInv
    <3>2. CASE Call(t)
      BY <3>1, <3>2 DEF Call, Open, Stopped
    <3>3. CASE TxUse(t) \/ TxCreate(t) \/ TxErase(t)
      <4>1. tx.call # "none" /\ tx # NoTx
        BY <3>3, ThreadKinds DEF TxUse, TxCreate, TxErase, Calls, NoTx
      <4> QED
        BY <3>1, <4>1 DEF UseInv, Stopped
    <3> QED
      BY <2>3, <3>2, <3>3
  <2>4. log.strays # {} => \/ tx' = tx \/ tx' = NoTx
                           \/ tx'.staged = "nothing" /\ tx'.sent = Nobody
    BY <2>1, <2>2, <2>3, TxKinds
  <2>5. log.strays # {} \/ log'.strays = log.strays \/ tx' = NoTx
    BY <2>1, UsesStay
  <2> QED
    BY <2>4, <2>5 DEF RunInv
<1>6. \A i \in Threads : (Stray(i))' => Stray(i) \/ \E t \in Threads : Commit(t) /\ Astray(i)
  BY <1>1, RunsGo
<1>7. \A i \in Threads : inst'[i].run => inst'[i].state \in AtWork \/ (Stray(i))'
  BY <1>2, RunsGo
<1>8. ASSUME NEW i \in Threads, (Stray(i))' PROVE On(i)' \in log'.strays
  <2>1. CASE Stray(i)
    BY <1>o, <1>r, <2>1 DEF RunInv
  <2>2. CASE \E t \in Threads : Commit(t) /\ Astray(i)
    BY <1>3, <1>o, <2>2 DEF Astray
  <2> QED
    BY <1>6, <1>8, <2>1, <2>2
<1>9. ASSUME NEW i \in Threads, NEW j \in Threads, (Stray(i))', (Stray(j))' PROVE i = j
  <2>1. CASE Stray(i) /\ Stray(j)
    BY <2>1 DEF RunInv
  <2>2. CASE \E t \in Threads : Commit(t) /\ Astray(i)
    <3>1. log.strays = {}
      BY <1>3, <2>2 DEF Astray
    <3>2. ~Stray(j)
      BY <3>1 DEF RunInv
    <3> QED
      BY <1>6, <1>9, <2>2, <3>2 DEF Astray
  <2>3. CASE \E t \in Threads : Commit(t) /\ Astray(j)
    <3>1. log.strays = {}
      BY <1>3, <2>3 DEF Astray
    <3>2. ~Stray(i)
      BY <3>1 DEF RunInv
    <3> QED
      BY <1>6, <1>9, <2>3, <3>2 DEF Astray
  <2> QED
    BY <1>6, <1>9, <2>1, <2>2, <2>3
<1>10. (\A i \in Threads : Stray(i) => On(i) \in log.strays)'
  BY <1>8
<1>11. (\A i, j \in Threads : Stray(i) /\ Stray(j) => i = j)'
  BY <1>9
<1>12. (\A i \in Threads : inst[i].run => inst[i].state \in AtWork \/ Stray(i))'
  BY <1>7
<1> QED
  BY <1>4, <1>5, <1>10, <1>11, <1>12 DEF RunInv

(* What a transaction has written is of its identity.                       *)
LEMMA WrittenStep ==
    ASSUME TypeOK, ThreadInv, UseInv, Memory, WrittenInv, [Next]_vars
    PROVE WrittenInv'
<1>n. Nobody \notin Threads /\ Ids \subseteq Threads
  BY ThreadKinds
<1>o. \A u \in Threads : On(u) \in Ids /\ On(u)' = On(u)
  BY OnIsIdentity, ThreadsGo DEF On
<1>d. DbFree => tx = NoTx
  BY ThreadKinds DEF DbFree, TypeOK, TxType
<1>b. tx # NoTx => tx \in TxType /\ tx.by \in Threads
  BY ThreadKinds DEF TypeOK, TxType
<1>1. ASSUME tx' = NoTx PROVE WrittenInv'
  BY <1>1 DEF WrittenInv
<1>2. ASSUME tx' = tx, db' = db \/ DbFree PROVE WrittenInv'
  BY <1>2, <1>b, <1>d, <1>o DEF WrittenInv
<1>3. ASSUME NEW t \in Threads, Begin(t) PROVE WrittenInv'
  <2>1. db' = db /\ tx'.before = db /\ tx'.staged = "nothing"
    BY <1>3 DEF Begin
  <2> QED
    BY <2>1 DEF WrittenInv
<1>4. ASSUME NEW t \in Threads, Call(t) PROVE WrittenInv'
  <2>1. tx # NoTx
    BY <1>4, <1>n DEF Call, NoTx
  <2>2. tx'.by = tx.by /\ tx'.before = tx.before /\ tx'.staged = tx.staged /\ db' = db
    BY <1>4, <1>b, <2>1 DEF Call, TxType
  <2> QED
    BY <2>1, <2>2, <1>b, <1>o DEF WrittenInv
<1>5. ASSUME NEW t \in Threads, TxUse(t) \/ TxCreate(t) \/ TxErase(t) PROVE WrittenInv'
  <2> DEFINE id == On(t)
  <2>1. tx.by = t /\ ~Refuses(t) /\ id \in Ids
    BY <1>5, <1>o DEF TxUse, TxCreate, TxErase, Calls
  <2>2. tx \in TxType /\ tx # NoTx /\ (tx.staged = "deleted" => id \notin db.exists)
    BY <2>1, TxFacts DEF Memory, StagedInv
  <2>3. \A other \in Ids \ {id} : db.store[other] = tx.before.store[other]
    BY <2>1, <2>2 DEF WrittenInv
  <2>4. db \in DbType
    BY DEF TypeOK
  <2>5. CASE TxUse(t)
    <3>1. /\ id \in db'.exists /\ tx'.staged # "deleted" /\ tx'.by = t /\ tx'.before = tx.before
          /\ \A other \in Ids \ {id} : db'.store[other] = db.store[other]
      BY <2>1, <2>2, <2>4, <2>5 DEF TxUse, TxType, DbType, Refuses, Calls
    <3> QED
      BY <1>o, <2>3, <3>1 DEF WrittenInv
  <2>6. CASE TxCreate(t)
    <3>1. /\ id \in db'.exists /\ tx'.staged # "deleted" /\ tx'.by = t /\ tx'.before = tx.before
          /\ \A other \in Ids \ {id} : db'.store[other] = db.store[other]
      BY <2>1, <2>2, <2>4, <2>6 DEF TxCreate, TxType, DbType, Refuses, Calls
    <3> QED
      BY <1>o, <2>3, <3>1 DEF WrittenInv
  <2>7. CASE TxErase(t)
    <3>1. /\ db'.store[id] = "empty" /\ tx'.staged = "deleted" /\ tx'.by = t /\ tx'.before = tx.before
          /\ \A other \in Ids \ {id} : db'.store[other] = db.store[other]
      BY <2>1, <2>2, <2>4, <2>7 DEF TxErase, TxType, DbType
    <3> QED
      BY <1>o, <2>3, <3>1 DEF WrittenInv
  <2> QED
    BY <1>5, <2>5, <2>6, <2>7
<1>6. ASSUME NEW t \in Threads, Refused(t) \/ Rollback(t) \/ Commit(t) PROVE WrittenInv'
  BY <1>1, <1>6 DEF Refused, Rollback, Undo, Commit
<1>7. ASSUME \/ OpenSystem \/ ReadOwing \/ StartAgents \/ CloseAgents \/ ReleaseStore
             \/ Drain \/ Close \/ UNCHANGED vars
      PROVE WrittenInv'
  BY <1>2, <1>7 DEF OpenSystem, ReadOwing, StartAgents, CloseAgents, ReleaseStore, Drain, Close, vars
<1>8. ASSUME NEW t \in Threads,
             \/ Admit(t) \/ Await(t) \/ Lock(t) \/ Config(t) \/ ReadConfig(t) \/ Restore(t)
             \/ ResolveLoad(t) \/ Accept(t) \/ CreateProbe(t) \/ Prepare(t) \/ CreateCommit(t)
             \/ DeleteClose(t) \/ (\E erase \in BOOLEAN : DeleteDrop(t, erase))
             \/ StartLoad(t) \/ RunEnds(t) \/ CloseEnds(t)
      PROVE WrittenInv'
  BY <1>2, <1>8 DEF Admit, Await, Lock, Config, ReadConfig, Restore, ResolveLoad, Accept, CreateProbe,
     Prepare, CreateCommit, DeleteClose, DeleteDrop, StartLoad, RunEnds, CloseEnds
<1>9. ASSUME NEW id \in Ids, FinishHandover(id) PROVE WrittenInv'
  BY <1>2, <1>9 DEF FinishHandover
<1> QED
  BY <1>3, <1>4, <1>5, <1>6, <1>7, <1>8, <1>9, <1>n
  DEF Next, Starting, Stopping, Proceeds, Ends

(* How an erased identity stays one: no identity is committed for it, no    *)
(* other agent takes up work on it, and its store is left alone.            *)
LEMMA ErasedFrame ==
    ASSUME NEW id \in Ids, Erased(id),
           \A u \in Threads : On(u)' = On(u),
           log.strays \subseteq log'.strays,
           sys'.transition[id] = sys.transition[id],
           id \in Committed'.exists => id \in Committed.exists,
           HandedOver(id) \/ id \in log.strays \/ Committed'.store[id] = Committed.store[id],
           \A j \in Threads : On(j) = id /\ inst'[j].state \in AtWork => inst[j].state \in AtWork
    PROVE Erased(id)'
<1>1. id \notin Committed'.exists
  BY DEF Erased
<1>2. NoOther(id, sys.transition[id])'
  BY DEF Erased, NoOther
<1>3. HandedOver(id)' <=> HandedOver(id)
  BY DEF HandedOver
<1>4. HandedOver(id) \/ id \in log'.strays \/ Committed'.store[id] = "empty"
  BY DEF Erased
<1> QED
  BY <1>1, <1>2, <1>3, <1>4 DEF Erased, HandedOver

(* Steps that write no store of an erased identity, open or end no handover *)
(* and give nobody work on it.                                              *)
LEMMA QuietErased ==
    ASSUME TypeOK, Memory, [Next]_vars, NEW id \in Ids, Erased(id),
           sys'.transition = sys.transition, Committed' = Committed,
           \A j \in Threads : inst'[j].state \in AtWork => inst[j].state \in AtWork
    PROVE Erased(id)'
<1>1. \A u \in Threads : On(u)' = On(u)
  BY ThreadsGo DEF On
<1> QED
  BY <1>1, UsesStay, ErasedFrame

(* Calls, the start and the close of the system leave what is erased so.    *)
LEMMA ErasedCalls ==
    ASSUME TypeOK, ThreadInv, Memory, ErasureInv, [Next]_vars,
           \/ OpenSystem \/ ReadOwing \/ StartAgents \/ CloseAgents \/ ReleaseStore
           \/ Drain \/ Close \/ UNCHANGED vars
           \/ \E t \in Threads : \/ Admit(t) \/ Await(t) \/ Lock(t) \/ Config(t) \/ ReadConfig(t)
                                 \/ Restore(t) \/ CreateProbe(t) \/ DeleteClose(t)
           \/ \E i \in Threads : CloseEnds(i)
    PROVE \A id \in log'.erased : Erased(id)'
<1> /\ sys \in SysType /\ inst \in [Threads -> AgentType] /\ log \in LogType
  BY DEF TypeOK
<1>1. log'.erased = log.erased /\ log.erased \subseteq Ids
  BY DEF OpenSystem, ReadOwing, StartAgents, CloseAgents, ReleaseStore, Drain, Close, vars,
         Admit, Await, Lock, Config, ReadConfig, Restore, CreateProbe, DeleteClose, CloseEnds, LogType
<1>2. Committed' = Committed
  BY DEF OpenSystem, ReadOwing, StartAgents, CloseAgents, ReleaseStore, Drain, Close, vars,
         Admit, Await, Lock, Config, ReadConfig, Restore, CreateProbe, DeleteClose, CloseEnds,
         Committed
<1>3. sys'.transition = sys.transition
  <2>1. ASSUME NEW t \in Threads, ReadConfig(t) \/ Restore(t) \/ CreateProbe(t)
        PROVE sys'.transition = sys.transition
    <3>1. \A s \in SysType : Unlocked(s, On(t)).transition = s.transition
      BY DEF Unlocked, SysType
    <3>2. LET restored == [sys EXCEPT !.restored = @ \cup {On(t)}]
          IN  restored \in SysType /\ restored.transition = sys.transition
      BY OnIsIdentity DEF SysType
    <3> QED
      BY <2>1, <3>1, <3>2 DEF ReadConfig, Restore, CreateProbe
  <2>2. ASSUME NEW t \in Threads, Lock(t) \/ DeleteClose(t) PROVE sys'.transition = sys.transition
    BY <2>2 DEF Lock, DeleteClose, SysType
  <2>3. ASSUME NEW t \in Threads, Admit(t) \/ Await(t) \/ Config(t) \/ CloseEnds(t)
        PROVE sys'.transition = sys.transition
    BY <2>3 DEF Admit, Await, Config, CloseEnds
  <2>4. ASSUME OpenSystem \/ ReadOwing \/ StartAgents \/ CloseAgents \/ ReleaseStore
               \/ Drain \/ Close \/ UNCHANGED vars
        PROVE sys'.transition = sys.transition
    BY <2>4 DEF OpenSystem, ReadOwing, StartAgents, CloseAgents, ReleaseStore, Drain, Close, vars, SysType
  <2> QED
    BY <2>1, <2>2, <2>3, <2>4
<1>4. ASSUME NEW j \in Threads, inst'[j].state \in AtWork PROVE inst[j].state \in AtWork
  <2>1. CASE UNCHANGED inst
    BY <1>4, <2>1
  <2>2. CASE StartAgents
    BY <1>4, <2>2 DEF StartAgents, AgentType
  <2>3. CASE CloseAgents
    BY <1>4, <2>3 DEF CloseAgents, AtWork
  <2>4. ASSUME NEW t \in Threads, DeleteClose(t) PROVE inst[j].state \in AtWork
    <3> DEFINE a == Agent(On(t))
    <3>1. a # Nobody => a \in Threads /\ inst[a].state = "live"
      BY <2>4, OnIsIdentity, AgentIsThread DEF DeleteClose, ThreadInv, InPlace, Memory, AgentInv
    <3>2. j # a => inst'[j] = inst[j]
      BY <2>4 DEF DeleteClose
    <3> QED
      BY <1>4, <3>1, <3>2, ThreadKinds DEF AtWork
  <2>5. ASSUME NEW i \in Threads, CloseEnds(i) PROVE inst[j].state \in AtWork
    BY <1>4, <2>5 DEF CloseEnds, AtWork
  <2>6. \/ UNCHANGED inst \/ StartAgents \/ CloseAgents
        \/ \E t \in Threads : DeleteClose(t) \/ CloseEnds(t)
    BY DEF OpenSystem, ReadOwing, ReleaseStore, Drain, Close, vars,
           Admit, Await, Lock, Config, ReadConfig, Restore, CreateProbe
  <2> QED
    BY <2>1, <2>2, <2>3, <2>4, <2>5, <2>6
<1> QED
  BY <1>1, <1>2, <1>3, <1>4, QuietErased DEF ErasureInv

(* A transaction writes for no other flow before it commits, and what was   *)
(* loaded for it is not at work yet.                                        *)
LEMMA ErasedTx ==
    ASSUME TypeOK, ThreadInv, UseInv, Memory, ErasureInv, [Next]_vars, NEW t \in Threads,
           \/ Begin(t) \/ Call(t) \/ TxUse(t) \/ TxCreate(t) \/ TxErase(t)
           \/ Refused(t) \/ Rollback(t)
    PROVE \A id \in log'.erased : Erased(id)'
<1> /\ sys \in SysType /\ inst \in [Threads -> AgentType] /\ log \in LogType
  BY DEF TypeOK
<1>1. log' = log /\ sys' = sys /\ log.erased \subseteq Ids
  BY DEF Begin, Call, TxUse, TxCreate, TxErase, Refused, Rollback, Undo, LogType
<1>2. Committed' = Committed
  <2>1. CASE Begin(t)
    <3>1. db' = db /\ tx'.by = t /\ tx'.before = db /\ DbFree
      BY <2>1 DEF Begin
    <3> QED
      BY <3>1, ThreadKinds DEF Committed, DbFree
  <2>2. CASE Call(t) \/ TxUse(t) \/ TxCreate(t) \/ TxErase(t)
    <3>1. tx.by = t
      BY <2>2 DEF Call, TxUse, TxCreate, TxErase, Calls
    <3>2. tx \in TxType
      BY <3>1, TxFacts
    <3>3. tx'.by = t /\ tx'.before = tx.before
      BY <2>2, <3>1, <3>2 DEF Call, TxUse, TxCreate, TxErase, TxType
    <3> QED
      BY <3>1, <3>3, ThreadKinds DEF Committed
  <2>3. CASE Refused(t) \/ Rollback(t)
    <3>1. tx.by = t /\ db' = tx.before /\ tx'.by = Nobody
      BY <2>3 DEF Refused, Rollback, Undo, Calls, NoTx
    <3> QED
      BY <3>1, ThreadKinds DEF Committed
  <2> QED
    BY <2>1, <2>2, <2>3
<1>3. ASSUME NEW j \in Threads, inst'[j].state \in AtWork PROVE inst[j].state \in AtWork
  <2>1. CASE inst' = inst
    BY <1>3, <2>1
  <2>2. CASE \E new : inst' = [inst EXCEPT ![t] = new] /\ new.state \in {"none", "loaded"}
    BY <1>3, <2>2 DEF AtWork
  <2>3. NoAgent.state = "none" /\ [NoAgent EXCEPT !.state = "loaded"].state = "loaded"
    BY DEF NoAgent
  <2>4. CASE TxUse(t)
    <3>1. [state |-> "loaded", active |-> Owes(On(t)), run |-> FALSE].state = "loaded"
      OBVIOUS
    <3> QED
      BY <2>1, <2>2, <2>4, <3>1 DEF TxUse
  <2>5. CASE TxCreate(t)
    BY <2>1, <2>2, <2>3, <2>5 DEF TxCreate
  <2>6. CASE Refused(t) \/ Rollback(t)
    BY <2>2, <2>3, <2>6 DEF Refused, Rollback, Undo
  <2> QED
    BY <2>1, <2>4, <2>5, <2>6 DEF Begin, Call, TxErase
<1> QED
  BY <1>1, <1>2, <1>3, QuietErased DEF ErasureInv

(* A step that works on one identity, outside of a transaction, leaves the  *)
(* others as they are.                                                      *)
LEMMA ErasedOthers ==
    ASSUME TypeOK, [Next]_vars, DbFree, tx' = tx,
           NEW id \in Ids, NEW other \in Ids \ {id}, Erased(other),
           db'.exists \ {id} = db.exists \ {id}, db'.store[other] = db.store[other],
           sys'.transition[other] = sys.transition[other],
           \A j \in Threads : On(j) # id /\ inst'[j].state \in AtWork => inst[j].state \in AtWork
    PROVE Erased(other)'
<1>1. Committed = db /\ Committed' = db'
  BY DEF Committed, DbFree
<1>2. \A u \in Threads : On(u)' = On(u)
  BY ThreadsGo DEF On
<1> QED
  BY <1>1, <1>2, UsesStay, ErasedFrame

(* An agent is loaded for a configured identity only, and creating one ends *)
(* the erasure.                                                             *)
LEMMA ErasedPublished ==
    ASSUME TypeOK, ThreadInv, Memory, ErasureInv, [Next]_vars, NEW t \in Threads,
           ResolveLoad(t) \/ (t \in Ids /\ StartLoad(t)) \/ Prepare(t) \/ CreateCommit(t)
    PROVE \A id \in log'.erased : Erased(id)'
<1> DEFINE id == On(t)
<1> /\ sys \in SysType /\ inst \in [Threads -> AgentType] /\ log \in LogType /\ db \in DbType
    /\ id \in Ids
  BY OnIsIdentity DEF TypeOK
<1>1. /\ DbFree /\ tx' = tx /\ db'.exists \ {id} = db.exists \ {id}
      /\ \A other \in Ids \ {id} : db'.store[other] = db.store[other]
  BY DEF ResolveLoad, StartLoad, Prepare, CreateCommit, DbType
<1>2. log'.erased \subseteq log.erased \ {id} /\ log.erased \subseteq Ids
  <2>1. CASE Prepare(t)
    BY <2>1 DEF Prepare, LogType
  <2>2. CASE CreateCommit(t)
    BY <2>2 DEF CreateCommit, LogType, ErasureInv
  <2>3. CASE ResolveLoad(t) \/ StartLoad(t)
    <3>1. work[t].pc = "load" /\ log'.erased = log.erased
      BY <2>3 DEF ResolveLoad, StartLoad, LogType
    <3>2. id \in Committed.exists
      BY <3>1 DEF Memory, IdentityInv
    <3> QED
      BY <3>1, <3>2 DEF ErasureInv, Erased, LogType
  <2> QED
    BY <2>1, <2>2, <2>3
<1>3. \A other \in Ids \ {id} : sys'.transition[other] = sys.transition[other]
  <2>1. CASE ResolveLoad(t) \/ (t \in Ids /\ StartLoad(t))
    BY <2>1, PublishUnlocks DEF ThreadInv
  <2>2. CASE Prepare(t)
    BY <2>2 DEF Prepare
  <2>3. CASE CreateCommit(t)
    <3>1. Unlocked(sys, id) \in SysType /\ Unlocked(sys, id).transition = sys.transition
      BY UnlockedParts
    <3> QED
      BY <2>3, <3>1 DEF CreateCommit, SysType
  <2> QED
    BY <2>1, <2>2, <2>3
<1>4. \A j \in Threads \ {t} : inst'[j] = inst[j]
  BY DEF ResolveLoad, StartLoad, Prepare, CreateCommit
<1> HIDE DEF id
<1> QED
  <2>1. \A j \in Threads : On(j) # id => inst'[j] = inst[j]
    BY <1>4 DEF id
  <2> QED
    BY <1>1, <1>2, <1>3, <2>1, ErasedOthers DEF ErasureInv

(* Who writes the store is an agent at work, and of an erased identity this *)
(* is only the one that hands it over, or the stray.                        *)
LEMMA ErasedWritten ==
    ASSUME TypeOK, RunInv, AcceptInv, ErasureInv, [Next]_vars, NEW t \in Threads,
           Accept(t) \/ RunEnds(t)
    PROVE \A id \in log'.erased : Erased(id)'
<1> /\ inst \in [Threads -> AgentType] /\ db \in DbType
  BY DEF TypeOK
<1>1. /\ DbFree /\ tx' = tx /\ sys' = sys /\ log' = log /\ log.erased \subseteq Ids
      /\ db'.exists = db.exists
      /\ \A other \in Ids \ {On(t)} : db'.store[other] = db.store[other]
  BY DEF Accept, RunEnds, DbType, TypeOK, LogType
<1>2. \A j \in Threads : inst'[j].state = inst[j].state
  BY DEF Accept, RunEnds, AgentType
<1>3. \/ \E a \in Threads : On(a) = On(t) /\ inst[a].state \in AtWork
      \/ On(t) \in log.strays
  BY DEF Accept, RunEnds, AcceptInv, RunInv
<1>4. ASSUME NEW id \in log.erased PROVE Erased(id)'
  <2>1. Erased(id) /\ id \in Ids
    BY <1>1 DEF ErasureInv
  <2>2. id = On(t) => HandedOver(id) \/ id \in log.strays
    BY <1>3, <2>1, ThreadKinds DEF Erased, NoOther, HandedOver
  <2>3. Committed = db /\ Committed' = db'
    BY <1>1 DEF Committed, DbFree
  <2>4. \A u \in Threads : On(u)' = On(u)
    BY ThreadsGo DEF On
  <2> QED
    BY <1>1, <1>2, <2>1, <2>2, <2>3, <2>4, ErasedFrame
<1> QED
  BY <1>1, <1>4

(* A deletion ends with nobody at work on its identity: its own agent is    *)
(* closed, and no other was published under its lock.                       *)
LEMMA ErasedDropped ==
    ASSUME TypeOK, ThreadInv, UseInv, Disciplined, Memory, ErasureInv, [Next]_vars,
           NEW t \in Threads, NEW erase \in BOOLEAN, DeleteDrop(t, erase)
    PROVE \A id \in log'.erased : Erased(id)'
<1> PICK id \in Ids : id = On(t)
  BY OnIsIdentity
<1> sys \in SysType /\ log \in LogType /\ db \in DbType
  BY DEF TypeOK
<1>1. /\ DbFree /\ UNCHANGED <<tx, inst>> /\ work[t].pc = "drop"
      /\ work[t].agent # Nobody => inst[work[t].agent].state = "closed"
  BY DEF DeleteDrop
<1>2. /\ db'.exists = db.exists \ {id}
      /\ \A other \in Ids \ {id} : db'.store[other] = db.store[other]
      /\ db'.store[id] = IF erase THEN "empty" ELSE db.store[id]
  BY DEF DeleteDrop, DbType
<1>3. log'.erased = IF erase THEN log.erased \cup {id} ELSE log.erased
  BY DEF DeleteDrop, LogType
<1>4. sys'.transition = sys.transition
  <2>1. Unlocked(sys, id) \in SysType /\ Unlocked(sys, id).transition = sys.transition
    BY UnlockedParts
  <2> QED
    BY <2>1 DEF DeleteDrop, SysType
<1>5. ~HandedOver(id) /\ InPlace(t) /\ Agent(id) = Nobody
  BY <1>1, LockedIsNotHandedOver DEF Locked, ThreadInv, Memory, AgentInv
<1>6. \A j \in Threads : On(j) = id => inst[j].state \notin AtWork
  <2> SUFFICES ASSUME NEW j \in Threads, On(j) = id, inst[j].state \in AtWork PROVE FALSE
    OBVIOUS
  <2>1. sys.lifecycle \notin {"stopping", "closed"} /\ j # Nobody
    BY <1>1, <1>5, ThreadKinds DEF InPlace
  <2>2. inst[j].state = "closing"
    BY <1>5, <2>1 DEF AtWork, Memory, OneInstance
  <2>3. PICK u \in Callers : work[u].pc = "drop" /\ work[u].agent = j /\ On(u) = id
    BY <1>5, <2>1, <2>2 DEF Memory, AgentInv, HandedOver
  <2>4. u = t
    BY <1>1, <1>5, <2>3, ThreadKinds DEF ThreadInv, InPlace, Locked
  <2> QED
    BY <1>1, <2>1, <2>2, <2>3, <2>4
<1>7. \A u \in Threads : On(u)' = On(u)
  BY ThreadsGo DEF On
<1>8. ASSUME id \in log'.erased PROVE Erased(id)'
  <2>1. Committed' = db' /\ Committed = db
    BY <1>1 DEF Committed, DbFree
  <2>2. db'.store[id] = "empty" \/ id \in log'.strays
    BY <1>2, <1>3, <1>5, <1>8, <2>1, UsesStay DEF ErasureInv, Erased
  <2>3. NoOther(id, sys.transition[id])'
    BY <1>1, <1>6, <1>7 DEF NoOther
  <2> QED
    BY <1>2, <2>1, <2>2, <2>3 DEF Erased
<1>9. ASSUME NEW other \in log'.erased, other # id PROVE Erased(other)'
  <2>1. other \in Ids \ {id} /\ Erased(other)
    BY <1>3, <1>9 DEF ErasureInv, LogType
  <2> QED
    BY <1>1, <1>2, <1>4, <2>1, ErasedOthers
<1> QED
  BY <1>8, <1>9

(* A committed erasure: the agent the transaction ends hands the store over,*)
(* and is alone at work.                                                    *)
LEMMA ErasedCommitted ==
    ASSUME TypeOK, ThreadInv, UseInv, Memory, ErasureInv, [Next]_vars,
           NEW t \in Threads, Commit(t)
    PROVE \A id \in log'.erased : Erased(id)'
<1>i. PICK id \in Ids : id = On(t)
  BY OnIsIdentity
<1> DEFINE deleted == tx.staged = "deleted"
           publishes == tx.staged = "agent" /\ Agent(id) = Nobody
<1> log \in LogType
  BY DEF TypeOK
<1>1. /\ tx.by = t /\ tx' = NoTx /\ db' = db
      /\ \A i \in Ids : sys'.transition[i] = IF deleted /\ i = id THEN tx.ends
                                             ELSE sys.transition[i]
      /\ \A i \in Threads : inst'[i].state =
             IF deleted /\ i = tx.ends
             THEN IF inst[i].state = "closed" THEN "closed" ELSE "closing"
             ELSE IF publishes /\ i = t THEN "live" ELSE inst[i].state
  <2>1. tx.by = t /\ tx' = NoTx /\ db' = db
    BY CommitParts
  <2>2. \A i \in Ids : sys'.transition[i] = IF deleted /\ i = On(t) THEN tx.ends
                                            ELSE sys.transition[i]
    BY CommitParts
  <2>3. \A i \in Threads : inst'[i].state =
            IF deleted /\ i = tx.ends
            THEN IF inst[i].state = "closed" THEN "closed" ELSE "closing"
            ELSE IF tx.staged = "agent" /\ Agent(On(t)) = Nobody /\ i = t THEN "live"
            ELSE inst[i].state
    BY CommitParts
  <2> QED
    BY <1>i, <2>1, <2>2, <2>3
<1>2. log'.erased = IF deleted THEN log.erased \cup {id}
                    ELSE IF id \in db.exists THEN log.erased \ {id} ELSE log.erased
  BY <1>i DEF Commit, LogType
<1>3. Committed = tx.before /\ Committed' = db
  BY <1>1, ThreadKinds DEF Committed, NoTx
<1>4. \A u \in Threads : On(u)' = On(u)
  BY ThreadsGo DEF On
<1>5. /\ tx # NoTx /\ tx.before.exists \ {id} = db.exists \ {id}
      /\ \A other \in Ids \ {id} : db.store[other] = tx.before.store[other]
      /\ IF deleted THEN db.store[id] = "empty"
         ELSE id \in db.exists \/ db.store[id] = tx.before.store[id]
      /\ tx.staged = "agent" => id \in db.exists
      /\ deleted => /\ id \notin db.exists /\ NoOther(id, tx.ends)
                    /\ tx.ends \notin {t, Nobody} => On(tx.ends) = id
  BY <1>1, <1>i, TxFacts DEF Memory, StagedInv, ErasureInv, WrittenInv
<1> HIDE DEF deleted, publishes
<1>6. ASSUME id \in log'.erased PROVE Erased(id)'
  <2>1. id \notin db.exists /\ (deleted \/ id \in log.erased)
    BY <1>2, <1>5, <1>6
  <2>2. ~publishes
    BY <1>5, <2>1 DEF publishes
  <2>3. CASE deleted
    <3>1. NoOther(id, sys.transition[id])'
      BY <1>1, <1>4, <1>5, <2>2, <2>3 DEF NoOther
    <3> QED
      BY <1>3, <1>5, <2>1, <2>3, <3>1 DEF Erased
  <2>4. CASE ~deleted
    <3>1. Erased(id)
      BY <2>1, <2>4 DEF ErasureInv
    <3>2. Committed'.store[id] = Committed.store[id]
      BY <1>3, <1>5, <2>1, <2>4
    <3> QED
      BY <1>1, <1>3, <1>4, <2>1, <2>2, <2>4, <3>1, <3>2, UsesStay, ErasedFrame
  <2> QED
    BY <2>3, <2>4
<1>7. ASSUME NEW other \in log'.erased, other # id PROVE Erased(other)'
  <2>1. other \in Ids \ {id} /\ Erased(other)
    BY <1>2, <1>7 DEF ErasureInv, LogType
  <2>2. ASSUME NEW j \in Threads, On(j) = other, inst'[j].state \in AtWork
        PROVE inst[j].state \in AtWork
    <3>1. j # t /\ (deleted => j # tx.ends)
      BY <1>5, <1>7, <1>i, <2>2, ThreadKinds
    <3> QED
      BY <1>1, <2>2, <3>1
  <2> QED
    BY <1>1, <1>3, <1>4, <1>5, <2>1, <2>2, UsesStay, ErasedFrame
<1> QED
  BY <1>6, <1>7

(* A finished handover clears the store again, and nobody is left.          *)
LEMMA ErasedHandedOver ==
    ASSUME TypeOK, ErasureInv, [Next]_vars, NEW id \in Ids, FinishHandover(id)
    PROVE \A other \in log'.erased : Erased(other)'
<1> /\ sys \in SysType /\ log \in LogType /\ db \in DbType
  BY DEF TypeOK
<1>1. /\ DbFree /\ UNCHANGED <<tx, inst, log>> /\ inst[sys.transition[id]].state = "closed"
      /\ db'.exists = db.exists /\ db'.store[id] = ErasedAgain(id)
      /\ sys'.transition[id] = Nobody
      /\ \A other \in Ids \ {id} : /\ db'.store[other] = db.store[other]
                                  /\ sys'.transition[other] = sys.transition[other]
  BY DEF FinishHandover, DbType, SysType
<1>2. ASSUME id \in log.erased PROVE Erased(id)'
  <2>1. Erased(id) /\ Committed = db /\ Committed' = db'
    BY <1>1, <1>2 DEF ErasureInv, Committed, DbFree
  <2>2. db'.store[id] = "empty" /\ id \notin db'.exists
    BY <1>1, <2>1 DEF Erased, ErasedAgain
  <2>3. NoOther(id, sys.transition[id])'
    <3>1. \A j \in Threads : On(j) = id => inst[j].state \notin AtWork
      BY <1>1, <2>1 DEF Erased, NoOther, AtWork
    <3>2. \A u \in Threads : On(u)' = On(u)
      BY ThreadsGo DEF On
    <3> QED
      BY <1>1, <3>1, <3>2 DEF NoOther
  <2> QED
    BY <2>1, <2>2, <2>3 DEF Erased
<1>3. ASSUME NEW other \in log.erased, other # id PROVE Erased(other)'
  <2>1. other \in Ids \ {id} /\ Erased(other)
    BY <1>3 DEF ErasureInv, LogType
  <2> QED
    BY <1>1, <2>1, ErasedOthers
<1> QED
  BY <1>1, <1>2, <1>3

(* While a creation is under way nothing erases its identity: a deletion    *)
(* needs the same lock, and transactions erase identities that are only     *)
(* ever created in transactions.                                            *)
LEMMA CreatedStep ==
    ASSUME TypeOK, ThreadInv, UseInv, Disciplined, Memory, ErasureInv, [Next]_vars,
           NEW u \in Threads, work'[u].pc = "commit"
    PROVE On(u)' \notin log'.erased
<1>n. Ids \subseteq Threads
  BY ThreadKinds
<1> log \in LogType /\ On(u)' = On(u)
  BY ThreadsGo DEF TypeOK, On
<1>1. CASE Prepare(u)
  BY <1>1 DEF Prepare, LogType
<1>2. CASE ~Prepare(u)
  <2>1. work[u].pc = "commit" /\ On(u) \notin log.erased
    BY <1>2, ThreadsGo DEF ErasureInv
  <2>2. InPlace(u) /\ sys.lock[On(u)] = u /\ work[u].what = "create" /\ u \in Callers
    BY <2>1, ThreadKinds DEF ThreadInv, InPlace, Locked
  <2>3. ASSUME NEW t \in Threads, NEW erase \in BOOLEAN, DeleteDrop(t, erase)
        PROVE On(u) \notin log'.erased
    <3>1. work[t].pc = "drop" /\ sys.lock[On(t)] = t
      BY <2>3 DEF DeleteDrop, ThreadInv, InPlace, Locked
    <3>2. On(t) # On(u)
      BY <2>1, <2>2, <3>1
    <3> QED
      BY <2>1, <2>3, <3>2 DEF DeleteDrop, LogType
  <2>4. ASSUME NEW t \in Threads, Commit(t) PROVE On(u) \notin log'.erased
    <3>1. tx.by = t /\ tx # NoTx
      BY <2>4, TxFacts DEF Commit, Calls
    <3>2. tx.staged = "deleted" => log.use[On(t)] = "handed"
      BY <3>1 DEF UseInv
    <3>3. log.use[On(u)] # "handed"
      BY <2>2, OnIsIdentity, DisciplinedCalls DEF UseInv, LogType
    <3> QED
      BY <2>1, <2>4, <3>2, <3>3 DEF Commit, LogType
  <2>5. ASSUME log'.erased \subseteq log.erased PROVE On(u) \notin log'.erased
    BY <2>1, <2>5
  <2>6. ASSUME \/ OpenSystem \/ ReadOwing \/ StartAgents \/ CloseAgents \/ ReleaseStore
               \/ Drain \/ Close \/ UNCHANGED vars
        PROVE log'.erased = log.erased
    BY <2>6 DEF OpenSystem, ReadOwing, StartAgents, CloseAgents, ReleaseStore, Drain, Close, vars
  <2>7. ASSUME NEW t \in Threads,
               \/ Admit(t) \/ Await(t) \/ Lock(t) \/ Config(t) \/ ReadConfig(t) \/ Restore(t)
               \/ ResolveLoad(t) \/ StartLoad(t) \/ Accept(t) \/ CreateProbe(t) \/ CreateCommit(t)
               \/ DeleteClose(t) \/ RunEnds(t) \/ CloseEnds(t)
        PROVE log'.erased = log.erased
    BY <2>7 DEF Admit, Await, Lock, Config, ReadConfig, Restore, ResolveLoad, StartLoad, Accept,
                CreateProbe, CreateCommit, DeleteClose, RunEnds, CloseEnds, LogType
  <2>8. ASSUME NEW t \in Threads,
               \/ Begin(t) \/ Call(t) \/ TxUse(t) \/ TxCreate(t) \/ TxErase(t)
               \/ Refused(t) \/ Rollback(t)
        PROVE log'.erased = log.erased
    BY <2>8 DEF Begin, Call, TxUse, TxCreate, TxErase, Refused, Rollback, Undo
  <2>9. ASSUME NEW t \in Threads, Prepare(t) PROVE log'.erased \subseteq log.erased
    BY <2>9 DEF Prepare, LogType
  <2>10. ASSUME NEW id \in Ids, FinishHandover(id) PROVE log'.erased = log.erased
    BY <2>10 DEF FinishHandover
  <2>11. On(u) \notin log'.erased
    BY <2>3, <2>4, <2>5, <2>6, <2>7, <2>8, <2>9, <2>10, <1>n
    DEF Next, Starting, Stopping, Proceeds, Ends
  <2> QED
    BY <2>11
<1> QED
  BY <1>1, <1>2

(* The inductive step of what holds of erased identities.                   *)
LEMMA ErasureStep ==
    ASSUME TypeOK, ThreadInv, UseInv, Disciplined, Memory, RunInv, AcceptInv, ErasureInv,
           [Next]_vars
    PROVE ErasureInv'
<1>n. Ids \subseteq Threads
  BY ThreadKinds
<1>1. \A id \in log'.erased : Erased(id)'
  <2>1. ASSUME \/ OpenSystem \/ ReadOwing \/ StartAgents \/ CloseAgents \/ ReleaseStore
               \/ Drain \/ Close \/ UNCHANGED vars
        PROVE \A id \in log'.erased : Erased(id)'
    BY <2>1, ErasedCalls
  <2>2. ASSUME NEW t \in Threads,
               \/ Admit(t) \/ Await(t) \/ Lock(t) \/ Config(t) \/ ReadConfig(t)
               \/ Restore(t) \/ CreateProbe(t) \/ DeleteClose(t) \/ CloseEnds(t)
        PROVE \A id \in log'.erased : Erased(id)'
    BY <2>2, ErasedCalls
  <2>3. ASSUME NEW t \in Threads,
               \/ Begin(t) \/ Call(t) \/ TxUse(t) \/ TxCreate(t) \/ TxErase(t)
               \/ Refused(t) \/ Rollback(t)
        PROVE \A id \in log'.erased : Erased(id)'
    BY <2>3, ErasedTx
  <2>4. ASSUME NEW t \in Threads,
               ResolveLoad(t) \/ (t \in Ids /\ StartLoad(t)) \/ Prepare(t) \/ CreateCommit(t)
        PROVE \A id \in log'.erased : Erased(id)'
    BY <2>4, ErasedPublished
  <2>5. ASSUME NEW t \in Threads, Accept(t) \/ RunEnds(t)
        PROVE \A id \in log'.erased : Erased(id)'
    BY <2>5, ErasedWritten
  <2>6. ASSUME NEW t \in Threads, NEW erase \in BOOLEAN, DeleteDrop(t, erase)
        PROVE \A id \in log'.erased : Erased(id)'
    BY <2>6, ErasedDropped
  <2>7. ASSUME NEW t \in Threads, Commit(t) PROVE \A id \in log'.erased : Erased(id)'
    BY <2>7, ErasedCommitted
  <2>8. ASSUME NEW i \in Ids, FinishHandover(i) PROVE \A id \in log'.erased : Erased(id)'
    BY <2>8, ErasedHandedOver
  <2> QED
    BY <2>1, <2>2, <2>3, <2>4, <2>5, <2>6, <2>7, <2>8, <1>n
    DEF Next, Starting, Stopping, Proceeds, Ends
<1>2. \A t \in Threads : work'[t].pc = "commit" => On(t)' \notin log'.erased
  BY CreatedStep
<1>3. WrittenInv'
  BY WrittenStep DEF ErasureInv
<1> QED
  BY <1>1, <1>2, <1>3 DEF ErasureInv

(* A process starts with nothing running and nothing erased by it.          *)
LEMMA ErasureInit == Init => RunInv /\ AcceptInv /\ SentInv /\ ErasureInv
<1> SUFFICES ASSUME Init PROVE RunInv /\ AcceptInv /\ SentInv /\ ErasureInv
  OBVIOUS
<1>1. tx = NoTx /\ (\A i \in Threads : ~inst[i].run)
  BY DEF Init, NoAgent
<1>2. log.erased = {} /\ log.strays = {}
  BY DEF Init
<1>3. \A t \in Threads : work[t].pc = "idle"
  BY DEF Init, Begun
<1> QED
  BY <1>1, <1>2, <1>3 DEF RunInv, Stray, AcceptInv, SentInv, ErasureInv, WrittenInv

(* THEOREM: two agents never work on one store, what was erased is left     *)
(* alone, runs belong to agents at work, and all of the invariant they rest *)
(* on, for any identities, callers and number of operations, where callers  *)
(* use identities with discipline.  A transaction that the shutdown does not*)
(* wait for may set one closed agent going (RunInv); no more is promised of *)
(* its identity.                                                            *)
THEOREM SystemSafe == Disciplined /\ Spec => []SystemInv
<1> SUFFICES ASSUME Disciplined PROVE Spec => []SystemInv
  OBVIOUS
<1> DEFINE I == /\ TypeOK /\ ThreadInv /\ Restorations /\ UseInv /\ Memory
                /\ RunInv /\ AcceptInv /\ SentInv /\ ErasureInv
<1>1. Init => I
  BY TypeInit, PlacesInit, SystemInit, ErasureInit
<1>2. I /\ [Next]_vars => I'
  BY TypeStep, ThreadStep, RestoredStep, UseStep, MemoryStep, RunStep, AcceptStep, SentStep,
     ErasureStep
<1>3. I => SystemInv
  BY DEF SystemInv, Restorations, Memory
<1> QED
  BY <1>1, <1>2, <1>3, PTL DEF Spec

(* THEOREM: two agents never work on one store, by itself.                  *)
THEOREM OneAgentAtWork == Disciplined /\ Spec => []OneInstance
<1>1. SystemInv => OneInstance
  BY DEF SystemInv
<1> QED
  BY <1>1, SystemSafe, PTL

(* THEOREM: what was erased stays erased once its handover is over, whatever*)
(* the closing agent wrote, until an identity is created anew.  The one that*)
(* a transaction left open by the shutdown may set astray is left out.      *)
THEOREM ErasedStays == Disciplined /\ Spec => []ErasedStaysErased
<1>1. SystemInv => ErasedStaysErased
  BY DEF SystemInv, ErasureInv, Erased, ErasedStaysErased
<1> QED
  BY <1>1, SystemSafe, PTL
-----------------------------------------------------------------------------
(* Who writes what the database holds of an identity                        *)

(* A call in a transaction is of a kind its identity is used for.           *)
CallInv ==
    tx # NoTx /\ tx.call # "none" => tx.call \in TxCalls[log.use[On(tx.by)]]

(* An identity that a call creates does not exist until the call commits it,*)
(* and its store is the one prepared for it.                                *)
ReservedInv ==
    \A t \in Threads : work[t].pc \in {"prepare", "commit"} =>
        /\ On(t) \notin Committed.exists
        /\ work[t].pc = "commit" => Committed.store[On(t)] = "settled"

(* What is handed over was erased.                                          *)
LeavingInv == \A id \in Ids : HandedOver(id) => id \in log.erased

(* What a transaction writes to its identity, by what it has staged: nothing*)
(* but messages to one that existed, a new store for one that did not.      *)
WroteInv ==
    tx # NoTx =>
        LET id == On(tx.by)
        IN  /\ tx.staged = "nothing" => db.exists = tx.before.exists
            /\ log.use[id] # "handed" => db.exists \subseteq tx.before.exists
            /\ id \in tx.before.exists /\ tx.staged # "deleted" =>
                   db.store[id] \in {tx.before.store[id], "owed"}
            /\ id \notin tx.before.exists /\ tx.staged = "agent" =>
                   db.store[id] \in {"settled", "owed"}

(* The database as others see it, outside a transaction.                    *)
LEMMA FreeIsCommitted ==
    ASSUME TypeOK
    PROVE DbFree <=> tx = NoTx /\ Committed = db
  BY ThreadKinds DEF DbFree, Committed, TypeOK, TxType, NoTx

(* What a transaction's step keeps of it, and what others see of that.      *)
LEMMA TxParts ==
    ASSUME TypeOK, ThreadInv, UseInv, Memory, NEW t \in Threads,
           Call(t) \/ TxUse(t) \/ TxCreate(t) \/ TxErase(t)
    PROVE /\ tx.by = t /\ tx \in TxType /\ tx # NoTx
          /\ tx'.by = t /\ tx'.before = tx.before /\ tx' # NoTx
          /\ ~Call(t) => tx'.call = "none"
<1>1. tx.by = t
  BY DEF Call, TxUse, TxCreate, TxErase, Calls
<1>2. tx \in TxType /\ tx # NoTx
  BY <1>1, TxFacts
<1>3. tx'.by = t /\ tx'.before = tx.before /\ (~Call(t) => tx'.call = "none")
  BY <1>1, <1>2 DEF Call, TxUse, TxCreate, TxErase, TxType
<1> QED
  BY <1>1, <1>2, <1>3, ThreadKinds DEF NoTx

(* The steps that change what others see of the database.                   *)
LEMMA StoreKinds ==
    ASSUME TypeOK, ThreadInv, UseInv, Memory, [Next]_vars
    PROVE \/ Committed' = Committed
          \/ \E t \in Threads : \/ Accept(t) \/ Prepare(t) \/ CreateCommit(t) \/ Commit(t)
                                \/ RunEnds(t) \/ \E erase \in BOOLEAN : DeleteDrop(t, erase)
          \/ \E id \in Ids : FinishHandover(id)
<1> DEFINE Q == Committed' = Committed
<1>n. Ids \subseteq Threads
  BY ThreadKinds
<1>1. ASSUME UNCHANGED <<db, tx>> PROVE Q
  BY <1>1 DEF Committed
<1>2. ASSUME \/ OpenSystem \/ ReadOwing \/ StartAgents \/ CloseAgents \/ ReleaseStore
             \/ Drain \/ Close \/ UNCHANGED vars
      PROVE Q
  BY <1>1, <1>2 DEF OpenSystem, ReadOwing, StartAgents, CloseAgents, ReleaseStore, Drain, Close, vars
<1>3. ASSUME NEW t \in Threads,
             \/ Admit(t) \/ Await(t) \/ Lock(t) \/ Config(t) \/ ReadConfig(t) \/ Restore(t)
             \/ ResolveLoad(t) \/ StartLoad(t) \/ CreateProbe(t) \/ DeleteClose(t) \/ CloseEnds(t)
      PROVE Q
  BY <1>1, <1>3 DEF Admit, Await, Lock, Config, ReadConfig, Restore, ResolveLoad, StartLoad,
                    CreateProbe, DeleteClose, CloseEnds
<1>4. ASSUME NEW t \in Threads, Begin(t) PROVE Q
  BY <1>4, ThreadKinds DEF Begin, Committed, DbFree
<1>5. ASSUME NEW t \in Threads, Call(t) \/ TxUse(t) \/ TxCreate(t) \/ TxErase(t) PROVE Q
  BY <1>5, TxParts, ThreadKinds DEF Committed
<1>6. ASSUME NEW t \in Threads, Refused(t) \/ Rollback(t) PROVE Q
  <2>1. tx.by = t /\ db' = tx.before /\ tx'.by = Nobody
    BY <1>6 DEF Refused, Rollback, Undo, Calls, NoTx
  <2> QED
    BY <2>1, ThreadKinds DEF Committed
<1> HIDE DEF Q
<1>7. Q \/ (\E t \in Threads : \/ Accept(t) \/ Prepare(t) \/ CreateCommit(t) \/ Commit(t)
                               \/ RunEnds(t) \/ \E erase \in BOOLEAN : DeleteDrop(t, erase))
        \/ (\E id \in Ids : FinishHandover(id))
  BY <1>2, <1>3, <1>4, <1>5, <1>6, <1>n DEF Next, Starting, Stopping, Proceeds, Ends
<1> QED
  BY <1>7 DEF Q

(* Calls in transactions are of the kinds their identity is used for.       *)
LEMMA CallInvStep ==
    ASSUME TypeOK, ThreadInv, UseInv, Memory, CallInv, [Next]_vars
    PROVE CallInv'
<1>u. log'.use = log.use /\ \A u \in Threads : On(u)' = On(u)
  BY UsesStay, ThreadsGo DEF On
<1>b. tx # NoTx => tx.by \in Threads
  BY ThreadKinds DEF TypeOK, TxType
<1>1. CASE tx' = tx
  BY <1>1, <1>u, <1>b DEF CallInv
<1>2. ASSUME NEW t \in Threads, Begin(t) PROVE CallInv'
  <2>1. tx'.call = "none"
    BY <1>2 DEF Begin
  <2> QED
    BY <2>1 DEF CallInv
<1>3. ASSUME NEW t \in Threads, Call(t) PROVE CallInv'
  <2>1. tx \in TxType /\ tx'.by = t
    BY <1>3, TxParts
  <2>2. tx'.call \in TxCalls[log.use[On(t)]]
    BY <1>3, <2>1 DEF Call, TxType
  <2> QED
    BY <1>u, <2>1, <2>2 DEF CallInv
<1>4. ASSUME NEW t \in Threads, TxUse(t) \/ TxCreate(t) \/ TxErase(t) PROVE CallInv'
  <2>1. tx'.call = "none"
    BY <1>4, TxParts DEF TxUse, TxCreate, TxErase, Call, Calls
  <2> QED
    BY <2>1 DEF CallInv
<1>5. ASSUME NEW t \in Threads, Refused(t) \/ Rollback(t) \/ Commit(t) PROVE CallInv'
  BY <1>5 DEF Refused, Rollback, Undo, Commit, CallInv
<1> QED
  BY <1>1, <1>2, <1>3, <1>4, <1>5, TxKinds

(* What a transaction has written goes by what it has staged.               *)
LEMMA WroteStep ==
    ASSUME TypeOK, ThreadInv, UseInv, Disciplined, Memory, CallInv, WroteInv, [Next]_vars
    PROVE WroteInv'
<1>u. log'.use = log.use /\ \A u \in Threads : On(u)' = On(u) /\ On(u) \in Ids
  BY UsesStay, ThreadsGo, OnIsIdentity DEF On
<1>b. tx # NoTx => tx.by \in Threads
  BY ThreadKinds DEF TypeOK, TxType
<1>1. CASE tx' = tx /\ (db' = db \/ DbFree)
  <2>1. tx' # NoTx => db' = db
    BY <1>1, FreeIsCommitted
  <2> QED
    BY <1>1, <1>u, <1>b, <2>1 DEF WroteInv
<1>2. ASSUME NEW t \in Threads, Begin(t) PROVE WroteInv'
  <2>1. db' = db /\ tx'.before = db /\ tx'.staged = "nothing"
    BY <1>2 DEF Begin
  <2> QED
    BY <2>1 DEF WroteInv
<1>3. ASSUME NEW t \in Threads, Call(t) PROVE WroteInv'
  <2>1. tx \in TxType /\ tx.by = t /\ tx # NoTx /\ tx'.by = t /\ tx'.before = tx.before
    BY <1>3, TxParts
  <2>2. tx'.staged = tx.staged /\ db' = db
    BY <1>3, <2>1 DEF Call, TxType
  <2> QED
    BY <1>u, <2>1, <2>2 DEF WroteInv
<1>4. ASSUME NEW t \in Threads, TxUse(t) \/ TxCreate(t) \/ TxErase(t) PROVE WroteInv'
  <2> PICK id \in Ids : id = On(t)
    BY <1>u
  <2>1. /\ tx \in TxType /\ tx.by = t /\ tx # NoTx
        /\ tx'.by = t /\ tx'.before = tx.before /\ ~Refuses(t) /\ db \in DbType
    BY <1>4, TxParts DEF TxUse, TxCreate, TxErase, TypeOK
  <2>2. /\ tx.staged = "agent" => id \in db.exists
        /\ tx.staged = "deleted" => id \notin db.exists
        /\ id \in tx.before.exists /\ tx.staged # "deleted" => id \in db.exists
    BY <2>1 DEF Memory, StagedInv
  <2>3. Committed = tx.before
    BY <2>1, ThreadKinds DEF Committed
  <2>i. /\ tx.staged = "nothing" => db.exists = tx.before.exists
        /\ log.use[id] # "handed" => db.exists \subseteq tx.before.exists
        /\ id \in tx.before.exists /\ tx.staged # "deleted" =>
               db.store[id] \in {tx.before.store[id], "owed"}
        /\ id \notin tx.before.exists /\ tx.staged = "agent" =>
               db.store[id] \in {"settled", "owed"}
    BY <2>1 DEF WroteInv
  <2>4. SUFFICES
          /\ tx'.staged = "nothing" => db'.exists = tx.before.exists
          /\ log.use[id] # "handed" => db'.exists \subseteq tx.before.exists
          /\ id \in tx.before.exists /\ tx'.staged # "deleted" =>
                 db'.store[id] \in {tx.before.store[id], "owed"}
          /\ id \notin tx.before.exists /\ tx'.staged = "agent" =>
                 db'.store[id] \in {"settled", "owed"}
    BY <1>u, <2>1 DEF WroteInv
  <2>5. CASE TxUse(t)
    <3>1. /\ id \in db.exists /\ db'.exists = db.exists
          /\ db'.store[id] \in {db.store[id], "owed"}
          /\ tx'.staged \in {"agent", tx.staged}
      BY <2>1, <2>5 DEF TxUse, Refuses, Calls, DbType, TxType
    <3>2. tx'.staged # "deleted" /\ (tx'.staged = "nothing" => tx.staged = "nothing")
      BY <2>2, <3>1
    <3>3. id \notin tx.before.exists => tx.staged = "agent"
      BY <2>1, <2>2, <2>i, <3>1 DEF TxType
    <3> QED
      BY <2>2, <2>i, <3>1, <3>2, <3>3
  <2>6. CASE TxCreate(t)
    <3>1. /\ id \notin db.exists /\ tx.staged # "deleted" /\ tx.call = "create"
          /\ db'.exists = db.exists \cup {id} /\ db'.store[id] = "settled"
      BY <2>1, <2>6 DEF TxCreate, Refuses, Calls, DbType
    <3>2. id \notin tx.before.exists /\ tx.staged = "nothing"
      BY <2>1, <2>2, <3>1 DEF TxType
    <3>3. Agent(id) = Nobody
      BY <2>3, <3>2 DEF Memory, IdentityInv, AgentHasIdentity
    <3>4. tx'.staged = "agent"
      BY <2>1, <2>6, <3>2, <3>3 DEF TxCreate, TxAgent, TxType
    <3>5. log.use[id] = "handed"
      <4>1. "create" \in TxCalls[log.use[id]] /\ log.use[id] \in Uses
        BY <2>1, <3>1 DEF CallInv, TypeOK, LogType
      <4>2. log.use[id] \in {"served", "handed", "private"}
        BY <4>1 DEF Disciplined
      <4> HIDE DEF Disciplined
      <4> QED
        BY <4>1, <4>2 DEF TxCalls
    <3> QED
      BY <3>1, <3>2, <3>4, <3>5
  <2>7. CASE TxErase(t)
    <3>1. db'.exists \subseteq db.exists /\ tx'.staged = "deleted"
      BY <2>1, <2>7 DEF TxErase, DbType, TxType
    <3> QED
      BY <2>i, <3>1
  <2> QED
    BY <1>4, <2>5, <2>6, <2>7
<1>5. ASSUME NEW t \in Threads, Refused(t) \/ Rollback(t) \/ Commit(t) PROVE WroteInv'
  BY <1>5 DEF Refused, Rollback, Undo, Commit, WroteInv
<1> QED
  BY <1>1, <1>2, <1>3, <1>4, <1>5, TxKinds

(* What a commit leaves to others of its identity and of the others.        *)
LEMMA CommitWrites ==
    ASSUME TypeOK, ThreadInv, UseInv, Memory, ErasureInv, WroteInv, NEW t \in Threads, Commit(t)
    PROVE LET id == On(t)
          IN  /\ id \in Ids /\ tx \in TxType /\ tx # NoTx /\ tx.by = t
              /\ Committed = tx.before /\ Committed' = db /\ Committed \in DbType
              /\ db \in DbType
              /\ db.exists \ {id} = tx.before.exists \ {id}
              /\ \A other \in Ids \ {id} : db.store[other] = tx.before.store[other]
              /\ tx.staged = "nothing" => db.exists = tx.before.exists
              /\ log.use[id] # "handed" => db.exists \subseteq tx.before.exists
              /\ tx.staged = "deleted" => id \notin db.exists /\ db.store[id] = "empty"
              /\ tx.staged = "agent" => id \in db.exists
              /\ id \in tx.before.exists /\ tx.staged # "deleted" =>
                     id \in db.exists /\ db.store[id] \in {tx.before.store[id], "owed"}
              /\ id \notin tx.before.exists /\ tx.staged = "agent" =>
                     db.store[id] \in {"settled", "owed"}
              /\ id \notin db.exists /\ tx.staged = "nothing" =>
                     db.store[id] = tx.before.store[id]
              /\ tx.staged # "nothing" => ~HandedOver(id)
<1> PICK id \in Ids : id = On(t)
  BY OnIsIdentity
<1>1. tx.by = t /\ tx' = NoTx /\ db' = db
  BY DEF Commit, Calls
<1>2. tx \in TxType /\ tx # NoTx
  BY <1>1, TxFacts
<1>3. Committed = tx.before /\ Committed' = db /\ db \in DbType /\ tx.before \in DbType
  BY <1>1, <1>2, ThreadKinds DEF Committed, NoTx, TypeOK, TxType
<1>4. /\ tx.before.exists \ {id} = db.exists \ {id}
      /\ id \in tx.before.exists /\ tx.staged # "deleted" => id \in db.exists
      /\ tx.staged # "nothing" => ~HandedOver(id)
      /\ tx.staged = "agent" => id \in db.exists
      /\ tx.staged = "deleted" => id \notin db.exists
  BY <1>1, <1>2 DEF Memory, StagedInv
<1>5. /\ \A other \in Ids \ {id} : db.store[other] = tx.before.store[other]
      /\ IF tx.staged = "deleted" THEN db.store[id] = "empty"
         ELSE id \in db.exists \/ db.store[id] = tx.before.store[id]
  BY <1>1, <1>2 DEF ErasureInv, WrittenInv
<1>6. /\ tx.staged = "nothing" => db.exists = tx.before.exists
      /\ log.use[id] # "handed" => db.exists \subseteq tx.before.exists
      /\ id \in tx.before.exists /\ tx.staged # "deleted" =>
             db.store[id] \in {tx.before.store[id], "owed"}
      /\ id \notin tx.before.exists /\ tx.staged = "agent" =>
             db.store[id] \in {"settled", "owed"}
  BY <1>1, <1>2 DEF WroteInv
<1> QED
  BY <1>1, <1>2, <1>3, <1>4, <1>5, <1>6

(* Nobody is at work on an identity whose lock a call has, unless there is  *)
(* an agent for it in the map.                                              *)
LEMMA LockedIsIdle ==
    ASSUME TypeOK, ThreadInv, UseInv, Disciplined, Memory, NEW t \in Threads,
           work[t].pc \in Locked \ {"drop"}, Agent(On(t)) = Nobody
    PROVE /\ ~HandedOver(On(t))
          /\ \A j \in Threads : On(j) = On(t) => inst[j].state \notin AtWork
<1>1. ~HandedOver(On(t)) /\ On(t) \in Ids /\ InPlace(t)
  BY LockedIsNotHandedOver, OnIsIdentity DEF ThreadInv
<1>2. ASSUME NEW u \in Callers, work[u].pc = "drop", On(u) = On(t) PROVE FALSE
  <2>1. sys.lock[On(t)] = t /\ sys.lock[On(t)] = u
    BY <1>1, <1>2, ThreadKinds DEF ThreadInv, InPlace, Locked
  <2> QED
    BY <1>2, <2>1
<1>3. sys.lifecycle \notin {"stopping", "closed"}
  BY <1>1 DEF InPlace, Locked
<1>4. NoOther(On(t), Nobody)
  BY <1>1, <1>2, <1>3, NothingAtWork
<1> QED
  BY <1>1, <1>4, ThreadKinds DEF NoOther

(* Only the probe of a creation leads to its preparation.                   *)
LEMMA ProbedFirst ==
    ASSUME TypeOK, [Next]_vars, NEW u \in Threads, work'[u].pc = "prepare"
    PROVE work'[u] = work[u] \/ CreateProbe(u)
<1> DEFINE Q == work'[u] = work[u] \/ CreateProbe(u)
<1>n. Ids \subseteq Threads
  BY ThreadKinds
<1>1. ASSUME NEW t \in Threads, NEW pcs, Moves(t, pcs), "prepare" \notin pcs PROVE Q
  BY <1>1 DEF Moves
<1>2. ASSUME NEW t \in Threads, CreateProbe(t) PROVE Q
  <2>1. Moves(t, {"prepare", "done"})
    BY <1>2, ThreadMoves
  <2> QED
    BY <1>2, <2>1 DEF Moves
<1>3. ASSUME ReadOwing PROVE Q
  BY <1>3, ReadOwingMoves DEF Threads
<1>4. ASSUME NEW t \in Threads,
             \/ Admit(t) \/ Await(t) \/ Lock(t) \/ Config(t) \/ ReadConfig(t) \/ Restore(t)
             \/ ResolveLoad(t) \/ Accept(t) \/ Prepare(t) \/ CreateCommit(t) \/ DeleteClose(t)
             \/ (\E erase \in BOOLEAN : DeleteDrop(t, erase)) \/ Begin(t) \/ Commit(t)
             \/ Refused(t) \/ Rollback(t) \/ (t \in Ids /\ StartLoad(t))
      PROVE Q
  <2>1. \/ Moves(t, {"await"}) \/ Moves(t, {"lock", "accept", "done"})
        \/ Moves(t, {"config", "probe", "accept", "done"}) \/ Moves(t, {"read"})
        \/ Moves(t, {"restore", "done"}) \/ Moves(t, {"load", "accept", "done"})
        \/ Moves(t, {"accept", "done"}) \/ Moves(t, {"done"}) \/ Moves(t, {"commit"})
        \/ Moves(t, {"drop"}) \/ Moves(t, {"body"})
    BY <1>4, ThreadMoves
  <2> HIDE DEF Q
  <2> QED
    BY <1>1, <2>1
<1>5. ASSUME \/ OpenSystem \/ StartAgents \/ CloseAgents \/ ReleaseStore \/ Drain \/ Close
             \/ UNCHANGED vars
      PROVE Q
  BY <1>5 DEF OpenSystem, StartAgents, CloseAgents, ReleaseStore, Drain, Close, vars
<1>6. ASSUME NEW t \in Threads,
             \/ Call(t) \/ TxUse(t) \/ TxCreate(t) \/ TxErase(t) \/ RunEnds(t) \/ CloseEnds(t)
      PROVE Q
  BY <1>6 DEF Call, TxUse, TxCreate, TxErase, RunEnds, CloseEnds
<1>8. ASSUME NEW id \in Ids, FinishHandover(id) PROVE Q
  BY <1>8 DEF FinishHandover
<1>7. Q
  <2> HIDE DEF Q
  <2> QED
    BY <1>2, <1>3, <1>4, <1>5, <1>6, <1>8, <1>n DEF Next, Starting, Stopping, Proceeds, Ends
<1> QED
  BY <1>7

(* What a call is about to create stays as it was found and prepared: others*)
(* need its lock, or an agent at work on it, or a use that has no such call.*)
LEMMA ReservedStep ==
    ASSUME TypeOK, ThreadInv, UseInv, Disciplined, Memory, RunInv, AcceptInv, ErasureInv,
           WroteInv, ReservedInv, [Next]_vars
    PROVE ReservedInv'
<1> SUFFICES ASSUME NEW u \in Threads, work'[u].pc \in {"prepare", "commit"}
             PROVE /\ On(u) \notin Committed'.exists
                   /\ work'[u].pc = "commit" => Committed'.store[On(u)] = "settled"
  <2>1. \A i \in Threads : On(i)' = On(i)
    BY ThreadsGo DEF On
  <2> QED
    BY <2>1 DEF ReservedInv
<1> PICK id \in Ids : id = On(u)
  BY OnIsIdentity
<1>d. db \in DbType /\ sys \in SysType
  BY DEF TypeOK
<1>1. CASE CreateProbe(u)
  <2>1. UNCHANGED <<db, tx>> /\ DbFree /\ work'[u].pc \in {"prepare", "done"}
    BY <1>1, ThreadMoves DEF CreateProbe, Moves
  <2>2. id \notin db.exists
    BY <1>1, <2>1, GoesMoves DEF CreateProbe, TypeOK, Moves
  <2> QED
    BY <2>1, <2>2 DEF DbFree, Committed
<1>2. CASE Prepare(u)
  <2>1. DbFree /\ tx' = tx /\ db'.exists = db.exists /\ db'.store[id] = "settled"
        /\ work[u].pc = "prepare"
    BY <1>2, <1>d DEF Prepare, DbType
  <2> QED
    BY <2>1 DEF ReservedInv, DbFree, Committed
<1>3. CASE work'[u] = work[u]
  <2>1. /\ id \notin Committed.exists
        /\ work[u].pc = "commit" => Committed.store[id] = "settled"
    BY <1>3 DEF ReservedInv
  <2>2. /\ InPlace(u) /\ sys.lock[id] = u /\ work[u].what = "create" /\ u \in Callers
        /\ log.use[id] # "handed"
    <3>1. InPlace(u) /\ sys.lock[id] = u /\ work[u].what = "create" /\ u \in Callers
      BY <1>3, ThreadKinds DEF ThreadInv, InPlace, Locked
    <3>2. "create" \in PlainCalls[log.use[id]] /\ log.use[id] \in Uses
      BY <3>1 DEF UseInv, TypeOK, LogType
    <3> QED
      BY <3>1, <3>2, DisciplinedCalls
  <2>3. Agent(id) = Nobody
    BY <2>1 DEF Memory, IdentityInv, AgentHasIdentity
  <2>4. ~HandedOver(id) /\ \A j \in Threads : On(j) = id => inst[j].state \notin AtWork
    BY <1>3, <2>3, LockedIsIdle DEF Locked
  <2>5. ASSUME NEW t \in Threads, work[t].pc \in {"prepare", "commit", "drop"}, t # u
        PROVE On(t) # id
    BY <2>2, <2>5 DEF ThreadInv, InPlace, Locked
  <2>6. ASSUME id \in Committed'.exists => id \in Committed.exists,
               Committed'.store[id] = Committed.store[id]
        PROVE /\ On(u) \notin Committed'.exists
              /\ work'[u].pc = "commit" => Committed'.store[On(u)] = "settled"
    BY <1>3, <2>1, <2>6
  <2>7. ASSUME DbFree, tx' = tx, id \in db'.exists => id \in db.exists,
               db'.store[id] = db.store[id]
        PROVE /\ On(u) \notin Committed'.exists
              /\ work'[u].pc = "commit" => Committed'.store[On(u)] = "settled"
    BY <2>6, <2>7 DEF DbFree, Committed
  <2>8. ASSUME NEW t \in Threads, Accept(t) \/ RunEnds(t)
        PROVE /\ On(u) \notin Committed'.exists
              /\ work'[u].pc = "commit" => Committed'.store[On(u)] = "settled"
    <3>1. ~Stray(t)
      BY <1>3, <2>2 DEF RunInv, InPlace, Stopped
    <3>2. On(t) # id
      BY <2>4, <2>8, <3>1 DEF Accept, RunEnds, AcceptInv, RunInv
    <3> QED
      BY <1>d, <2>7, <2>8, <3>2 DEF Accept, RunEnds, DbType
  <2>9. ASSUME NEW t \in Threads,
               Prepare(t) \/ CreateCommit(t) \/ \E erase \in BOOLEAN : DeleteDrop(t, erase)
        PROVE /\ On(u) \notin Committed'.exists
              /\ work'[u].pc = "commit" => Committed'.store[On(u)] = "settled"
    <3>1. t # u
      <4>1. CASE Prepare(t)
        BY <1>3, <4>1, ThreadMoves DEF Prepare, Moves
      <4>2. CASE CreateCommit(t)
        BY <1>3, <4>2, ThreadMoves DEF CreateCommit, Moves
      <4>3. CASE \E erase \in BOOLEAN : DeleteDrop(t, erase)
        BY <1>3, <4>3 DEF DeleteDrop
      <4> QED
        BY <2>9, <4>1, <4>2, <4>3
    <3>2. On(t) # id
      BY <2>5, <2>9, <3>1 DEF Prepare, CreateCommit, DeleteDrop
    <3>3. DbFree /\ tx' = tx
      BY <2>9 DEF Prepare, CreateCommit, DeleteDrop
    <3>4. (id \in db'.exists => id \in db.exists) /\ db'.store[id] = db.store[id]
      <4>1. CASE Prepare(t)
        BY <1>d, <3>2, <4>1 DEF Prepare, DbType
      <4>3. CASE CreateCommit(t)
        BY <1>d, <3>2, <4>3 DEF CreateCommit, DbType
      <4>2. ASSUME NEW erase \in BOOLEAN, DeleteDrop(t, erase)
            PROVE (id \in db'.exists => id \in db.exists) /\ db'.store[id] = db.store[id]
        BY <1>d, <3>2, <4>2 DEF DeleteDrop, DbType
      <4> QED
        BY <2>9, <4>1, <4>2, <4>3
    <3> QED
      BY <2>7, <3>3, <3>4
  <2>10. ASSUME NEW t \in Threads, Commit(t)
         PROVE /\ On(u) \notin Committed'.exists
               /\ work'[u].pc = "commit" => Committed'.store[On(u)] = "settled"
    <3>1. CASE On(t) # id
      <4>1. /\ Committed'.exists \ {On(t)} = Committed.exists \ {On(t)}
            /\ Committed'.store[id] = Committed.store[id]
        BY <2>10, <3>1, CommitWrites
      <4> QED
        BY <2>6, <3>1, <4>1
    <3>2. CASE On(t) = id
      <4>1. /\ tx.by = t /\ tx # NoTx /\ tx \in TxType
            /\ Committed = tx.before /\ Committed' = db /\ db.exists \subseteq tx.before.exists
            /\ tx.staged = "agent" => id \in db.exists
            /\ id \notin db.exists /\ tx.staged = "nothing" =>
                   db.store[id] = tx.before.store[id]
        BY <2>2, <2>10, <3>2, CommitWrites
      <4>2. tx.staged # "deleted"
        BY <2>2, <3>2, <4>1 DEF UseInv
      <4> QED
        BY <2>1, <2>6, <4>1, <4>2 DEF TxType
    <3> QED
      BY <3>1, <3>2
  <2>11. ASSUME NEW i \in Ids, FinishHandover(i)
         PROVE /\ On(u) \notin Committed'.exists
               /\ work'[u].pc = "commit" => Committed'.store[On(u)] = "settled"
    <3>1. i # id
      BY <2>4, <2>11 DEF FinishHandover, HandedOver
    <3> QED
      BY <1>d, <2>7, <2>11, <3>1 DEF FinishHandover, DbType
  <2>12. CASE Committed' = Committed
    BY <2>6, <2>12
  <2> QED
    BY <2>8, <2>9, <2>10, <2>11, <2>12, StoreKinds
<1>4. CreateProbe(u) \/ Prepare(u) \/ work'[u] = work[u]
  BY ThreadsGo, ProbedFirst
<1> QED
  BY <1>1, <1>2, <1>3, <1>4

(* A handover begins with an erasure, and while it lasts nothing creates the*)
(* identity anew.                                                           *)
LEMMA LeavingStep ==
    ASSUME TypeOK, ThreadInv, UseInv, Disciplined, Memory, ErasureInv, WroteInv, LeavingInv,
           [Next]_vars
    PROVE LeavingInv'
<1> SUFFICES ASSUME NEW id \in Ids, HandedOver(id)' PROVE id \in log'.erased
  BY DEF LeavingInv
<1> /\ sys \in SysType /\ log \in LogType
  BY DEF TypeOK
<1>n. Ids \subseteq Threads
  BY ThreadKinds
<1>1. ASSUME log.erased \subseteq log'.erased, sys'.transition[id] \in {sys.transition[id], Nobody}
      PROVE id \in log'.erased
  BY <1>1 DEF LeavingInv, HandedOver
<1>2. ASSUME \/ OpenSystem \/ ReadOwing \/ StartAgents \/ CloseAgents \/ ReleaseStore
             \/ Drain \/ Close \/ UNCHANGED vars
      PROVE id \in log'.erased
  <2>1. sys'.transition = sys.transition /\ log' = log
    BY <1>2 DEF OpenSystem, ReadOwing, StartAgents, CloseAgents, ReleaseStore, Drain, Close, vars,
                SysType
  <2> QED
    BY <1>1, <2>1
<1>3. ASSUME NEW t \in Threads,
             \/ Admit(t) \/ Await(t) \/ Lock(t) \/ Config(t) \/ DeleteClose(t)
             \/ Accept(t) \/ RunEnds(t) \/ CloseEnds(t) \/ Begin(t) \/ Call(t)
             \/ TxUse(t) \/ TxCreate(t) \/ TxErase(t) \/ Refused(t) \/ Rollback(t)
      PROVE id \in log'.erased
  <2>1. sys'.transition = sys.transition /\ log' = log
    BY <1>3 DEF Admit, Await, Lock, Config, DeleteClose, Accept, RunEnds, CloseEnds, Begin, Call,
                TxUse, TxCreate, TxErase, Refused, Rollback, Undo, SysType
  <2> QED
    BY <1>1, <2>1
<1>4. ASSUME NEW t \in Threads,
             \/ ReadConfig(t) \/ Restore(t) \/ CreateProbe(t) \/ CreateCommit(t)
             \/ ResolveLoad(t) \/ (t \in Ids /\ StartLoad(t))
      PROVE id \in log'.erased
  <2>o. On(t) \in Ids /\ InPlace(t)
    BY OnIsIdentity DEF ThreadInv
  <2>u. Unlocked(sys, On(t)) \in SysType /\ Unlocked(sys, On(t)).transition = sys.transition
    BY <2>o, UnlockedParts
  <2>1. CASE ReadConfig(t) \/ CreateProbe(t)
    BY <1>1, <2>1, <2>u DEF ReadConfig, CreateProbe
  <2>2. CASE Restore(t)
    <3>1. sys'.transition = sys.transition
      BY <2>2, <2>o, RestoreParts
    <3>2. log'.erased = log.erased
      BY <2>2 DEF Restore, LogType
    <3> QED
      BY <1>1, <3>1, <3>2
  <2>3. CASE CreateCommit(t)
    <3>1. sys'.transition = sys.transition /\ log'.erased = log.erased
      BY <2>3, <2>u DEF CreateCommit, SysType, LogType
    <3> QED
      BY <1>1, <3>1
  <2>4. CASE ResolveLoad(t) \/ (t \in Ids /\ StartLoad(t))
    <3>1. sys'.transition = sys.transition
      BY <2>4, <2>o, PublishUnlocks
    <3>2. log'.erased = log.erased
      BY <2>4 DEF ResolveLoad, StartLoad, LogType
    <3> QED
      BY <1>1, <3>1, <3>2
  <2> QED
    BY <1>4, <2>1, <2>2, <2>3, <2>4
<1>5. ASSUME NEW t \in Threads, Prepare(t) PROVE id \in log'.erased
  <2>1. sys' = sys /\ log'.erased = log.erased \ {On(t)} /\ work[t].pc = "prepare"
    BY <1>5 DEF Prepare, LogType
  <2>2. HandedOver(id) /\ ~HandedOver(On(t))
    BY <2>1, LockedIsNotHandedOver DEF HandedOver, Locked
  <2> QED
    BY <2>1, <2>2 DEF LeavingInv
<1>6. ASSUME NEW t \in Threads, NEW erase \in BOOLEAN, DeleteDrop(t, erase)
      PROVE id \in log'.erased
  <2>1. /\ Unlocked(sys, On(t)) \in SysType
        /\ Unlocked(sys, On(t)).transition = sys.transition
    BY OnIsIdentity, UnlockedParts
  <2>2. sys'.transition = sys.transition /\ log.erased \subseteq log'.erased
    BY <1>6, <2>1 DEF DeleteDrop, SysType, LogType
  <2> QED
    BY <1>1, <2>2
<1>7. ASSUME NEW t \in Threads, Commit(t) PROVE id \in log'.erased
  <2>1. /\ On(t) \in Ids /\ tx \in TxType /\ Committed = tx.before
        /\ tx.staged = "nothing" => db.exists = tx.before.exists
        /\ tx.staged # "nothing" => ~HandedOver(On(t))
    BY <1>7, CommitWrites
  <2>2. log'.erased = IF tx.staged = "deleted" THEN log.erased \cup {On(t)}
                      ELSE IF On(t) \in db.exists THEN log.erased \ {On(t)} ELSE log.erased
    BY <1>7 DEF Commit, LogType
  <2>3. \A i \in Ids : sys'.transition[i] = IF tx.staged = "deleted" /\ i = On(t) THEN tx.ends
                                             ELSE sys.transition[i]
    BY <1>7, CommitParts
  <2>4. CASE tx.staged = "deleted" /\ id = On(t)
    BY <2>2, <2>4
  <2>5. CASE ~(tx.staged = "deleted" /\ id = On(t))
    <3>1. HandedOver(id) /\ id \in log.erased
      BY <2>3, <2>5 DEF HandedOver, LeavingInv
    <3>2. id \notin Committed.exists
      BY <3>1 DEF ErasureInv, Erased
    <3> QED
      BY <2>1, <2>2, <2>5, <3>1, <3>2
  <2> QED
    BY <2>4, <2>5
<1>8. ASSUME NEW i \in Ids, FinishHandover(i) PROVE id \in log'.erased
  <2>1. sys'.transition[id] \in {sys.transition[id], Nobody} /\ log' = log
    BY <1>8 DEF FinishHandover, SysType
  <2> QED
    BY <1>1, <2>1
<1> QED
  BY <1>2, <1>3, <1>4, <1>5, <1>6, <1>7, <1>8, <1>n DEF Next, Starting, Stopping, Proceeds, Ends

(* Who writes which store, with what the system's invariant says of it.     *)
WriterInv ==
    /\ SystemInv /\ CallInv /\ ReservedInv /\ LeavingInv /\ WroteInv

LEMMA SystemParts ==
    ASSUME SystemInv
    PROVE /\ TypeOK /\ ThreadInv /\ UseInv /\ Memory /\ Restorations
          /\ RunInv /\ AcceptInv /\ SentInv /\ ErasureInv
  BY DEF SystemInv, Memory, Restorations

LEMMA WriterInit == Init => CallInv /\ ReservedInv /\ LeavingInv /\ WroteInv
<1> SUFFICES ASSUME Init PROVE CallInv /\ ReservedInv /\ LeavingInv /\ WroteInv
  OBVIOUS
<1>1. tx = NoTx /\ \A id \in Ids : ~HandedOver(id)
  BY DEF Init, HandedOver
<1>2. \A t \in Threads : work[t].pc = "idle"
  BY DEF Init, Begun
<1> QED
  BY <1>1, <1>2 DEF CallInv, ReservedInv, LeavingInv, WroteInv

(* THEOREM: what a call is about to create stays unborn and as prepared,    *)
(* what is handed over was erased, and a transaction writes what it stages. *)
THEOREM WritersKnown == Disciplined /\ Spec => []WriterInv
<1> SUFFICES ASSUME Disciplined PROVE Spec => []WriterInv
  OBVIOUS
<1> DEFINE I == CallInv /\ ReservedInv /\ LeavingInv /\ WroteInv
<1>1. Init => I
  BY WriterInit
<1>2. I /\ SystemInv /\ [Next]_vars => I'
  BY SystemParts, CallInvStep, WroteStep, ReservedStep, LeavingStep
<1>3. SystemInv /\ I => WriterInv
  BY DEF WriterInv
<1>4. Disciplined /\ Spec => []SystemInv
  BY SystemSafe
<1> HIDE DEF I
<1> QED
  BY <1>1, <1>2, <1>3, <1>4, PTL DEF Spec

(* A step of what the system promises, or none.                             *)
Owns == Owned!Next \/ UNCHANGED Owned!vars

(* What is at work on an identity, and on the others, after a step.         *)
LEMMA WorkersOf ==
    ASSUME TypeOK, [Next]_vars, NEW id \in Ids, NEW S,
           \A j \in Threads : On(j) # id => (inst'[j].state \in AtWork <=> inst[j].state \in AtWork),
           S = {j \in Threads : On(j) = id /\ inst'[j].state \in AtWork}
    PROVE WorkingNow' = [WorkingNow EXCEPT ![id] = S]
<1>1. \A u \in Threads : On(u)' = On(u)
  BY ThreadsGo DEF On
<1>2. WorkingNow' = [o \in Ids |-> {i \in Threads : On(i) = o /\ inst'[i].state \in AtWork}]
  BY <1>1 DEF WorkingNow
<1>3. \A o \in Ids \ {id} : {i \in Threads : On(i) = o /\ inst'[i].state \in AtWork}
                            = {i \in Threads : On(i) = o /\ inst[i].state \in AtWork}
  OBVIOUS
<1> QED
  BY <1>2, <1>3 DEF WorkingNow

(* Whose run is lost sight of, after a step.                                *)
LEMMA StraysOf ==
    ASSUME TypeOK, [Next]_vars
    PROVE StrayNow' = {id \in Ids : \E i \in Threads : On(i) = id /\ (Stray(i))'}
<1>1. \A u \in Threads : On(u)' = On(u)
  BY ThreadsGo DEF On
<1> QED
  BY <1>1 DEF StrayNow

(* Nobody's is before the shutdown, or while a transaction that has staged  *)
(* or sent something is open; and one agent's at most.                      *)
LEMMA NoStrays ==
    ASSUME RunInv, \/ ~Stopped
                   \/ tx # NoTx /\ (tx.staged # "nothing" \/ tx.sent # Nobody)
    PROVE StrayNow = {}
  BY DEF RunInv, StrayNow

(* Only the shutdown, a commit and the end of a run are of consequence here.*)
LEMMA StraysStay ==
    ASSUME TypeOK, ThreadInv, UseInv, Memory, RunInv, AcceptInv, SentInv, [Next]_vars,
           ~CloseAgents, \A t \in Threads : ~Commit(t) /\ ~RunEnds(t)
    PROVE UNCHANGED <<StrayNow, Stopped>>
<1>n. Ids \subseteq Threads
  BY ThreadKinds
<1>s. Stopped' = Stopped
  BY StoppedStays DEF Stopped
<1>1. CASE ~Stopped
  <2>1. StrayNow = {}
    BY <1>1, NoStrays
  <2>2. RunInv' /\ ~Stopped'
    BY <1>1, <1>s, RunStep
  <2>3. StrayNow' = {}
    BY <2>2 DEF RunInv, StrayNow
  <2> QED
    BY <1>s, <2>1, <2>3
<1>2. CASE Stopped
  <2> DEFINE Q == \A j \in Threads : (Stray(j))' <=> Stray(j)
  <2>1. ASSUME UNCHANGED inst PROVE Q
    BY <2>1 DEF Stray
  <2>2. ASSUME \/ ReleaseStore \/ UNCHANGED vars
               \/ \E t \in Threads : Begin(t) \/ \E id \in Ids : FinishHandover(id)
        PROVE Q
    BY <2>1, <2>2 DEF ReleaseStore, vars, Begin, FinishHandover
  <2>3. ASSUME OpenSystem \/ ReadOwing \/ StartAgents \/ Drain \/ Close PROVE FALSE
    BY <1>2, <2>3 DEF Stopped, OpenSystem, ReadOwing, StartAgents, Drain, Close, Open
  <2>4. ASSUME NEW t \in Threads, work[t].pc \notin {"idle", "body", "done"} PROVE FALSE
    BY <1>2, <2>4 DEF Stopped, ThreadInv, InPlace
  <2>5. ASSUME NEW t \in Threads,
               \/ Await(t) \/ Lock(t) \/ Config(t) \/ ReadConfig(t) \/ Restore(t)
               \/ ResolveLoad(t) \/ StartLoad(t) \/ Accept(t) \/ CreateProbe(t) \/ Prepare(t)
               \/ CreateCommit(t) \/ DeleteClose(t)
               \/ \E erase \in BOOLEAN : DeleteDrop(t, erase)
        PROVE FALSE
    BY <2>4, <2>5 DEF Await, Lock, Config, ReadConfig, Restore, ResolveLoad, StartLoad, Accept,
                      CreateProbe, Prepare, CreateCommit, DeleteClose, DeleteDrop
  <2>6. ASSUME NEW t \in Threads, Admit(t) \/ Call(t) PROVE FALSE
    BY <1>2, <2>6 DEF Stopped, Admit, Call, Open
  <2>7. ASSUME NEW t \in Threads, TxUse(t) \/ TxCreate(t) \/ TxErase(t) \/ Refused(t) PROVE FALSE
    <3>1. tx.call # "none" /\ tx # NoTx
      BY <2>7, ThreadKinds DEF TxUse, TxCreate, TxErase, Refused, Calls, NoTx
    <3> QED
      BY <1>2, <3>1 DEF Stopped, UseInv
  <2>8. ASSUME NEW t \in Threads, Rollback(t) PROVE Q
    <3>1. inst[t].state \in {"none", "loaded"}
      BY <2>8, TxFacts DEF Rollback, Calls
    <3>2. /\ inst'[t].state = "none"
          /\ \A j \in Threads \ {t} : inst'[j] = inst[j]
      BY <2>8 DEF Rollback, Undo, NoAgent, TypeOK
    <3> QED
      BY <3>1, <3>2 DEF Stray
  <2>9. ASSUME NEW t \in Threads, CloseEnds(t) PROVE Q
    <3>1. /\ inst[t].state = "closing" /\ ~inst[t].run /\ ~inst'[t].run
          /\ \A j \in Threads \ {t} : inst'[j] = inst[j]
      BY <2>9 DEF CloseEnds, TypeOK, AgentType
    <3> QED
      BY <3>1 DEF Stray
  <2>10. Q
    <3> HIDE DEF Q
    <3> QED
      BY <1>n, <2>2, <2>3, <2>5, <2>6, <2>7, <2>8, <2>9
      DEF Next, Starting, Stopping, Proceeds, Ends
  <2> QED
    BY <1>s, <2>10, StraysOf DEF StrayNow
<1> QED
  BY <1>1, <1>2

(* A commit leaves them alone, or sets the one agent going that it sent to  *)
(* and that the shutdown closed meanwhile.                                  *)
LEMMA CommitStrays ==
    ASSUME TypeOK, ThreadInv, UseInv, Memory, RunInv, AcceptInv, SentInv, [Next]_vars,
           NEW t \in Threads, Commit(t)
    PROVE /\ Stopped' = Stopped
          /\ \/ StrayNow' = StrayNow
             \/ /\ Stopped /\ StrayNow = {} /\ StrayNow' = {On(t)}
                /\ tx.sent \in Threads \ {t} /\ inst[tx.sent].state = "closed"
                /\ NoOther(On(t), tx.sent)
                /\ \/ tx.staged = "nothing" /\ On(t) \in db.exists /\ Owes(On(t))
                   \/ tx.staged = "deleted" /\ tx.ends = tx.sent
<1>1. tx.by = t /\ tx \in TxType /\ tx # NoTx /\ inst[t].state \in {"none", "loaded"}
  BY TxFacts DEF Commit, Calls
<1>s. Stopped' = Stopped
  BY CommitParts DEF Stopped
<1>2. ASSUME NEW j \in Threads, Stray(j) PROVE (Stray(j))'
  <2>1. inst[j].run /\ inst[j].state = "closed" /\ j # t
    BY <1>1, <1>2 DEF Stray
  <2>2. Activated(j).run /\ Activated(j).state = "closed"
        /\ DOMAIN Activated(j) = {"state", "active", "run"}
    BY <2>1 DEF Activated, TypeOK, AgentType
  <2>3. inst'[j] = Activated(j) \/ inst'[j] = [Activated(j) EXCEPT !.state = "closed"]
    BY <2>1, <2>2 DEF Commit
  <2> QED
    BY <2>2, <2>3 DEF Stray
<1>3. ASSUME NEW j \in Threads, (Stray(j))', ~Stray(j) PROVE j = tx.sent /\ inst[j].state = "closed"
  <2>1. /\ \A i \in Threads : inst'[i].state =
               IF tx.staged = "deleted" /\ i = tx.ends
               THEN IF inst[i].state = "closed" THEN "closed" ELSE "closing"
               ELSE IF tx.staged = "agent" /\ Agent(On(t)) = Nobody /\ i = t THEN "live"
               ELSE inst[i].state
    BY CommitParts
  <2>2. inst'[j].run /\ inst'[j].state = "closed" /\ inst[j].state = "closed" /\ ~inst[j].run
    BY <1>3, <2>1 DEF Stray
  <2>3. j # t
    BY <1>1, <2>2
  <2>4. Activated(j).state = "closed" /\ DOMAIN Activated(j) = {"state", "active", "run"}
        /\ (j # tx.sent => ~Activated(j).run)
    BY <2>2 DEF Activated, TypeOK, AgentType
  <2>5. inst'[j] = Activated(j) \/ inst'[j] = [Activated(j) EXCEPT !.state = "closed"]
    BY <2>3, <2>4 DEF Commit
  <2> QED
    BY <2>2, <2>4, <2>5
<1>4. CASE \A j \in Threads : (Stray(j))' => Stray(j)
  BY <1>s, <1>2, <1>4, StraysOf DEF StrayNow
<1>5. ASSUME NEW i \in Threads, (Stray(i))', ~Stray(i)
      PROVE /\ Stopped /\ StrayNow = {} /\ StrayNow' = {On(t)}
            /\ tx.sent \in Threads \ {t} /\ inst[tx.sent].state = "closed"
            /\ NoOther(On(t), tx.sent)
            /\ \/ tx.staged = "nothing" /\ On(t) \in db.exists /\ Owes(On(t))
               \/ tx.staged = "deleted" /\ tx.ends = tx.sent
  <2>1. i = tx.sent /\ inst[i].state = "closed" /\ i # Nobody /\ i # t
    BY <1>1, <1>3, <1>5, ThreadKinds
  <2>2. /\ On(i) = On(t) /\ NoOther(On(t), i)
        /\ ~Stopped => Agent(On(t)) = i
        /\ \/ tx.staged = "nothing" /\ On(t) \in db.exists /\ Owes(On(t))
           \/ tx.staged = "deleted" /\ tx.ends = tx.sent
    BY <1>1, <2>1 DEF SentInv
  <2>3. Stopped
    <3>1. Agent(On(t)) = i => inst[i].state = "live" \/ Stopped
      BY <2>1, OnIsIdentity DEF Memory, AgentInv, Stopped
    <3> QED
      BY <2>1, <2>2, <3>1
  <2>4. StrayNow = {}
    BY <1>1, <2>1, NoStrays
  <2>5. StrayNow' = {On(t)}
    <3>1. \A j \in Threads : (Stray(j))' <=> j = i
      BY <1>3, <1>5, <2>1, <2>4, OnIsIdentity DEF StrayNow
    <3> QED
      BY <2>2, <3>1, StraysOf, OnIsIdentity
  <2> QED
    BY <2>1, <2>2, <2>3, <2>4, <2>5
<1> QED
  BY <1>s, <1>4, <1>5

(* Nobody else starts or ends work, and nobody else is handed over.         *)
LEMMA WorkersStay ==
    ASSUME TypeOK, [Next]_vars,
           \A j \in Threads : inst'[j].state \in AtWork <=> inst[j].state \in AtWork
    PROVE WorkingNow' = WorkingNow
<1>1. \A u \in Threads : On(u)' = On(u)
  BY ThreadsGo DEF On
<1> QED
  BY <1>1 DEF WorkingNow

LEMMA LeaversStay ==
    ASSUME \A id \in Ids : sys'.transition[id] = sys.transition[id]
    PROVE LeavingNow' = LeavingNow
  BY DEF LeavingNow, HandedOver

(* Steps that change neither the database as others see it, nor who is at   *)
(* work, nor what is handed over, are none of what the system promises.     *)
LEMMA OwnsSame ==
    ASSUME TypeOK, [Next]_vars, Committed' = Committed, UNCHANGED <<StrayNow, Stopped>>,
           \A j \in Threads : inst'[j].state \in AtWork <=> inst[j].state \in AtWork,
           \A id \in Ids : sys'.transition[id] = sys.transition[id]
    PROVE UNCHANGED Owned!vars
  BY WorkersStay, LeaversStay DEF Owned!vars

(* Somebody is at work on an identity that an agent of it is at work on.    *)
LEMMA WorkingNowOn ==
    ASSUME NEW id \in Ids
    PROVE /\ WorkingNow[id] = {i \in Threads : On(i) = id /\ inst[i].state \in AtWork}
          /\ id \in LeavingNow <=> HandedOver(id)
  BY DEF WorkingNow, LeavingNow

(* The start and the end of the system and the calls outside a transaction, *)
(* up to where they write or publish, are no steps of it.                   *)
LEMMA CallsOwn ==
    ASSUME TypeOK, ThreadInv, Memory, [Next]_vars, UNCHANGED <<StrayNow, Stopped>>,
           \/ OpenSystem \/ ReadOwing \/ StartAgents \/ ReleaseStore
           \/ Drain \/ Close \/ UNCHANGED vars
           \/ \E t \in Threads : \/ Admit(t) \/ Await(t) \/ Lock(t) \/ Config(t) \/ ReadConfig(t)
                                 \/ Restore(t) \/ CreateProbe(t) \/ DeleteClose(t)
    PROVE Owns
<1> /\ sys \in SysType /\ inst \in [Threads -> AgentType]
  BY DEF TypeOK
<1>2. Committed' = Committed
  BY DEF OpenSystem, ReadOwing, StartAgents, ReleaseStore, Drain, Close, vars,
         Admit, Await, Lock, Config, ReadConfig, Restore, CreateProbe, DeleteClose, Committed
<1>3. sys'.transition = sys.transition
  <2>1. ASSUME NEW t \in Threads, ReadConfig(t) \/ CreateProbe(t)
        PROVE sys'.transition = sys.transition
    BY <2>1, OnIsIdentity, UnlockedParts DEF ReadConfig, CreateProbe
  <2>5. ASSUME NEW t \in Threads, Restore(t) PROVE sys'.transition = sys.transition
    BY <2>5, OnIsIdentity, RestoreParts DEF TypeOK
  <2>2. ASSUME NEW t \in Threads, Lock(t) \/ DeleteClose(t) PROVE sys'.transition = sys.transition
    BY <2>2 DEF Lock, DeleteClose, SysType
  <2>3. ASSUME NEW t \in Threads, Admit(t) \/ Await(t) \/ Config(t)
        PROVE sys'.transition = sys.transition
    BY <2>3 DEF Admit, Await, Config
  <2>4. ASSUME OpenSystem \/ ReadOwing \/ StartAgents \/ ReleaseStore
               \/ Drain \/ Close \/ UNCHANGED vars
        PROVE sys'.transition = sys.transition
    BY <2>4 DEF OpenSystem, ReadOwing, StartAgents, ReleaseStore, Drain, Close, vars, SysType
  <2> QED
    BY <2>1, <2>2, <2>3, <2>4, <2>5
<1>4. ASSUME NEW j \in Threads
      PROVE inst'[j].state \in AtWork <=> inst[j].state \in AtWork
  <2>1. CASE UNCHANGED inst
    BY <2>1
  <2>2. CASE StartAgents
    <3>1. [inst[j] EXCEPT !.run = ~sys.draining].state = inst[j].state
      BY DEF AgentType
    <3>2. CASE inst' # inst
      BY <2>2, <3>1, <3>2 DEF StartAgents
    <3> QED
      BY <2>1, <3>2
  <2>4. ASSUME NEW t \in Threads, DeleteClose(t)
        PROVE inst'[j].state \in AtWork <=> inst[j].state \in AtWork
    <3> DEFINE a == Agent(On(t))
    <3>1. a # Nobody => a \in Threads /\ inst[a].state = "live"
      BY <2>4, OnIsIdentity, AgentIsThread DEF DeleteClose, ThreadInv, InPlace, Memory, AgentInv
    <3>2. j # a => inst'[j] = inst[j]
      BY <2>4 DEF DeleteClose
    <3>3. j = a => inst'[j] = [inst[j] EXCEPT !.state = "closing"]
      BY <2>4, ThreadKinds DEF DeleteClose
    <3>4. [inst[j] EXCEPT !.state = "closing"].state = "closing"
      BY DEF AgentType
    <3> HIDE DEF a
    <3> QED
      BY <3>1, <3>2, <3>3, <3>4, ThreadKinds DEF AtWork
  <2>6. \/ UNCHANGED inst \/ StartAgents
        \/ \E t \in Threads : DeleteClose(t)
    BY DEF OpenSystem, ReadOwing, ReleaseStore, Drain, Close, vars,
           Admit, Await, Lock, Config, ReadConfig, Restore, CreateProbe
  <2> QED
    BY <2>1, <2>2, <2>4, <2>6
<1> QED
  BY <1>2, <1>3, <1>4, OwnsSame DEF Owns

(* The shutdown is, which tells the agents to leave.                        *)
LEMMA StopOwns ==
    ASSUME TypeOK, RunInv, [Next]_vars, CloseAgents
    PROVE Owns
<1> inst \in [Threads -> AgentType] /\ sys \in SysType
  BY DEF TypeOK
<1>1. Committed' = Committed /\ sys'.transition = sys.transition
      /\ ~Stopped /\ Stopped' = TRUE
  BY DEF CloseAgents, Committed, Stopped, SysType
<1>2. ASSUME NEW j \in Threads
      PROVE /\ inst'[j].state \in AtWork <=> inst[j].state \in AtWork
            /\ (Stray(j))' <=> Stray(j)
  <2>1. [inst[j] EXCEPT !.state = "closing"].state = "closing"
    BY DEF AgentType
  <2>2. inst'[j] \in {inst[j], [inst[j] EXCEPT !.state = "closing"]}
        /\ (inst[j].state # "live" => inst'[j] = inst[j])
    BY DEF CloseAgents
  <2> QED
    BY <2>1, <2>2 DEF AtWork, Stray
<1>3. StrayNow' = StrayNow
  BY <1>2, StraysOf DEF StrayNow
<1>4. WorkingNow' = WorkingNow /\ LeavingNow' = LeavingNow
  BY <1>1, <1>2, WorkersStay, LeaversStay
<1>5. Owned!Stop
  BY <1>1, <1>3, <1>4 DEF Owned!Stop
<1> QED
  BY <1>5 DEF Owns, Owned!Next

(* Nor is what a transaction does before it commits.                        *)
LEMMA TxOwns ==
    ASSUME TypeOK, ThreadInv, UseInv, Memory, [Next]_vars, UNCHANGED <<StrayNow, Stopped>>,
           NEW t \in Threads,
           \/ Begin(t) \/ Call(t) \/ TxUse(t) \/ TxCreate(t) \/ TxErase(t)
           \/ Refused(t) \/ Rollback(t)
    PROVE Owns
<1> inst \in [Threads -> AgentType]
  BY DEF TypeOK
<1>1. sys' = sys
  BY DEF Begin, Call, TxUse, TxCreate, TxErase, Refused, Rollback, Undo
<1>2. Committed' = Committed
  <2>1. CASE Begin(t)
    BY <2>1, ThreadKinds DEF Begin, Committed, DbFree
  <2>2. CASE Call(t) \/ TxUse(t) \/ TxCreate(t) \/ TxErase(t)
    BY <2>2, TxParts, ThreadKinds DEF Committed
  <2>3. CASE Refused(t) \/ Rollback(t)
    <3>1. tx.by = t /\ db' = tx.before /\ tx'.by = Nobody
      BY <2>3 DEF Refused, Rollback, Undo, Calls, NoTx
    <3> QED
      BY <3>1, ThreadKinds DEF Committed
  <2> QED
    BY <2>1, <2>2, <2>3
<1>3. ASSUME NEW j \in Threads
      PROVE inst'[j].state \in AtWork <=> inst[j].state \in AtWork
  <2>1. CASE inst' = inst
    BY <2>1
  <2>2. CASE /\ \E new : inst' = [inst EXCEPT ![t] = new] /\ new.state \in {"none", "loaded"}
             /\ inst[t].state \in {"none", "loaded"}
    <3>1. j # t => inst'[j] = inst[j]
      BY <2>2
    <3>2. inst'[t].state \in {"none", "loaded"}
      BY <2>2
    <3> QED
      BY <2>2, <3>1, <3>2 DEF AtWork
  <2>3. NoAgent.state = "none" /\ [NoAgent EXCEPT !.state = "loaded"].state = "loaded"
    BY DEF NoAgent
  <2>4. TxUse(t) \/ TxCreate(t) \/ Refused(t) \/ Rollback(t) => inst[t].state \in {"none", "loaded"}
    BY TxFacts DEF TxUse, TxCreate, Refused, Rollback, Calls
  <2>5. CASE TxUse(t)
    <3>1. [state |-> "loaded", active |-> Owes(On(t)), run |-> FALSE].state = "loaded"
      OBVIOUS
    <3> QED
      BY <2>1, <2>2, <2>4, <2>5, <3>1 DEF TxUse
  <2>6. CASE TxCreate(t)
    BY <2>1, <2>2, <2>3, <2>4, <2>6 DEF TxCreate
  <2>7. CASE Refused(t) \/ Rollback(t)
    BY <2>2, <2>3, <2>4, <2>7 DEF Refused, Rollback, Undo
  <2> QED
    BY <2>1, <2>5, <2>6, <2>7 DEF Begin, Call, TxErase
<1> QED
  BY <1>1, <1>2, <1>3, OwnsSame DEF Owns

(* No call is at a lock of an identity once the agents are told to leave.   *)
LEMMA LockedIsUnstopped ==
    ASSUME ThreadInv, NEW t \in Threads, work[t].pc \in Locked
    PROVE ~Stopped
  BY DEF ThreadInv, InPlace, Locked, Stopped

(* An agent is loaded where there is none, for an identity that exists.     *)
LEMMA LoadOwns ==
    ASSUME TypeOK, ThreadInv, UseInv, Disciplined, Memory, RunInv, [Next]_vars,
           UNCHANGED <<StrayNow, Stopped>>, NEW t \in Threads,
           ResolveLoad(t) \/ (t \in Ids /\ StartLoad(t))
    PROVE Owns
<1> PICK id \in Ids : id = On(t)
  BY OnIsIdentity
<1>1. /\ UNCHANGED <<db, tx>> /\ DbFree /\ work[t].pc = "load"
      /\ id \in Committed.exists /\ Committed' = Committed
  BY DEF ResolveLoad, StartLoad, Memory, IdentityInv, Committed
<1>2. /\ sys'.transition = sys.transition
      /\ \/ inst' = inst
         \/ /\ Agent(id) = Nobody
            /\ \E active, start \in BOOLEAN :
                   inst' = [inst EXCEPT ![t] = Published(active, start)]
  BY PublishUnlocks DEF ThreadInv
<1>3. LeavingNow' = LeavingNow
  BY <1>2, LeaversStay
<1>4. CASE inst' = inst
  BY <1>1, <1>2, <1>4, OwnsSame DEF Owns
<1>5. CASE Agent(id) = Nobody /\ \E active, start \in BOOLEAN :
               inst' = [inst EXCEPT ![t] = Published(active, start)]
  <2>1. /\ ~HandedOver(id)
        /\ \A j \in Threads : On(j) = id => inst[j].state \notin AtWork
    BY <1>1, <1>5, LockedIsIdle DEF Locked
  <2>2. /\ \A j \in Threads \ {t} : inst'[j] = inst[j]
        /\ inst'[t].state \in AtWork
    BY <1>5 DEF Published, AtWork, TypeOK
  <2>3. WorkingNow[id] = {} /\ id \notin LeavingNow
    BY <2>1, WorkingNowOn
  <2>4. WorkingNow' = [WorkingNow EXCEPT ![id] = {t}]
    <3>1. {t} = {j \in Threads : On(j) = id /\ inst'[j].state \in AtWork}
      BY <2>1, <2>2
    <3>2. \A j \in Threads : On(j) # id => (inst'[j].state \in AtWork <=> inst[j].state \in AtWork)
      BY <2>2
    <3> QED
      BY <3>1, <3>2, WorkersOf, Zenon
  <2>5. (Committed.store)' = [Committed.store EXCEPT ![id] = Committed.store[id]]
    <3>1. Committed \in DbType
      BY <1>1 DEF DbFree, Committed, TypeOK
    <3> QED
      BY <1>1, <3>1 DEF DbType
  <2>7. StrayNow = {}
    BY <1>1, LockedIsUnstopped, NoStrays DEF Locked
  <2>6. Owned!Load(id, t)
    BY <1>1, <1>3, <2>3, <2>4, <2>5, <2>7
    DEF Owned!Load, Owned!Idle, Owned!Works, Owned!Holds
  <2> QED
    BY <2>6 DEF Owns, Owned!Next
<1> QED
  BY <1>2, <1>4, <1>5

(* What an earlier incarnation left is replaced.                            *)
LEMMA PrepareOwns ==
    ASSUME TypeOK, ThreadInv, UseInv, Disciplined, Memory, RunInv, ReservedInv, [Next]_vars,
           UNCHANGED <<StrayNow, Stopped>>, NEW t \in Threads, Prepare(t)
    PROVE Owns
<1> PICK id \in Ids : id = On(t)
  BY OnIsIdentity
<1>1. /\ DbFree /\ UNCHANGED <<tx, sys, inst>> /\ work[t].pc = "prepare"
      /\ db' = [db EXCEPT !.store[id] = "settled"]
  BY DEF Prepare
<1>2. /\ Committed = db /\ Committed' = db' /\ db'.exists = db.exists
      /\ db'.store = [db.store EXCEPT ![id] = "settled"]
  BY <1>1 DEF DbFree, Committed, TypeOK, DbType
<1>3. id \notin Committed.exists /\ Agent(id) = Nobody
  BY <1>1 DEF ReservedInv, Memory, IdentityInv, AgentHasIdentity
<1>4. /\ ~HandedOver(id)
      /\ \A j \in Threads : On(j) = id => inst[j].state \notin AtWork
  BY <1>1, <1>3, LockedIsIdle DEF Locked
<1>5. WorkingNow[id] = {} /\ id \notin LeavingNow
  BY <1>4, WorkingNowOn
<1>6. WorkingNow' = WorkingNow /\ LeavingNow' = LeavingNow
  BY <1>1, WorkersStay, LeaversStay
<1>s. StrayNow = {}
  BY <1>1, LockedIsUnstopped, NoStrays DEF Locked
<1>7. Owned!Clear(id)
  BY <1>2, <1>3, <1>5, <1>6, <1>s DEF Owned!Clear, Owned!Idle, Owned!Holds
<1> QED
  BY <1>7 DEF Owns, Owned!Next

(* A creation commits an identity that did not exist, with its one agent.   *)
LEMMA CreateOwns ==
    ASSUME TypeOK, ThreadInv, UseInv, Disciplined, Memory, RunInv, ReservedInv, [Next]_vars,
           UNCHANGED <<StrayNow, Stopped>>, NEW t \in Threads, CreateCommit(t)
    PROVE Owns
<1> PICK id \in Ids : id = On(t)
  BY OnIsIdentity
<1>1. /\ DbFree /\ UNCHANGED tx /\ work[t].pc = "commit"
      /\ db' = [db EXCEPT !.exists = @ \cup {id}]
  BY DEF CreateCommit
<1>2. /\ Committed = db /\ Committed' = db' /\ db'.exists = db.exists \cup {id}
      /\ db'.store = db.store
  BY <1>1 DEF DbFree, Committed, TypeOK, DbType
<1>3. id \notin db.exists /\ Agent(id) = Nobody /\ db.store[id] = "settled"
  BY <1>1, <1>2 DEF ReservedInv, Memory, IdentityInv, AgentHasIdentity
<1>4. /\ ~HandedOver(id)
      /\ \A j \in Threads : On(j) = id => inst[j].state \notin AtWork
  BY <1>1, <1>3, LockedIsIdle DEF Locked
<1>5. /\ \A j \in Threads \ {t} : inst'[j] = inst[j]
      /\ inst'[t].state \in AtWork
  <2>1. inst' = [inst EXCEPT ![t] = Published(FALSE, FALSE)]
    BY <1>3 DEF CreateCommit
  <2> QED
    BY <2>1 DEF Published, AtWork, TypeOK
<1>6. sys'.transition = sys.transition
  <2>1. Unlocked(sys, id) \in SysType /\ Unlocked(sys, id).transition = sys.transition
    BY UnlockedParts DEF TypeOK
  <2> QED
    BY <2>1 DEF CreateCommit, SysType
<1>7. WorkingNow[id] = {} /\ id \notin LeavingNow
  BY <1>4, WorkingNowOn
<1>8. LeavingNow' = LeavingNow
  BY <1>6, LeaversStay
<1>9. WorkingNow' = [WorkingNow EXCEPT ![id] = {t}]
  <2>1. {t} = {j \in Threads : On(j) = id /\ inst'[j].state \in AtWork}
    BY <1>4, <1>5
  <2>2. \A j \in Threads : On(j) # id => (inst'[j].state \in AtWork <=> inst[j].state \in AtWork)
    BY <1>5
  <2> QED
    BY <2>1, <2>2, WorkersOf, Zenon
<1>10. db'.store = [db.store EXCEPT ![id] = "settled"]
  BY <1>2, <1>3 DEF TypeOK, DbType
<1>s. StrayNow = {}
  BY <1>1, LockedIsUnstopped, NoStrays DEF Locked
<1>11. Owned!Create(id, t)
  BY <1>2, <1>3, <1>7, <1>8, <1>9, <1>10, <1>s
  DEF Owned!Create, Owned!Idle, Owned!Works, Owned!Holds
<1> QED
  BY <1>11 DEF Owns, Owned!Next

(* A message is admitted by an agent at work.                               *)
LEMMA AcceptOwns ==
    ASSUME TypeOK, AcceptInv, [Next]_vars, UNCHANGED <<StrayNow, Stopped>>,
           NEW t \in Threads, Accept(t)
    PROVE Owns
<1> PICK id \in Ids : id = On(t)
  BY OnIsIdentity
<1>1. /\ DbFree /\ UNCHANGED <<tx, sys>> /\ work[t].pc = "accept"
      /\ db' = [db EXCEPT !.store[id] = "owed"]
      /\ \A j \in Threads : inst'[j].state = inst[j].state
  BY DEF Accept, TypeOK, AgentType
<1>2. /\ Committed = db /\ Committed' = db' /\ db'.exists = db.exists
      /\ db'.store = [db.store EXCEPT ![id] = "owed"]
  BY <1>1 DEF DbFree, Committed, TypeOK, DbType
<1>3. WorkingNow[id] # {}
  BY <1>1, WorkingNowOn DEF AcceptInv
<1>4. WorkingNow' = WorkingNow /\ LeavingNow' = LeavingNow
  BY <1>1, WorkersStay, LeaversStay
<1>5. Owned!Write(id)
  BY <1>2, <1>3, <1>4 DEF Owned!Write, Owned!Holds
<1> QED
  BY <1>5 DEF Owns, Owned!Next

(* So is what a run wrote; or it is the stray's.                           *)
LEMMA RunOwns ==
    ASSUME TypeOK, RunInv, [Next]_vars, NEW i \in Threads, RunEnds(i)
    PROVE Owns
<1> PICK id \in Ids : id = On(i)
  BY OnIsIdentity
<1>1. /\ DbFree /\ UNCHANGED <<tx, sys>> /\ inst[i].run /\ ~inst'[i].run
      /\ \A j \in Threads : inst'[j].state = inst[j].state
      /\ \A j \in Threads \ {i} : inst'[j] = inst[j]
  BY DEF RunEnds, TypeOK, AgentType
<1>2. PICK left \in {"settled", "owed", db.store[id]} : db' = [db EXCEPT !.store[id] = left]
  BY DEF RunEnds
<1>3. /\ Committed = db /\ Committed' = db' /\ db'.exists = db.exists
      /\ db'.store = [db.store EXCEPT ![id] = left]
  BY <1>1, <1>2 DEF DbFree, Committed, TypeOK, DbType
<1>5. WorkingNow' = WorkingNow /\ LeavingNow' = LeavingNow /\ Stopped' = Stopped
  BY <1>1, WorkersStay, LeaversStay DEF Stopped
<1>6. CASE inst[i].state \in AtWork
  <2>1. \A j \in Threads : (Stray(j))' <=> Stray(j)
    BY <1>1, <1>6 DEF Stray, AtWork
  <2>2. StrayNow' = StrayNow
    BY <2>1, StraysOf DEF StrayNow
  <2>3. WorkingNow[id] # {}
    BY <1>6, WorkingNowOn
  <2>4. CASE left \in {"settled", "owed"}
    <3>1. Owned!Write(id)
      BY <1>3, <1>5, <2>2, <2>3, <2>4 DEF Owned!Write, Owned!Holds
    <3> QED
      BY <3>1 DEF Owns, Owned!Next
  <2>5. CASE left = db.store[id]
    <3>1. db'.store = db.store
      BY <1>3, <2>5 DEF TypeOK, DbType
    <3> QED
      BY <1>3, <1>5, <2>2, <3>1 DEF Owns, Owned!vars
  <2> QED
    BY <1>2, <2>4, <2>5
<1>7. CASE Stray(i)
  <2>1. \A j \in Threads : Stray(j) => j = i
    BY <1>7 DEF RunInv
  <2>2. \A j \in Threads : ~(Stray(j))'
    BY <1>1, <2>1 DEF Stray
  <2>3. StrayNow = {id} /\ StrayNow' = {}
    BY <1>7, <2>1, <2>2, StraysOf DEF StrayNow
  <2>4. Owned!StrayWrite(id)
    BY <1>3, <1>5, <2>3 DEF Owned!StrayWrite, Owned!Holds
  <2> QED
    BY <2>4 DEF Owns, Owned!Next
<1> QED
  BY <1>1, <1>6, <1>7 DEF RunInv

(* An agent leaves when its close has ended: it was the one.                *)
LEMMA CloseOwns ==
    ASSUME TypeOK, Memory, [Next]_vars, UNCHANGED <<StrayNow, Stopped>>,
           NEW i \in Threads, CloseEnds(i)
    PROVE Owns
<1> PICK id \in Ids : id = On(i)
  BY OnIsIdentity
<1>1. UNCHANGED <<db, tx, sys>> /\ inst[i].state = "closing"
      /\ \A j \in Threads : inst'[j].state = IF j = i THEN "closed" ELSE inst[j].state
  BY DEF CloseEnds, TypeOK, AgentType
<1>2. \A j \in Threads : On(j) = id => inst'[j].state \notin AtWork
  BY <1>1 DEF Memory, OneInstance, AtWork
<1>3. WorkingNow' = [WorkingNow EXCEPT ![id] = {}]
  <2>1. {} = {j \in Threads : On(j) = id /\ inst'[j].state \in AtWork}
    BY <1>2
  <2> QED
    BY <1>1, <2>1, WorkersOf
<1>4. LeavingNow' = LeavingNow /\ Committed' = Committed
  BY <1>1, LeaversStay DEF Committed
<1>5. Owned!Leave(id)
  BY <1>3, <1>4 DEF Owned!Leave, Owned!Works
<1> QED
  BY <1>5 DEF Owns, Owned!Next

(* A deletion that waits for its agent to close, and has the lock, leaves   *)
(* nobody at work.                                                          *)
LEMMA DroppedIsIdle ==
    ASSUME TypeOK, ThreadInv, UseInv, Disciplined, Memory, NEW t \in Threads,
           work[t].pc = "drop",
           work[t].agent # Nobody => inst[work[t].agent].state = "closed"
    PROVE \A j \in Threads : On(j) = On(t) => inst[j].state \notin AtWork
<1> SUFFICES ASSUME NEW j \in Threads, On(j) = On(t), inst[j].state \in AtWork PROVE FALSE
  OBVIOUS
<1> PICK id \in Ids : id = On(t)
  BY OnIsIdentity
<1>1. ~HandedOver(id) /\ InPlace(t) /\ Agent(id) = Nobody
  BY LockedIsNotHandedOver DEF Locked, ThreadInv, Memory, AgentInv
<1>2. sys.lifecycle \notin {"stopping", "closed"} /\ j # Nobody
  BY <1>1, ThreadKinds DEF InPlace
<1>3. inst[j].state = "closing"
  BY <1>1, <1>2 DEF AtWork, Memory, OneInstance
<1>4. PICK u \in Callers : work[u].pc = "drop" /\ work[u].agent = j /\ On(u) = id
  BY <1>1, <1>2, <1>3 DEF Memory, AgentInv, HandedOver
<1>5. u = t
  BY <1>1, <1>4, ThreadKinds DEF ThreadInv, InPlace, Locked
<1> QED
  BY <1>2, <1>3, <1>4, <1>5

(* An identity is deleted when nobody is at work on it.                     *)
LEMMA DropOwns ==
    ASSUME TypeOK, ThreadInv, UseInv, Disciplined, Memory, RunInv, [Next]_vars,
           UNCHANGED <<StrayNow, Stopped>>,
           NEW t \in Threads, NEW erase \in BOOLEAN, DeleteDrop(t, erase)
    PROVE Owns
<1> PICK id \in Ids : id = On(t)
  BY OnIsIdentity
<1>1. /\ DbFree /\ UNCHANGED <<tx, inst>> /\ work[t].pc = "drop"
      /\ work[t].agent # Nobody => inst[work[t].agent].state = "closed"
  BY DEF DeleteDrop
<1>2. /\ Committed = db /\ Committed' = db' /\ db'.exists = db.exists \ {id}
      /\ db'.store = [db.store EXCEPT ![id] = IF erase THEN "empty" ELSE db.store[id]]
  BY <1>1 DEF DeleteDrop, DbFree, Committed, TypeOK, DbType
<1>3. sys'.transition = sys.transition
  <2>1. Unlocked(sys, id) \in SysType /\ Unlocked(sys, id).transition = sys.transition
    BY UnlockedParts DEF TypeOK
  <2> QED
    BY <2>1 DEF DeleteDrop, SysType
<1>5. ~HandedOver(id) /\ InPlace(t) /\ Agent(id) = Nobody
  BY <1>1, LockedIsNotHandedOver DEF Locked, ThreadInv, Memory, AgentInv
<1>6. \A j \in Threads : On(j) = id => inst[j].state \notin AtWork
  BY <1>1, DroppedIsIdle
<1>7. WorkingNow[id] = {} /\ id \notin LeavingNow
  BY <1>5, <1>6, WorkingNowOn
<1>8. WorkingNow' = WorkingNow /\ LeavingNow' = LeavingNow
  BY <1>1, <1>3, WorkersStay, LeaversStay
<1>s. StrayNow = {}
  BY <1>1, LockedIsUnstopped, NoStrays DEF Locked
<1>9. Owned!Delete(id)
  BY <1>2, <1>7, <1>8, <1>s DEF Owned!Delete, Owned!Idle, Owned!Holds
<1> QED
  BY <1>9 DEF Owns, Owned!Next

(* When a handover ends, its agent has left and the store is empty.         *)
LEMMA VacateOwns ==
    ASSUME TypeOK, ErasureInv, LeavingInv, [Next]_vars, UNCHANGED <<StrayNow, Stopped>>,
           NEW id \in Ids, FinishHandover(id)
    PROVE Owns
<1>1. /\ DbFree /\ UNCHANGED <<tx, inst>>
      /\ sys.transition[id] # Nobody /\ inst[sys.transition[id]].state = "closed"
      /\ db' = [db EXCEPT !.store[id] = ErasedAgain(id)]
      /\ sys' = [sys EXCEPT !.transition[id] = Nobody]
  BY DEF FinishHandover
<1>2. Committed = db /\ Committed' = db'
  BY <1>1 DEF DbFree, Committed
<1>3. Erased(id) /\ HandedOver(id)
  BY <1>1 DEF LeavingInv, ErasureInv, HandedOver
<1>4. db'.exists = db.exists /\ db'.store = [db.store EXCEPT ![id] = "empty"]
  <2>1. ErasedAgain(id) = "empty"
    BY <1>2, <1>3 DEF ErasedAgain, Erased
  <2> QED
    BY <1>1, <2>1 DEF TypeOK, DbType
<1>5. \A j \in Threads : On(j) = id => inst[j].state \notin AtWork
  BY <1>1, <1>3 DEF Erased, NoOther, AtWork
<1>6. WorkingNow[id] = {} /\ id \in LeavingNow
  BY <1>3, <1>5, WorkingNowOn
<1>7. WorkingNow' = WorkingNow
  BY <1>1, WorkersStay
<1>8. LeavingNow' = LeavingNow \ {id}
  <2>1. \A o \in Ids : sys'.transition[o] = IF o = id THEN Nobody ELSE sys.transition[o]
    BY <1>1 DEF TypeOK, SysType
  <2> QED
    BY <2>1 DEF LeavingNow, HandedOver
<1>9. Owned!Vacate(id)
  BY <1>2, <1>4, <1>6, <1>7, <1>8 DEF Owned!Vacate, Owned!Holds
<1> QED
  BY <1>9 DEF Owns, Owned!Next

(* A commit, by what its transaction has staged.  With an agent, it loads or*)
(* creates; the identity had none.                                          *)
LEMMA CommitOwnsAgent ==
    ASSUME TypeOK, ThreadInv, UseInv, Memory, RunInv, AcceptInv, SentInv, ErasureInv, WroteInv,
           [Next]_vars, NEW t \in Threads, Commit(t), tx.staged = "agent"
    PROVE Owns
<1> PICK id \in Ids : id = On(t)
  BY OnIsIdentity
<1>1. /\ tx # NoTx /\ tx.by = t
      /\ Committed = tx.before /\ Committed' = db /\ tx.before \in DbType /\ db \in DbType
      /\ db.exists \ {id} = tx.before.exists \ {id} /\ id \in db.exists
      /\ \A other \in Ids \ {id} : db.store[other] = tx.before.store[other]
      /\ id \in tx.before.exists => db.store[id] \in {tx.before.store[id], "owed"}
      /\ id \notin tx.before.exists => db.store[id] \in {"settled", "owed"}
      /\ ~HandedOver(id)
  BY CommitWrites
<1>2. Agent(id) = Nobody /\ NoOther(id, t) /\ inst[t].state = "loaded"
  BY <1>1 DEF Memory, StagedInv
<1>3. /\ \A i \in Ids : sys'.transition[i] = sys.transition[i]
      /\ \A i \in Threads : inst'[i].state = IF i = t THEN "live" ELSE inst[i].state
  BY <1>2, CommitParts
<1>4. WorkingNow[id] = {} /\ id \notin LeavingNow
  BY <1>1, <1>2, WorkingNowOn DEF NoOther, AtWork
<1>5. WorkingNow' = [WorkingNow EXCEPT ![id] = {t}]
  <2>1. {t} = {j \in Threads : On(j) = id /\ inst'[j].state \in AtWork}
    BY <1>2, <1>3 DEF NoOther, AtWork
  <2>2. \A j \in Threads : On(j) # id => (inst'[j].state \in AtWork <=> inst[j].state \in AtWork)
    BY <1>3
  <2> QED
    BY <2>1, <2>2, WorkersOf, Zenon
<1>6. LeavingNow' = LeavingNow
  BY <1>3, LeaversStay
<1>7. db.store = [tx.before.store EXCEPT ![id] = db.store[id]]
  BY <1>1 DEF DbType
<1>s. Stopped' = Stopped /\ StrayNow = {} /\ StrayNow' = StrayNow
  BY <1>1, CommitStrays, NoStrays
<1>8. CASE id \in tx.before.exists
  <2>1. db.exists = tx.before.exists
    BY <1>1, <1>8
  <2>2. Owned!Load(id, t)
    BY <1>1, <1>4, <1>5, <1>6, <1>7, <1>8, <1>s, <2>1
    DEF Owned!Load, Owned!Idle, Owned!Works, Owned!Holds
  <2> QED
    BY <2>2 DEF Owns, Owned!Next
<1>9. CASE id \notin tx.before.exists
  <2>1. db.exists = tx.before.exists \cup {id}
    BY <1>1, <1>9
  <2>2. Owned!Create(id, t)
    BY <1>1, <1>4, <1>5, <1>6, <1>7, <1>9, <1>s, <2>1
    DEF Owned!Create, Owned!Idle, Owned!Works, Owned!Holds
  <2> QED
    BY <2>2 DEF Owns, Owned!Next
<1> QED
  BY <1>8, <1>9

(* With a deletion it erases: whoever is at work has to leave now.          *)
LEMMA CommitOwnsErasure ==
    ASSUME TypeOK, ThreadInv, UseInv, Memory, RunInv, AcceptInv, SentInv, ErasureInv, WroteInv,
           [Next]_vars, NEW t \in Threads, Commit(t), tx.staged = "deleted"
    PROVE Owns
<1> PICK id \in Ids : id = On(t)
  BY OnIsIdentity
<1>1. /\ tx # NoTx /\ tx.by = t /\ tx \in TxType
      /\ Committed = tx.before /\ Committed' = db /\ tx.before \in DbType /\ db \in DbType
      /\ db.exists \ {id} = tx.before.exists \ {id} /\ id \notin db.exists
      /\ \A other \in Ids \ {id} : db.store[other] = tx.before.store[other]
      /\ db.store[id] = "empty"
      /\ ~HandedOver(id)
  BY CommitWrites
<1>2. /\ NoOther(id, tx.ends)
      /\ tx.ends = t => inst[t].state = "loaded"
      /\ tx.ends \notin {t, Nobody} =>
            /\ On(tx.ends) = id
            /\ Agent(id) # tx.ends => inst[tx.ends].state = "closed"
  BY <1>1 DEF Memory, StagedInv
<1>3. /\ \A i \in Ids : sys'.transition[i] = IF i = id THEN tx.ends ELSE sys.transition[i]
      /\ \A i \in Threads : inst'[i].state =
             IF i = tx.ends THEN IF inst[i].state = "closed" THEN "closed" ELSE "closing"
             ELSE inst[i].state
  <2>1. \A i \in Ids : sys'.transition[i] = IF i = id THEN tx.ends ELSE sys.transition[i]
    BY CommitParts
  <2>2. \A i \in Threads : inst'[i].state =
             IF tx.staged = "deleted" /\ i = tx.ends
             THEN IF inst[i].state = "closed" THEN "closed" ELSE "closing"
             ELSE IF (tx.staged = "agent" /\ Agent(On(t)) = Nobody) /\ i = t THEN "live"
             ELSE inst[i].state
    BY CommitParts
  <2> QED
    BY <2>1, <2>2
<1>4. id \notin LeavingNow /\ WorkingNow[id] = {i \in Threads : On(i) = id /\ inst[i].state \in AtWork}
  BY <1>1, WorkingNowOn
<1>5. /\ db.exists = tx.before.exists \ {id}
      /\ db.store = [tx.before.store EXCEPT ![id] = "empty"]
  BY <1>1 DEF DbType
<1>6. LeavingNow' = IF tx.ends = Nobody THEN LeavingNow ELSE LeavingNow \cup {id}
  BY <1>3, <1>4 DEF LeavingNow, HandedOver
<1>7. tx.ends \in Threads \cup {Nobody}
  BY <1>1 DEF TxType, Whom
<1>s. /\ Stopped' = Stopped /\ StrayNow = {}
      /\ \/ StrayNow' = StrayNow
         \/ /\ Stopped /\ StrayNow' = {id} /\ tx.ends \notin {t, Nobody}
            /\ NoOther(id, tx.ends) /\ inst[tx.ends].state = "closed"
  BY <1>1, CommitStrays, NoStrays, ThreadKinds
<1>8. CASE tx.ends = Nobody
  <2>1. WorkingNow' = WorkingNow
    <3>1. \A j \in Threads : inst'[j].state \in AtWork <=> inst[j].state \in AtWork
      BY <1>3, <1>8, ThreadKinds
    <3> QED
      BY <3>1, WorkersStay
  <2>2. WorkingNow[id] = {}
    BY <1>2, <1>4, <1>8, ThreadKinds DEF NoOther
  <2>3. Owned!Erase(id)
    BY <1>1, <1>4, <1>5, <1>6, <1>8, <1>s, <2>1, <2>2 DEF Owned!Erase, Owned!Works, Owned!Holds
  <2> QED
    BY <2>3 DEF Owns, Owned!Next
<1>9. CASE tx.ends = t
  <2>1. WorkingNow' = [WorkingNow EXCEPT ![id] = {t}]
    <3>1. {t} = {j \in Threads : On(j) = id /\ inst'[j].state \in AtWork}
      BY <1>2, <1>3, <1>9 DEF NoOther, AtWork
    <3>2. \A j \in Threads : On(j) # id => (inst'[j].state \in AtWork <=> inst[j].state \in AtWork)
      BY <1>3, <1>9
    <3> QED
      BY <3>1, <3>2, WorkersOf, Zenon
  <2>2. WorkingNow[id] = {} /\ t # Nobody
    BY <1>2, <1>4, <1>9, ThreadKinds DEF NoOther, AtWork
  <2>3. Owned!Erase(id)
    BY <1>1, <1>4, <1>5, <1>6, <1>9, <1>s, <2>1, <2>2
    DEF Owned!Erase, Owned!Idle, Owned!Works, Owned!Holds
  <2> QED
    BY <2>3 DEF Owns, Owned!Next
<1>10. CASE tx.ends \notin {t, Nobody}
  <2>1. inst[tx.ends].state \in {"live", "closing", "closed"}
    <3>1. Agent(id) = tx.ends => inst[tx.ends].state \in {"live", "closing", "closed"}
      BY <1>10 DEF Memory, AgentInv
    <3> QED
      BY <1>2, <1>10, <3>1
  <2>2. WorkingNow' = WorkingNow
    <3>1. \A j \in Threads : inst'[j].state \in AtWork <=> inst[j].state \in AtWork
      BY <1>3, <2>1 DEF AtWork
    <3> QED
      BY <3>1, WorkersStay
  <2>3. StrayNow' = StrayNow \/ Owned!GoesAstray(id)
    <3>1. CASE NoOther(id, tx.ends) /\ inst[tx.ends].state = "closed"
      <4>1. WorkingNow[id] = {}
        BY <1>4, <3>1 DEF NoOther, AtWork
      <4> QED
        BY <1>s, <4>1 DEF Owned!GoesAstray
    <3> QED
      BY <1>s, <3>1
  <2>4. Owned!Erase(id)
    BY <1>1, <1>4, <1>5, <1>6, <1>10, <1>s, <2>2, <2>3 DEF Owned!Erase, Owned!Works, Owned!Holds
  <2> QED
    BY <2>4 DEF Owns, Owned!Next
<1> QED
  BY <1>8, <1>9, <1>10

(* With neither, it has sent a message to an identity, or done nothing.     *)
LEMMA CommitOwnsMessage ==
    ASSUME TypeOK, ThreadInv, UseInv, Memory, RunInv, AcceptInv, SentInv, ErasureInv, WroteInv,
           [Next]_vars, NEW t \in Threads, Commit(t), tx.staged = "nothing"
    PROVE Owns
<1> PICK id \in Ids : id = On(t)
  BY OnIsIdentity
<1>1. /\ tx # NoTx /\ tx.by = t
      /\ Committed = tx.before /\ Committed' = db /\ tx.before \in DbType /\ db \in DbType
      /\ db.exists = tx.before.exists
      /\ \A other \in Ids \ {id} : db.store[other] = tx.before.store[other]
      /\ id \in tx.before.exists => db.store[id] \in {tx.before.store[id], "owed"}
      /\ id \notin db.exists => db.store[id] = tx.before.store[id]
  BY CommitWrites
<1>2. /\ \A i \in Ids : sys'.transition[i] = sys.transition[i]
      /\ \A i \in Threads : inst'[i].state = inst[i].state
  BY CommitParts
<1>3. WorkingNow' = WorkingNow /\ LeavingNow' = LeavingNow
  BY <1>2, WorkersStay, LeaversStay
<1>4. CASE db.store[id] = tx.before.store[id] /\ StrayNow' = StrayNow
  <2>1. db.store = tx.before.store
    BY <1>1, <1>4 DEF DbType
  <2>2. Stopped' = Stopped
    BY CommitStrays
  <2> QED
    BY <1>1, <1>3, <1>4, <2>1, <2>2 DEF Owns, Owned!vars
<1>5. CASE ~(db.store[id] = tx.before.store[id] /\ StrayNow' = StrayNow)
  <2>1. Stopped' = Stopped /\ (StrayNow' = StrayNow \/ Owned!GoesAstray(id))
    <3>1. \A i : NoOther(id, i) /\ inst[i].state = "closed" => WorkingNow[id] = {}
      BY WorkingNowOn DEF NoOther, AtWork
    <3> QED
      BY <3>1, CommitStrays DEF Owned!GoesAstray
  <2>2. id \in tx.before.exists /\ db.store[id] = "owed"
    BY <1>1, <1>5, CommitStrays DEF Owes
  <2>3. db.store = [tx.before.store EXCEPT ![id] = "owed"]
    BY <1>1, <2>2 DEF DbType
  <2>4. Owned!Send(id)
    BY <1>1, <1>3, <2>1, <2>2, <2>3 DEF Owned!Send, Owned!Holds
  <2> QED
    BY <2>4 DEF Owns, Owned!Next
<1> QED
  BY <1>4, <1>5

(* Every step of the system is a step of its promise, or none.              *)
LEMMA OwnsStep ==
    ASSUME Disciplined, WriterInv, [Next]_vars
    PROVE Owns
<1>p. /\ TypeOK /\ ThreadInv /\ UseInv /\ Memory /\ RunInv /\ AcceptInv /\ SentInv
      /\ ErasureInv /\ ReservedInv /\ LeavingInv /\ WroteInv
  BY SystemParts DEF WriterInv
<1>n. Ids \subseteq Threads
  BY ThreadKinds
<1>1. CASE CloseAgents
  BY <1>1, <1>p, StopOwns
<1>2. ASSUME NEW t \in Threads, Commit(t) PROVE Owns
  <2>1. tx.staged \in {"nothing", "agent", "deleted"}
    BY <1>2, <1>p, CommitWrites DEF TxType
  <2> QED
    BY <1>2, <1>p, <2>1, CommitOwnsAgent, CommitOwnsErasure, CommitOwnsMessage
<1>3. ASSUME NEW i \in Threads, RunEnds(i) PROVE Owns
  BY <1>3, <1>p, RunOwns
<1>4. CASE ~CloseAgents /\ \A t \in Threads : ~Commit(t) /\ ~RunEnds(t)
  <2>s. UNCHANGED <<StrayNow, Stopped>>
    BY <1>4, <1>p, StraysStay
  <2>1. ASSUME \/ OpenSystem \/ ReadOwing \/ StartAgents \/ ReleaseStore
               \/ Drain \/ Close \/ UNCHANGED vars
        PROVE Owns
    BY <2>1, <1>p, <2>s, CallsOwn
  <2>2. ASSUME NEW t \in Threads,
               \/ Admit(t) \/ Await(t) \/ Lock(t) \/ Config(t) \/ ReadConfig(t)
               \/ Restore(t) \/ CreateProbe(t) \/ DeleteClose(t)
        PROVE Owns
    BY <2>2, <1>p, <2>s, CallsOwn
  <2>3. ASSUME NEW t \in Threads,
               \/ Begin(t) \/ Call(t) \/ TxUse(t) \/ TxCreate(t) \/ TxErase(t)
               \/ Refused(t) \/ Rollback(t)
        PROVE Owns
    BY <2>3, <1>p, <2>s, TxOwns
  <2>4. ASSUME NEW t \in Threads, ResolveLoad(t) \/ (t \in Ids /\ StartLoad(t)) PROVE Owns
    BY <2>4, <1>p, <2>s, LoadOwns
  <2>5. ASSUME NEW t \in Threads, Prepare(t) PROVE Owns
    BY <2>5, <1>p, <2>s, PrepareOwns
  <2>6. ASSUME NEW t \in Threads, CreateCommit(t) PROVE Owns
    BY <2>6, <1>p, <2>s, CreateOwns
  <2>7. ASSUME NEW t \in Threads, Accept(t) PROVE Owns
    BY <2>7, <1>p, <2>s, AcceptOwns
  <2>8. ASSUME NEW i \in Threads, CloseEnds(i) PROVE Owns
    BY <2>8, <1>p, <2>s, CloseOwns
  <2>9. ASSUME NEW t \in Threads, NEW erase \in BOOLEAN, DeleteDrop(t, erase) PROVE Owns
    BY <2>9, <1>p, <2>s, DropOwns
  <2>10. ASSUME NEW id \in Ids, FinishHandover(id) PROVE Owns
    BY <2>10, <1>p, <2>s, VacateOwns
  <2> QED
    BY <1>4, <1>n, <2>1, <2>2, <2>3, <2>4, <2>5, <2>6, <2>7, <2>8, <2>9, <2>10
    DEF Next, Starting, Stopping, Proceeds, Ends
<1> QED
  BY <1>1, <1>2, <1>3, <1>4

(* A process starts with nobody at work or astray and nothing handed over.  *)
LEMMA OwnsInit == Init => Owned!Init
<1> SUFFICES ASSUME Init PROVE Owned!Init
  OBVIOUS
<1>1. Committed = db
  BY DEF Init, Committed, NoTx
<1>2. WorkingNow = [id \in Ids |-> {}]
  <2>1. \A i \in Threads : inst[i].state \notin AtWork
    BY DEF Init, NoAgent, AtWork
  <2> QED
    BY <2>1 DEF WorkingNow
<1>3. LeavingNow = {}
  BY DEF Init, LeavingNow, HandedOver
<1>4. /\ db \in [exists : SUBSET Ids, store : [Ids -> {"empty", "settled", "owed"}]]
      /\ \A id \in db.exists : db.store[id] # "empty"
  BY DEF Init
<1>5. StrayNow = {} /\ ~Stopped
  BY DEF Init, NoAgent, StrayNow, Stray, Stopped
<1> QED
  BY <1>1, <1>2, <1>3, <1>4, <1>5 DEF Owned!Init

(* THEOREM: whatever calls, transactions, start-up, shutdown, runs and      *)
(* closes do side by side, the committed store of an identity changes only  *)
(* by its one agent at work, by a message to it, and while nobody works on  *)
(* it (the identity locks of AgentSystemLocal.ts, the second look at what is*)
(* published, and the handover of what was erased, taken together).  After  *)
(* the shutdown it also changes by one run that nobody waits for, of an     *)
(* agent that was closed before a commit set it going.                      *)
THEOREM SystemKeepsStores == Disciplined /\ Spec => StoresAreOwned
<1> SUFFICES ASSUME Disciplined PROVE Spec => StoresAreOwned
  OBVIOUS
<1>1. Init => Owned!Init
  BY OwnsInit
<1>2. WriterInv /\ [Next]_vars => Owned!Next \/ UNCHANGED Owned!vars
  BY OwnsStep DEF Owns
<1>3. Spec => []WriterInv
  BY WritersKnown
<1> QED
  BY <1>1, <1>2, <1>3, PTL DEF Spec, StoresAreOwned, Owned!Spec

(* THEOREM: what is promised is enough for one agent at most to be at work  *)
(* on a store, of an identity that is configured or being left, and for one *)
(* store at most to be left to a stray, after the shutdown, where nobody    *)
(* works: the promise by itself, for any identities and agents.             *)
THEOREM OwnedSuffices == Owned!Spec => []Owned!OneWorks
<1> DEFINE I == WorkingNow \in [Ids -> SUBSET Threads] /\ Owned!OneWorks
<1>1. Owned!Init => I
  BY DEF Owned!Init, Owned!OneWorks
<1>2. I /\ (Owned!Next \/ UNCHANGED Owned!vars) => I'
  <2> SUFFICES ASSUME I, Owned!Next \/ UNCHANGED Owned!vars PROVE I'
    OBVIOUS
  <2> USE DEF Owned!OneWorks, Owned!Idle, Owned!Works, Owned!Holds
  <2>1. CASE UNCHANGED Owned!vars
    BY <2>1 DEF Owned!vars
  <2>2. ASSUME NEW id \in Ids, Owned!Clear(id) \/ Owned!Write(id) PROVE I'
    BY <2>2 DEF Owned!Clear, Owned!Write
  <2>7. ASSUME NEW id \in Ids, Owned!Send(id) PROVE I'
    BY <2>7 DEF Owned!Send, Owned!GoesAstray
  <2>8. ASSUME NEW id \in Ids, Owned!StrayWrite(id) PROVE I'
    BY <2>8 DEF Owned!StrayWrite
  <2>9. ASSUME Owned!Stop PROVE I'
    BY <2>9 DEF Owned!Stop
  <2>3. ASSUME NEW id \in Ids, Owned!Leave(id) PROVE I'
    BY <2>3 DEF Owned!Leave
  <2>4. ASSUME NEW id \in Ids, Owned!Delete(id) \/ Owned!Vacate(id) PROVE I'
    BY <2>4 DEF Owned!Delete, Owned!Vacate
  <2>5. ASSUME NEW id \in Ids, Owned!Erase(id) PROVE I'
    BY <2>5 DEF Owned!Erase, Owned!GoesAstray
  <2>6. ASSUME NEW id \in Ids, NEW a \in Threads, Owned!Create(id, a) \/ Owned!Load(id, a) PROVE I'
    BY <2>6 DEF Owned!Create, Owned!Load
  <2> QED
    BY <2>1, <2>2, <2>3, <2>4, <2>5, <2>6, <2>7, <2>8, <2>9 DEF Owned!Next
<1>3. I => Owned!OneWorks
  OBVIOUS
<1> QED
  BY <1>1, <1>2, <1>3, PTL DEF Owned!Spec

(* THEOREM: so in the system an agent at work is the only one, and has a    *)
(* configured identity or one whose erasure it is still leaving; and a run  *)
(* on a closed agent is the only one, begins after the shutdown, and has no *)
(* agent at work beside it.                                                 *)
THEOREM WorkIsOwned == Disciplined /\ Spec => []Owned!OneWorks
<1>1. StoresAreOwned => Owned!Spec
  BY DEF StoresAreOwned
<1> QED
  BY <1>1, SystemKeepsStores, OwnedSuffices, PTL
=============================================================================
