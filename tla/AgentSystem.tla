------------------------------ MODULE AgentSystem ------------------------------
(***************************************************************************)
(* The agent system, packages/happy-agent-base/sources/AgentSystemLocal.ts:*)
(* which agents a process has in memory, for identities that live in the   *)
(* database, while they are asked for, created, deleted and erased, and    *)
(* while the process starts, drains and closes.                            *)
(*                                                                         *)
(* Threads are the callers, one call or one transaction each, and for every*)
(* identity the work of #start on it, named by the identity.  A step is the*)
(* code between two awaits that something else can separate: a statement of*)
(* the database, a lock, a closing agent.  While a transaction is open or  *)
(* publishes its commit, nothing but its own statements takes place in the *)
(* database (module DatabaseConnection); memory goes on changing.          *)
(*                                                                         *)
(* An agent (module AgentBase) is here what its system sees of it: whether *)
(* its run is going, and that a run that goes on settles what is owed.     *)
(*                                                                         *)
(* How callers use an identity is fixed for a behaviour (Uses), for not    *)
(* every mixture keeps the properties: see README, section 6.              *)
(* Bounds: Ids, Callers, MaxOps.                                           *)
(***************************************************************************)
EXTENDS Naturals, FiniteSets

CONSTANTS
    Ids,       \* identities of agents
    Callers,   \* calls and transactions from outside the system
    Uses,      \* how callers may use an identity
    MaxOps     \* bound: operations in one transaction

(* What is called outside, and inside, a caller's transaction.              *)
PlainCalls ==
    [served |-> {"send", "resolve", "create"},
     handed |-> {},
     private |-> {"send", "resolve", "create", "delete"},
     mixed |-> {"send"}, crossed |-> {"delete"}, reused |-> {"create"}]
TxCalls ==
    [served |-> {"send", "resolve"},
     handed |-> {"send", "resolve", "create", "erase"},
     private |-> {},
     mixed |-> {"erase"}, crossed |-> {"send"}, reused |-> {"erase"}]

ASSUME AgentSystemAssumption ==
    /\ Ids \cap Callers = {} /\ "nobody" \notin Ids \cup Callers
    /\ Uses \subseteq DOMAIN PlainCalls
    /\ MaxOps \in Nat

VARIABLES
    db,    \* the database: configured identities, what each one's store holds
    tx,    \* the caller's transaction that owns the database, if one does
    sys,   \* #lifecycle, #draining, #restored, #agents, #locks, #transitions
    inst,  \* the agent each thread built, if it built one
    work,  \* each thread: what it does, to whom, and how far it is
    log    \* history: the use of each identity, restorations, erasures, strays, clashes

vars == <<db, tx, sys, inst, work, log>>

Threads == Callers \cup Ids
Nobody == "nobody"
NoTx == [by |-> Nobody]
NoAgent == [state |-> "none", active |-> FALSE, run |-> FALSE]

(* The database as every other flow would see it.                           *)
Committed == IF tx.by = Nobody THEN db ELSE tx.before
DbFree == tx.by = Nobody

On(t) == work[t].on
Agent(id) == sys.agents[id]
Open == sys.lifecycle = "open"
Owes(id) == db.store[id] = "owed"

(* An earlier incarnation still gives up its store (#waitForTransition).    *)
HandedOver(id) == sys.transition[id] # Nobody

(* #restore looks at #restored again inside its transaction.                *)
Unrestored(id) == id \notin sys.restored
-----------------------------------------------------------------------------
(* Callers with a call or a transaction on an identity, and #start.         *)
Begun(whom, what) ==
    [t \in Threads |->
        [on |-> IF t \in Ids THEN t ELSE whom[t],
         what |-> IF t \in Ids THEN "start" ELSE what[t],
         pc |-> "idle", agent |-> Nobody]]

(* The database and the process when it starts: anything a process may have *)
(* left, at whatever point it ended.                                        *)
Init ==
    /\ db \in [exists : SUBSET Ids, store : [Ids -> {"empty", "settled", "owed"}]]
    /\ \A id \in db.exists : db.store[id] # "empty"
    /\ tx = NoTx
    /\ sys = [lifecycle |-> "initializing", started |-> FALSE, draining |-> FALSE,
              restored |-> {},
              agents |-> [id \in Ids |-> Nobody],
              lock |-> [id \in Ids |-> Nobody],
              transition |-> [id \in Ids |-> Nobody]]
    /\ inst = [t \in Threads |-> NoAgent]
    /\ \E use \in [Ids -> Uses] :
        /\ log = [use |-> use, restorations |-> [id \in Ids |-> 0], erased |-> {},
                  strays |-> {}, clash |-> FALSE]
        /\ \E whom \in [Callers -> Ids] :
           \E what \in [Callers -> {"tx", "send", "resolve", "create", "delete"}] :
            /\ \A c \in Callers :
                IF what[c] = "tx" THEN TxCalls[use[whom[c]]] # {}
                ELSE what[c] \in PlainCalls[use[whom[c]]]
            /\ work = Begun(whom, what)
-----------------------------------------------------------------------------
(* What steps have in common                                                *)

Goes(t, pc) == work' = [work EXCEPT ![t].pc = pc]

(* A resolved agent is given to its call: Agent.send admits the message at  *)
(* once, unless that agent was closed.                                      *)
HandTo(t, i) ==
    LET pc == IF work[t].what = "send" /\ inst'[i].state = "live" THEN "accept" ELSE "done"
    IN  work' = [work EXCEPT ![t].agent = i, ![t].pc = pc]

Unlocked(s, id) == [s EXCEPT !.lock[id] = Nobody]

(* Mutant: loading an agent never starts it.                                *)
PublishedIdle(active, start) == [state |-> "live", active |-> active, run |-> FALSE]

(* #publish: an agent that owes work is started, unless the system drains.  *)
Published(active, start) ==
    [state |-> "live", active |-> active, run |-> start /\ active /\ ~sys.draining]

(* Mutant: nobody looks again after loading.                                *)
NeverConcurrent(id) == Nobody

(* The agent another flow published while this one was loaded.              *)
Concurrent(id) == Agent(id)
-----------------------------------------------------------------------------
(* Starting: AgentSystemLocal.create, #start                                *)

(* beforeStart has returned; calls are admitted from here on.               *)
OpenSystem ==
    /\ sys.lifecycle = "initializing"
    /\ sys' = [sys EXCEPT !.lifecycle = "open"]
    /\ UNCHANGED <<db, tx, inst, work, log>>

(* One transaction reads which agents owe work, and modules name others     *)
(* that have to be restored.                                                *)
ReadOwing ==
    /\ Open /\ DbFree
    /\ \A id \in Ids : work[id].pc = "idle"
    /\ \E named \in SUBSET Ids :
        work' = [t \in Threads |->
            IF t \in Callers THEN work[t]
            ELSE [work[t] EXCEPT
                !.what = IF Owes(t) THEN "start" ELSE "restore",
                !.pc = IF Owes(t) \/ t \in named THEN "lock" ELSE "done"]]
    /\ UNCHANGED <<db, tx, sys, inst, log>>

(* An owing agent is built, and published unless there is one by now.       *)
StartLoad(id) ==
    /\ work[id].pc = "load" /\ DbFree
    /\ IF Owes(id) /\ Concurrent(id) = Nobody
       THEN /\ inst' = [inst EXCEPT ![id] = Published(TRUE, FALSE)]
            /\ sys' = [Unlocked(sys, id) EXCEPT !.agents[id] = id]
            /\ log' = [log EXCEPT !.clash = @ \/ Agent(id) # Nobody]
       ELSE sys' = Unlocked(sys, id) /\ UNCHANGED <<inst, log>>
    /\ Goes(id, "done")
    /\ UNCHANGED <<db, tx>>

(* When every identity is seen to, the agents built are started.  Starting  *)
(* a closed one fails, and with it the system.                              *)
StartAgents ==
    LET built == {id \in Ids : inst[id].state # "none"}
    IN  /\ Open /\ ~sys.started
        /\ \A id \in Ids : work[id].pc = "done"
        /\ IF \A id \in built : inst[id].state = "live"
           THEN /\ inst' = [t \in Threads |->
                     IF t \in built THEN [inst[t] EXCEPT !.run = ~sys.draining] ELSE inst[t]]
                /\ sys' = [sys EXCEPT !.started = TRUE]
           ELSE /\ sys' = [sys EXCEPT !.started = TRUE, !.lifecycle = "closing"]
                /\ UNCHANGED inst
        /\ UNCHANGED <<db, tx, work, log>>
-----------------------------------------------------------------------------
(* Calls outside a transaction, and the common path of #start               *)

Looks == {"send", "resolve", "start", "restore"}

Admit(t) ==
    /\ work[t].pc = "idle" /\ t \in Callers /\ work[t].what # "tx"
    /\ Open
    /\ Goes(t, "await")
    /\ UNCHANGED <<db, tx, sys, inst, log>>

(* Past an earlier incarnation; a live agent is taken without the lock.     *)
Await(t) ==
    /\ work[t].pc = "await"
    /\ ~HandedOver(On(t))
    /\ UNCHANGED <<db, tx, sys, inst, log>>
    /\ IF work[t].what \in Looks /\ Agent(On(t)) # Nobody
       THEN HandTo(t, Agent(On(t)))
       ELSE Goes(t, "lock")

(* The identity's lock.                                                     *)
Lock(t) ==
    LET id == On(t)
    IN  /\ work[t].pc = "lock"
        /\ sys.lock[id] = Nobody
        /\ UNCHANGED <<db, tx, inst, log>>
        /\ IF work[t].what \in Looks /\ Agent(id) # Nobody
           THEN HandTo(t, Agent(id)) /\ UNCHANGED sys
           ELSE /\ Goes(t, IF work[t].what = "create" THEN "probe" ELSE "config")
                /\ sys' = [sys EXCEPT !.lock[id] = t]

(* #config looks at the handover, and then waits for the database.          *)
Config(t) ==
    /\ work[t].pc = "config" /\ ~HandedOver(On(t))
    /\ Goes(t, "read")
    /\ UNCHANGED <<db, tx, sys, inst, log>>

ReadConfig(t) ==
    /\ work[t].pc = "read" /\ work[t].what \in Looks /\ DbFree
    /\ IF On(t) \in db.exists
       THEN Goes(t, "restore") /\ UNCHANGED sys
       ELSE Goes(t, "done") /\ sys' = Unlocked(sys, On(t))
    /\ UNCHANGED <<db, tx, inst, log>>

(* #restore, and #resolve's second look at what is published.               *)
Restore(t) ==
    LET id == On(t)
        found == work[t].what # "start" /\ Agent(id) # Nobody
        ends == found \/ work[t].what = "restore"
        restored == [sys EXCEPT !.restored = @ \cup {id}]
    IN  /\ work[t].pc = "restore"
        /\ Unrestored(id) => DbFree
        /\ sys' = IF ends THEN Unlocked(restored, id) ELSE restored
        /\ log' = IF Unrestored(id) THEN [log EXCEPT !.restorations[id] = @ + 1] ELSE log
        /\ UNCHANGED <<db, tx, inst>>
        /\ IF found THEN HandTo(t, Agent(id))
           ELSE Goes(t, IF ends THEN "done" ELSE "load")

(* Agent.load reads what is owed; then this agent is published, or the one  *)
(* that was published meanwhile is used.                                    *)
ResolveLoad(t) ==
    LET id == On(t)
    IN  /\ work[t].pc = "load" /\ t \in Callers /\ DbFree
        /\ IF Concurrent(id) = Nobody
           THEN /\ inst' = [inst EXCEPT ![t] = Published(Owes(id), TRUE)]
                /\ sys' = [Unlocked(sys, id) EXCEPT !.agents[id] = t]
                /\ log' = [log EXCEPT !.clash = @ \/ Agent(id) # Nobody]
                /\ HandTo(t, t)
           ELSE /\ sys' = Unlocked(sys, id) /\ UNCHANGED <<inst, log>>
                /\ HandTo(t, Agent(id))
        /\ UNCHANGED <<db, tx>>

(* The message is committed; its publication asks the agent for a turn.     *)
Accept(t) ==
    /\ work[t].pc = "accept" /\ DbFree
    /\ db' = [db EXCEPT !.store[On(t)] = "owed"]
    /\ inst' = [inst EXCEPT ![work[t].agent].run = @ \/ ~sys.draining]
    /\ Goes(t, "done")
    /\ UNCHANGED <<tx, sys, log>>

(* create: an existing identity is refused ...                              *)
CreateProbe(t) ==
    /\ work[t].pc = "probe" /\ DbFree
    /\ IF On(t) \in db.exists
       THEN Goes(t, "done") /\ sys' = Unlocked(sys, On(t))
       ELSE Goes(t, "prepare") /\ UNCHANGED sys
    /\ UNCHANGED <<db, tx, inst, log>>

(* ... an earlier incarnation's store is replaced (#preparePersistence) ... *)
Prepare(t) ==
    /\ work[t].pc = "prepare" /\ DbFree
    /\ db' = [db EXCEPT !.store[On(t)] = "settled"]
    /\ log' = [log EXCEPT !.erased = @ \ {On(t)}]
    /\ Goes(t, "commit")
    /\ UNCHANGED <<tx, sys, inst>>

(* ... and the identity is committed, refused if it exists by now, and its  *)
(* agent published without a run.                                           *)
CreateCommit(t) ==
    LET id == On(t)
        fresh == id \notin db.exists
        publishes == fresh /\ Agent(id) = Nobody
    IN  /\ work[t].pc = "commit" /\ DbFree
        /\ db' = [db EXCEPT !.exists = @ \cup {id}]
        /\ inst' = IF publishes THEN [inst EXCEPT ![t] = Published(FALSE, FALSE)] ELSE inst
        /\ sys' = [Unlocked(sys, id) EXCEPT
               !.restored = IF fresh THEN @ \cup {id} ELSE @,
               !.agents[id] = IF publishes THEN t ELSE @]
        /\ log' = [log EXCEPT !.clash = @ \/ (fresh /\ ~publishes)]
        /\ Goes(t, "done")
        /\ UNCHANGED tx

(* delete: the agent leaves the map and is closed ...                       *)
DeleteClose(t) ==
    LET i == Agent(On(t))
    IN  /\ work[t].pc = "read" /\ work[t].what = "delete" /\ DbFree
        /\ sys' = [sys EXCEPT !.agents[On(t)] = Nobody]
        /\ inst' = IF i = Nobody THEN inst ELSE [inst EXCEPT ![i].state = "closing"]
        /\ work' = [work EXCEPT ![t].pc = "drop", ![t].agent = i]
        /\ UNCHANGED <<db, tx, log>>

(* ... and once it is closed, the identity is restored, if it never was, and*)
(* dropped, with or without what it wrote.                                  *)
DeleteDrop(t, erase) ==
    LET id == On(t)
        restores == id \in db.exists /\ Unrestored(id)
    IN  /\ work[t].pc = "drop" /\ DbFree
        /\ work[t].agent # Nobody => inst[work[t].agent].state = "closed"
        /\ db' = [db EXCEPT !.exists = @ \ {id},
                            !.store[id] = IF erase THEN "empty" ELSE @]
        /\ sys' = [Unlocked(sys, id) EXCEPT
               !.restored = IF restores THEN @ \cup {id} ELSE @]
        /\ log' = [log EXCEPT
               !.restorations[id] = IF restores THEN @ + 1 ELSE @,
               !.erased = IF erase THEN @ \cup {id} ELSE @]
        /\ Goes(t, "done")
        /\ UNCHANGED <<tx, inst>>
-----------------------------------------------------------------------------
(* A caller's transaction                                                   *)

Begin(t) ==
    /\ work[t].pc = "idle" /\ t \in Callers /\ work[t].what = "tx"
    /\ sys.lifecycle # "initializing" /\ DbFree
    /\ tx' = [by |-> t, before |-> db, ops |-> 0, call |-> "none",
              staged |-> "nothing", start |-> FALSE, sent |-> Nobody,
              restores |-> "no", ends |-> Nobody]
    /\ Goes(t, "body")
    /\ UNCHANGED <<db, sys, inst, log>>

(* A call in the transaction is admitted until it returns, not until the    *)
(* transaction ends.  Callers erase nothing before the system has started.  *)
Call(t) ==
    /\ tx.by = t /\ tx.call = "none" /\ tx.ops < MaxOps
    /\ Open
    /\ \E call \in TxCalls[log.use[On(t)]] :
        /\ call = "erase" => sys.started
        /\ tx' = [tx EXCEPT !.call = call, !.ops = @ + 1]
    /\ UNCHANGED <<db, sys, inst, work, log>>

Calls(t, calls) == tx.by = t /\ tx.call \in calls

(* The agent of the identity as this transaction sees it; Nobody if it has  *)
(* to be loaded.                                                            *)
TxAgent == IF tx.staged = "agent" THEN tx.by ELSE Agent(On(tx.by))

(* Mutant: the transaction waits for the handover.                          *)
WaitsInTx(id) == FALSE

(* A handover needs the database, which the transaction holds: it must throw*)
(* where a call outside would wait (#waitForTransition).                    *)
ThrowsInTx(id) == HandedOver(id)

(* What the code throws for.                                                *)
Refuses(t) ==
    \/ ThrowsInTx(On(t))
    \/ Calls(t, {"create"}) /\ (On(t) \in db.exists \/ tx.staged = "deleted")
    \/ Calls(t, {"send", "resolve"}) /\ On(t) \notin db.exists
    \/ Calls(t, {"send"}) /\ TxAgent # Nobody /\ inst[TxAgent].state \notin {"loaded", "live"}

(* The restoration's commit is that of the transaction (#restoreOnce).      *)
TxRestores(t) ==
    IF tx.restores = "no" /\ Unrestored(On(t)) THEN "restored" ELSE tx.restores

(* #messageTarget, #resolve and #transactionAgent in a transaction, and the *)
(* message's acceptance in it.                                              *)
TxUse(t) ==
    LET loads == TxAgent = Nobody
        send == tx.call = "send"
    IN  /\ Calls(t, {"send", "resolve"})
        /\ ~HandedOver(On(t)) /\ ~Refuses(t)
        /\ inst' = IF loads
                   THEN [inst EXCEPT ![t] =
                            [state |-> "loaded", active |-> Owes(On(t)), run |-> FALSE]]
                   ELSE inst
        /\ db' = IF send THEN [db EXCEPT !.store[On(t)] = "owed"] ELSE db
        /\ tx' = [tx EXCEPT
               !.call = "none",
               !.staged = IF loads THEN "agent" ELSE @,
               !.start = @ \/ ~send,
               !.sent = IF send THEN (IF loads THEN t ELSE TxAgent) ELSE @,
               !.restores = IF loads THEN TxRestores(t) ELSE @]
        /\ UNCHANGED <<sys, work, log>>

(* create in a transaction takes no lock of the identity.                   *)
TxCreate(t) ==
    LET loads == TxAgent = Nobody
    IN  /\ Calls(t, {"create"})
        /\ ~HandedOver(On(t)) /\ ~Refuses(t)
        /\ db' = [exists |-> db.exists \cup {On(t)},
                  store |-> [db.store EXCEPT ![On(t)] = "settled"]]
        /\ inst' = IF loads THEN [inst EXCEPT ![t] = [NoAgent EXCEPT !.state = "loaded"]]
                   ELSE inst
        /\ tx' = [tx EXCEPT !.call = "none",
                            !.staged = IF loads THEN "agent" ELSE @,
                            !.restores = IF @ = "no" THEN "created" ELSE @]
        /\ UNCHANGED <<sys, work, log>>

(* delete with erase in a transaction; its agent is closed after the commit.*)
TxErase(t) ==
    /\ Calls(t, {"erase"})
    /\ ~HandedOver(On(t)) /\ ~Refuses(t)
    /\ db' = [exists |-> db.exists \ {On(t)},
              store |-> [db.store EXCEPT ![On(t)] = "empty"]]
    /\ tx' = [tx EXCEPT !.call = "none",
                        !.restores = IF On(t) \in db.exists THEN TxRestores(t) ELSE @,
                        !.staged = "deleted",
                        !.ends = IF tx.staged = "deleted" THEN @ ELSE TxAgent]
    /\ UNCHANGED <<sys, inst, work, log>>

Undo(t) ==
    /\ db' = tx.before
    /\ tx' = NoTx
    /\ inst' = [inst EXCEPT ![t] = NoAgent]
    /\ Goes(t, "done")
    /\ UNCHANGED <<sys, log>>

(* A call that throws takes its transaction with it; and a caller may undo  *)
(* a transaction for reasons of its own.                                    *)
Refused(t) == Calls(t, {"send", "resolve", "create", "erase"}) /\ Refuses(t) /\ Undo(t)
Rollback(t) == Calls(t, {"none"}) /\ Undo(t)

(* The map after the commit.                                                *)
CommittedAgents(id, deleted, publishes) ==
    IF publishes THEN tx.by
    ELSE IF deleted /\ Agent(id) = tx.ends THEN Nobody ELSE Agent(id)

(* A turn for the agent that was sent to (#activateCommittedMessages): it is*)
(* started whether or not it was closed while the transaction was open.     *)
(* Agents that drain start nothing, but nobody told one to that the same    *)
(* transaction loaded and deleted.                                          *)
Activated(i) ==
    LET drains == sys.draining /\ ~(tx.staged = "deleted" /\ i = tx.by)
    IN  [inst[i] EXCEPT !.run = @ \/ (i = tx.sent /\ ~drains)]

(* A run that close() did not wait for is a stray.                          *)
SetsAstray == \E i \in Threads : i = tx.sent /\ inst[i].state = "closed" /\ Activated(i).run

(* The commit and its after-commit callbacks, before the database goes to   *)
(* anyone else: what was restored, what is published, what was sent to, and *)
(* the handover of what was erased.                                         *)
Commit(t) ==
    LET id == On(t)
        deleted == tx.staged = "deleted"
        publishes == tx.staged = "agent" /\ Agent(id) = Nobody
        Opened == [Published(inst[t].active, tx.start) EXCEPT !.run = @ \/ Activated(t).run]
        Closing(i) == [Activated(i) EXCEPT !.state = IF @ = "closed" THEN @ ELSE "closing"]
    IN  /\ Calls(t, {"none"})
        /\ inst' = [i \in Threads |->
               IF deleted /\ i = tx.ends THEN Closing(i)
               ELSE IF publishes /\ i = t THEN Opened
               ELSE Activated(i)]
        /\ sys' = [sys EXCEPT
               !.restored = IF tx.restores = "no" THEN @ ELSE @ \cup {id},
               !.agents[id] = CommittedAgents(id, deleted, publishes),
               !.transition[id] = IF deleted THEN tx.ends ELSE @]
        /\ log' = [log EXCEPT
               !.restorations[id] = IF tx.restores = "restored" THEN @ + 1 ELSE @,
               !.erased = IF deleted THEN @ \cup {id}
                          ELSE IF id \in db.exists THEN @ \ {id} ELSE @,
               !.strays = IF SetsAstray THEN @ \cup {id} ELSE @,
               !.clash = @ \/ (tx.staged = "agent" /\ ~publishes)]
        /\ tx' = NoTx
        /\ Goes(t, "done")
        /\ UNCHANGED db
-----------------------------------------------------------------------------
(* Agents: the ends of runs, closes, handovers                              *)

(* A run that is neither drained nor closed ends when nothing is owed.  A   *)
(* run that is cut short may have written, and may leave what it owes.      *)
RunEnds(i) ==
    LET id == On(i)
        whole == inst[i].state = "live" /\ ~sys.draining
    IN  /\ inst[i].run /\ DbFree
        /\ inst' = [inst EXCEPT ![i].run = FALSE]
        /\ \E left \in IF whole THEN {"settled"} ELSE {"settled", "owed", db.store[id]} :
               db' = [db EXCEPT !.store[id] = left]
        /\ UNCHANGED <<tx, sys, work, log>>

(* close() waits for the run and for messages admitted before it.           *)
CloseEnds(i) ==
    /\ inst[i].state = "closing" /\ ~inst[i].run
    /\ \A t \in Threads : ~(work[t].pc = "accept" /\ work[t].agent = i)
    /\ inst' = [inst EXCEPT ![i].state = "closed"]
    /\ UNCHANGED <<db, tx, sys, work, log>>

(* Mutant: what the close wrote is left in the store of an erased identity. *)
NotErasedAgain(id) == db.store[id]

(* A close may have written once more: the store is cleared again, unless   *)
(* the identity was created again.                                          *)
ErasedAgain(id) == IF id \in db.exists THEN db.store[id] ELSE "empty"

FinishHandover(id) ==
    /\ sys.transition[id] # Nobody
    /\ inst[sys.transition[id]].state = "closed"
    /\ DbFree
    /\ db' = [db EXCEPT !.store[id] = ErasedAgain(id)]
    /\ sys' = [sys EXCEPT !.transition[id] = Nobody]
    /\ UNCHANGED <<tx, inst, work, log>>
-----------------------------------------------------------------------------
(* Draining and closing the system                                          *)

Drain ==
    /\ sys.started /\ Open /\ ~sys.draining
    /\ sys' = [sys EXCEPT !.draining = TRUE]
    /\ UNCHANGED <<db, tx, inst, work, log>>

Close ==
    /\ sys.started /\ Open
    /\ sys' = [sys EXCEPT !.lifecycle = "closing"]
    /\ UNCHANGED <<db, tx, inst, work, log>>

(* Mutant: shutting down does not wait for calls.                           *)
NothingAdmitted == TRUE

(* Calls that were admitted, in a transaction or out of one, have returned. *)
AllReturned ==
    /\ tx.by # Nobody => tx.call = "none"
    /\ \A t \in Callers : work[t].pc \in {"idle", "body", "done"}

(* #shutdown waits for them and for handovers, and closes every agent ...   *)
CloseAgents ==
    /\ sys.lifecycle = "closing"
    /\ AllReturned
    /\ \A id \in Ids : ~HandedOver(id)
    /\ sys' = [sys EXCEPT !.lifecycle = "stopping"]
    /\ inst' = [i \in Threads |->
           IF i \in {Agent(id) : id \in Ids} /\ inst[i].state = "live"
           THEN [inst[i] EXCEPT !.state = "closing"] ELSE inst[i]]
    /\ UNCHANGED <<db, tx, work, log>>

(* ... and when they are closed gives up the lock of the store.             *)
ReleaseStore ==
    /\ sys.lifecycle = "stopping"
    /\ \A i \in Threads : inst[i].state # "closing"
    /\ sys' = [sys EXCEPT !.lifecycle = "closed",
                          !.agents = [id \in Ids |-> Nobody],
                          !.lock = [id \in Ids |-> Nobody]]
    /\ UNCHANGED <<db, tx, inst, work, log>>
-----------------------------------------------------------------------------
Starting == OpenSystem \/ ReadOwing \/ StartAgents
Stopping == CloseAgents \/ ReleaseStore

(* The steps of a thread that has begun.                                    *)
Proceeds(t) ==
    \/ Await(t) \/ Lock(t) \/ Config(t) \/ ReadConfig(t) \/ Restore(t)
    \/ ResolveLoad(t) \/ Accept(t)
    \/ CreateProbe(t) \/ Prepare(t) \/ CreateCommit(t)
    \/ DeleteClose(t) \/ \E erase \in BOOLEAN : DeleteDrop(t, erase)
    \/ TxUse(t) \/ TxCreate(t) \/ TxErase(t) \/ Refused(t)
Ends(t) == Commit(t) \/ Rollback(t)

Next ==
    \/ Starting \/ Stopping \/ Drain \/ Close
    \/ \E t \in Threads : Admit(t) \/ Begin(t) \/ Call(t) \/ Proceeds(t) \/ Ends(t)
    \/ \E id \in Ids : StartLoad(id) \/ FinishHandover(id)
    \/ \E i \in Threads : RunEnds(i) \/ CloseEnds(i)

Spec == Init /\ [][Next]_vars

(* The event loop runs what is ready, a transaction's caller ends it, and   *)
(* runs end (module AgentBase).  Nobody has to call, drain or close.        *)
Fairness ==
    /\ WF_vars(Starting) /\ WF_vars(Stopping)
    /\ \A t \in Threads : WF_vars(Proceeds(t)) /\ WF_vars(Ends(t))
    /\ \A id \in Ids : WF_vars(StartLoad(id)) /\ WF_vars(FinishHandover(id))
    /\ \A i \in Threads : WF_vars(RunEnds(i)) /\ WF_vars(CloseEnds(i))

FairSpec == Spec /\ Fairness
-----------------------------------------------------------------------------
(* Properties                                                               *)

Whom == Threads \cup {Nobody}
DbType == [exists : SUBSET Ids, store : [Ids -> {"empty", "settled", "owed"}]]
TxType ==
    [by : Callers, before : DbType, ops : 0..MaxOps,
     call : {"none", "send", "resolve", "create", "erase"},
     staged : {"nothing", "agent", "deleted"}, start : BOOLEAN,
     sent : Whom, restores : {"no", "restored", "created"}, ends : Whom]
SysType ==
    [lifecycle : {"initializing", "open", "closing", "stopping", "closed"},
     started : BOOLEAN, draining : BOOLEAN, restored : SUBSET Ids,
     agents : [Ids -> Whom], lock : [Ids -> Whom], transition : [Ids -> Whom]]
AgentType ==
    [state : {"none", "loaded", "live", "closing", "closed"}, active : BOOLEAN, run : BOOLEAN]
WorkType ==
    [on : Ids, agent : Whom,
     what : {"start", "restore", "tx", "send", "resolve", "create", "delete"},
     pc : {"idle", "await", "lock", "config", "read", "restore", "load", "accept",
           "probe", "prepare", "commit", "drop", "body", "done"}]
LogType ==
    [use : [Ids -> Uses], restorations : [Ids -> Nat], erased : SUBSET Ids,
     strays : SUBSET Ids, clash : BOOLEAN]

(* Every variable stays within the values the code can give it.             *)
TypeOK ==
    /\ db \in DbType
    /\ tx = NoTx \/ tx \in TxType
    /\ sys \in SysType
    /\ inst \in [Threads -> AgentType]
    /\ work \in [Threads -> WorkType]
    /\ log \in LogType

(* Two agents never work on one store: of the agents that are not closed at *)
(* most one is an identity's, a live one is the one in #agents, and #publish*)
(* never finds another there ("already has a live instance").               *)
AtWork == {"live", "closing"}

OneInstance ==
    /\ ~log.clash
    /\ \A i, j \in Threads :
           i # j /\ On(i) = On(j) /\ inst[i].state \in AtWork => inst[j].state \notin AtWork
    /\ sys.lifecycle # "closed" =>
           \A i \in Threads : inst[i].state = "live" => Agent(On(i)) = i

(* An agent in #agents has an identity, committed and not deleted: "nothing *)
(* restores an identity without a configuration" (#restored).               *)
AgentHasIdentity ==
    \A id \in Ids : Agent(id) # Nobody => id \in Committed.exists

(* An identity's restoration hooks commit once in a process at most, and    *)
(* before its agent can be used.                                            *)
RestoredOnceFirst ==
    \A id \in Ids :
        /\ log.restorations[id] <= 1
        /\ Agent(id) # Nobody => id \in sys.restored

(* What was erased stays erased once the handover is over, whatever the     *)
(* closing agent wrote, until an identity is created anew.  A stray is left *)
(* out: nobody waits for its run (README, section 6).                       *)
ErasedStaysErased ==
    \A id \in log.erased \ log.strays : ~HandedOver(id) => Committed.store[id] = "empty"

(* When the lock of the store is released no agent is at work, but for one  *)
(* that a transaction left open publishes later (and for strays: RunInv).   *)
ReleasedIsQuiet ==
    sys.lifecycle = "closed" =>
        \A i \in Threads : inst[i].state \in AtWork => work[i].what = "tx"

(* Both without their excuses, as the comments in the code have it; the     *)
(* system violates them (README, section 6, number 14).                     *)
ErasedForGood == \A id \in log.erased : ~HandedOver(id) => Committed.store[id] = "empty"
ReleasedIsStill == sys.lifecycle = "closed" => \A i \in Threads : ~inst[i].run

(* What holds all of this together, as the proofs use it.                   *)
Locked == {"config", "read", "restore", "load", "probe", "prepare", "commit", "drop"}

(* A thread is where its kind of call can be, with the lock it needs; #start*)
(* is over when the system has started, and every call before its agents are*)
(* closed.                                                                  *)
InPlace(t) ==
    /\ t \in Ids <=> work[t].what \in {"start", "restore"}
    /\ t \in Ids => work[t].on = t
    /\ work[t].pc \in {"restore", "load"} => work[t].what \in Looks
    /\ work[t].pc \in {"probe", "prepare", "commit"} => work[t].what = "create"
    /\ work[t].pc = "drop" => work[t].what = "delete"
    /\ work[t].pc = "body" <=> tx.by = t
    /\ work[t].what = "tx" => work[t].pc \in {"idle", "body", "done"}
    /\ work[t].pc \in Locked => sys.lock[On(t)] = t
    /\ sys.started /\ t \in Ids => work[t].pc = "done"
    /\ sys.lifecycle \in {"stopping", "closed"} => work[t].pc \in {"idle", "body", "done"}

ThreadInv ==
    /\ \A t \in Threads : InPlace(t)
    /\ sys.lifecycle \notin {"initializing", "open"} => sys.started

(* Callers keep to the use of their identity.                               *)
UseInv ==
    /\ \A c \in Callers :
           work[c].what # "tx" => work[c].what \in PlainCalls[log.use[On(c)]]
    /\ \A id \in Ids : HandedOver(id) => log.use[id] = "handed" /\ sys.started
    /\ tx # NoTx =>
        /\ work[tx.by].what = "tx"
        /\ tx.call # "none" \/ tx.staged # "nothing" =>
               log.use[On(tx.by)] \in {"served", "handed"}
        /\ tx.call = "erase" \/ tx.staged = "deleted" =>
               log.use[On(tx.by)] = "handed" /\ sys.started
        /\ tx.call # "none" => sys.lifecycle \in {"open", "closing"}

(* Nothing but i is at work on an identity.                                 *)
NoOther(id, i) == \A j \in Threads \ {i} : On(j) = id => inst[j].state \notin AtWork

(* Where an agent that lives or closes is accounted for.                    *)
AgentInv ==
    /\ \A id \in Ids : Agent(id) # Nobody =>
        /\ On(Agent(id)) = id
        /\ \/ inst[Agent(id)].state = "live"
           \/ inst[Agent(id)].state \in {"closing", "closed"} /\ sys.lifecycle = "stopping"
    /\ \A i \in Threads : inst[i].state = "closing" =>
        \/ sys.transition[On(i)] = i
        \/ \E t \in Callers : work[t].pc = "drop" /\ work[t].agent = i /\ On(t) = On(i)
        \/ sys.lifecycle = "stopping" /\ Agent(On(i)) = i
    /\ \A id \in Ids : HandedOver(id) =>
        /\ Agent(id) = Nobody
        /\ On(sys.transition[id]) = id
        /\ inst[sys.transition[id]].state \in {"closing", "closed"}
    /\ \A t \in Threads : work[t].what = "tx" /\ work[t].pc # "done" =>
        inst[t].state \in {"none", "loaded"}
    /\ \A t \in Threads : work[t].pc = "drop" =>
        /\ Agent(On(t)) = Nobody
        /\ work[t].agent # Nobody =>
               On(work[t].agent) = On(t) /\ inst[work[t].agent].state \in {"closing", "closed"}

(* What a transaction has staged, and for whom.                             *)
StagedInv ==
    tx # NoTx =>
        LET t == tx.by
            id == On(t)
        IN  /\ tx.before.exists \ {id} = db.exists \ {id}
            /\ id \in tx.before.exists /\ tx.staged # "deleted" => id \in db.exists
            /\ tx.staged # "nothing" => ~HandedOver(id)
            /\ tx.staged = "agent" =>
                   /\ id \in db.exists
                   /\ inst[t].state = "loaded" /\ Agent(id) = Nobody /\ NoOther(id, t)
            /\ tx.staged = "deleted" =>
                   /\ id \notin db.exists /\ NoOther(id, tx.ends)
                   /\ tx.ends = t => inst[t].state = "loaded"
                   /\ tx.ends \notin {t, Nobody} =>
                         /\ On(tx.ends) = id
                         /\ Agent(id) # tx.ends => inst[tx.ends].state = "closed"
                         /\ sys.lifecycle \in {"stopping", "closed"} =>
                                inst[tx.ends].state # "live"
                   /\ Agent(id) \in {tx.ends, Nobody}

(* Only a configured identity is restored and loaded outside a transaction. *)
IdentityInv ==
    /\ AgentHasIdentity
    /\ \A t \in Threads : work[t].pc \in {"restore", "load"} => On(t) \in Committed.exists

(* Whose restoration is committed, or will be with the transaction.         *)
RestoredInv ==
    /\ \A id \in Ids : log.restorations[id] = 1 => id \in sys.restored
    /\ \A t \in Threads : work[t].pc = "load" => On(t) \in sys.restored
    /\ tx # NoTx =>
        /\ tx.restores = "restored" => On(tx.by) \notin sys.restored
        /\ tx.staged = "agent" => tx.restores # "no" \/ On(tx.by) \in sys.restored

(* Agents closed with the system stay closed.                               *)
QuietInv ==
    /\ sys.lifecycle = "stopping" =>
           \A i \in Threads : inst[i].state = "live" => work[i].what = "tx"
    /\ ReleasedIsQuiet

(* Only an agent at work has a run, or a stray: an agent that the shutdown  *)
(* closed under a transaction which had sent to it.  There is one at most,  *)
(* and not before the shutdown; no transaction is at work by then.          *)
Stopped == sys.lifecycle \in {"stopping", "closed"}
Stray(i) == inst[i].run /\ inst[i].state = "closed"

RunInv ==
    /\ \A i \in Threads : inst[i].run => inst[i].state \in AtWork \/ Stray(i)
    /\ \A i \in Threads : Stray(i) => On(i) \in log.strays
    /\ \A i, j \in Threads : Stray(i) /\ Stray(j) => i = j
    /\ log.strays # {} =>
        Stopped /\ (tx # NoTx => tx.staged = "nothing" /\ tx.sent = Nobody)

(* Only an agent at work admits a message.                                  *)

AcceptInv ==
    \A t \in Threads : work[t].pc = "accept" =>
        /\ work[t].agent \in Threads /\ On(work[t].agent) = On(t)
        /\ inst[work[t].agent].state \in AtWork

(* The agent a transaction sent to is the transaction's own, or it was live *)
(* and is still the only one, unless the shutdown closed it.                *)
SentInv ==
    tx # NoTx /\ tx.sent # Nobody =>
        IF tx.sent = tx.by
        THEN tx.staged = "agent" \/ (tx.staged = "deleted" /\ tx.ends = tx.by)
        ELSE LET id == On(tx.by)
             IN  /\ On(tx.sent) = id /\ NoOther(id, tx.sent)
                 /\ inst[tx.sent].state \in {"live", "closing", "closed"}
                 /\ ~Stopped => Agent(id) = tx.sent
                 /\ \/ tx.staged = "nothing" /\ id \in db.exists /\ Owes(id)
                    \/ tx.staged = "deleted" /\ tx.ends = tx.sent

(* Nothing writes the store of what was erased: nobody is at work on it, but*)
(* for the agent that hands it over, and no creation has cleared it.        *)
Erased(id) ==
    /\ id \notin Committed.exists
    /\ NoOther(id, sys.transition[id])
    /\ ~HandedOver(id) /\ id \notin log.strays => Committed.store[id] = "empty"

(* What a transaction has written is of its identity, and of one that is    *)
(* configured or deleted.                                                   *)
WrittenInv ==
    tx # NoTx =>
        LET id == On(tx.by)
        IN  /\ \A other \in Ids \ {id} : db.store[other] = tx.before.store[other]
            /\ IF tx.staged = "deleted" THEN db.store[id] = "empty"
               ELSE id \in db.exists \/ db.store[id] = tx.before.store[id]

ErasureInv ==
    /\ \A id \in log.erased : Erased(id)
    /\ \A t \in Threads : work[t].pc = "commit" => On(t) \notin log.erased
    /\ WrittenInv

SystemInv ==
    /\ TypeOK /\ ThreadInv /\ UseInv /\ OneInstance /\ AgentInv /\ StagedInv
    /\ IdentityInv /\ RestoredOnceFirst /\ RestoredInv /\ QuietInv
    /\ RunInv /\ AcceptInv /\ SentInv /\ ErasureInv

(* What the system promises: who works on which store, who is leaving, and  *)
(* which runs it has lost sight of.                                         *)
WorkingNow == [id \in Ids |-> {i \in Threads : On(i) = id /\ inst[i].state \in AtWork}]
LeavingNow == {id \in Ids : HandedOver(id)}
StrayNow == {id \in Ids : \E i \in Threads : On(i) = id /\ Stray(i)}

Owned == INSTANCE OwnedStores WITH
    Agents <- Threads, configured <- Committed.exists, store <- Committed.store,
    working <- WorkingNow, leaving <- LeavingNow,
    stray <- StrayNow, stopped <- Stopped

(* Whatever calls, transactions, start-up, shutdown, runs and closes do side*)
(* by side, the committed store of an identity changes only by its one agent*)
(* at work, by a message to it, and while nobody works on it; after the     *)
(* shutdown also by the one stray, if there is one.                         *)
StoresAreOwned == Owned!Spec

(* Every call returns, every transaction ends and a close is completed:     *)
(* identity locks, the database, handovers and closing agents never wait for*)
(* one another in a circle.                                                 *)
EveryCallReturns ==
    /\ \A t \in Threads :
           work[t].pc \notin {"idle", "done"} ~> work[t].pc = "done"
    /\ sys.lifecycle = "closing" ~> sys.lifecycle = "closed"

(* Work owed by an agent is done, whoever brings the agent into memory,     *)
(* unless the agent is deleted or the system drains or closes.              *)
WorkIsDone ==
    \A id \in Ids :
        (id \in Committed.exists /\ Committed.store[id] = "owed") ~>
            \/ id \notin Committed.exists \/ Committed.store[id] # "owed"
            \/ sys.draining \/ sys.lifecycle \notin {"initializing", "open"}
=============================================================================
