------------------------------ MODULE OwnedStores ------------------------------
(***************************************************************************)
(* Who may write what the database holds of an identity, as AgentSystem.tla*)
(* promises it to callers and to agents, without its calls, locks,         *)
(* transactions, maps and lifecycle.                                       *)
(*                                                                         *)
(* At most one agent works on a store, and its identity is configured, or  *)
(* was erased and is being left.  A store changes by that agent, by a      *)
(* message to a configured identity, and where nobody works on it; a new   *)
(* incarnation starts from a cleared store; and an erased store is empty   *)
(* when its last agent has left.  Draining and restoring are no steps at   *)
(* all.  All of this ends with the shutdown in one respect: a transaction  *)
(* which is open by then may set an agent going that has left, and nobody  *)
(* waits for what that one stray writes.                                   *)
(***************************************************************************)
CONSTANTS
    Ids,     \* identities of agents
    Agents   \* what may work on their stores

VARIABLES
    configured,  \* identities that exist
    store,       \* what each one's store holds
    working,     \* the agents at work on it
    leaving,     \* erased identities whose last agent has yet to leave
    stray,       \* identities whose agent goes on although it has left
    stopped      \* the agents have been told to leave for good

vars == <<configured, store, working, leaving, stray, stopped>>

Holds(id, content) == store' = [store EXCEPT ![id] = content]
Works(id, agents) == working' = [working EXCEPT ![id] = agents]

(* Nobody works on the store, nobody is leaving it, or goes astray.         *)
Idle(id) == working[id] = {} /\ id \notin leaving /\ stray = {}

(* A message meant for an agent that left meanwhile sets it going.          *)
GoesAstray(id) == stopped /\ stray = {} /\ working[id] = {} /\ stray' = {id}
-----------------------------------------------------------------------------
Init ==
    /\ configured \in SUBSET Ids
    /\ store \in [Ids -> {"empty", "settled", "owed"}]
    /\ \A id \in configured : store[id] # "empty"
    /\ working = [id \in Ids |-> {}]
    /\ leaving = {}
    /\ stray = {} /\ ~stopped

(* What an earlier incarnation left is replaced before the next is created. *)
Clear(id) ==
    /\ id \notin configured /\ Idle(id)
    /\ Holds(id, "settled")
    /\ UNCHANGED <<configured, working, leaving, stray, stopped>>

Create(id, a) ==
    /\ id \notin configured /\ Idle(id)
    /\ configured' = configured \cup {id}
    /\ Works(id, {a})
    /\ \E content \in {"settled", "owed"} : Holds(id, content)
    /\ UNCHANGED <<leaving, stray, stopped>>

(* An agent is loaded where none is, perhaps with a message for it.         *)
Load(id, a) ==
    /\ id \in configured /\ Idle(id)
    /\ Works(id, {a})
    /\ \E content \in {store[id], "owed"} : Holds(id, content)
    /\ UNCHANGED <<configured, leaving, stray, stopped>>

Send(id) ==
    /\ id \in configured
    /\ Holds(id, "owed")
    /\ UNCHANGED stray \/ GoesAstray(id)
    /\ UNCHANGED <<configured, working, leaving, stopped>>

Write(id) ==
    /\ working[id] # {}
    /\ \E content \in {"settled", "owed"} : Holds(id, content)
    /\ UNCHANGED <<configured, working, leaving, stray, stopped>>

Leave(id) ==
    /\ Works(id, {})
    /\ UNCHANGED <<configured, store, leaving, stray, stopped>>

(* Deleted once its agent has left, with or without what it wrote.          *)
Delete(id) ==
    /\ Idle(id)
    /\ configured' = configured \ {id}
    /\ \E content \in {store[id], "empty"} : Holds(id, content)
    /\ UNCHANGED <<working, leaving, stray, stopped>>

(* Erased at once; the agent at work, or one that was loaded only to be     *)
(* erased, has yet to leave ...                                             *)
Erase(id) ==
    /\ id \notin leaving
    /\ configured' = configured \ {id}
    /\ Holds(id, "empty")
    /\ \/ UNCHANGED working /\ (UNCHANGED stray \/ GoesAstray(id))
       \/ Idle(id) /\ UNCHANGED stray /\ \E a \in Agents : Works(id, {a})
    /\ leaving' \in {leaving, leaving \cup {id}}
    /\ working'[id] # {} => id \in leaving'
    /\ UNCHANGED stopped

(* ... and what it wrote meanwhile is cleared again.                        *)
Vacate(id) ==
    /\ id \in leaving /\ working[id] = {}
    /\ Holds(id, "empty")
    /\ leaving' = leaving \ {id}
    /\ UNCHANGED <<configured, working, stray, stopped>>

(* The agents are told to leave: by the shutdown, which waits for them.     *)
Stop ==
    /\ ~stopped /\ stopped' = TRUE
    /\ UNCHANGED <<configured, store, working, leaving, stray>>

(* The end of the run that nobody waits for, over whatever is there by then.*)
StrayWrite(id) ==
    /\ id \in stray /\ stray' = stray \ {id}
    /\ \E content \in {"settled", "owed", store[id]} : Holds(id, content)
    /\ UNCHANGED <<configured, working, leaving, stopped>>

Next ==
    \/ Stop
    \/ \E id \in Ids :
        \/ Clear(id) \/ Send(id) \/ Write(id) \/ Leave(id)
        \/ Delete(id) \/ Erase(id) \/ Vacate(id) \/ StrayWrite(id)
        \/ \E a \in Agents : Create(id, a) \/ Load(id, a)

Spec == Init /\ [][Next]_vars
-----------------------------------------------------------------------------
(* One agent at most works on a store, and only where it has a reason to;   *)
(* one at most goes astray, where nobody works, and not before the shutdown.*)
OneWorks ==
    /\ \A id \in Ids :
        /\ \A a, b \in working[id] : a = b
        /\ working[id] # {} => id \in configured \cup leaving
    /\ \A id \in stray : stopped /\ stray = {id} /\ working[id] = {}
=============================================================================
