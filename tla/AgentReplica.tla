----------------------------- MODULE AgentReplica -----------------------------
(***************************************************************************)
(* One client's replica of an agent and its subagents, kept current by the *)
(* event feed (module EventFeed) and by snapshots.                         *)
(*                                                                         *)
(* In the daemon, a transaction mints an event, which is that agent's new  *)
(* version, and publishes it when it has committed; streamed text mints    *)
(* versions in memory (events/EventsModule.ts).  One chain per agent turns *)
(* events into entries of the API's journal, and a request reads a         *)
(* snapshot with statements of its own (api/ApiModule.ts).  The client     *)
(* (happy-agent-client: HappyReducer.ts, HappyReducerAgentReplica.ts)      *)
(* chains versions, guards the other fields by cursors, and repairs a gap  *)
(* with a snapshot, rebased on the events that came meanwhile.             *)
(*                                                                         *)
(* The database has one owner at a time (module DatabaseConnection): while *)
(* a transaction is open or published, no other statement runs.  Of an     *)
(* agent's fields there are its status, its title and its draft; a title   *)
(* and a draft are the event that wrote them.                              *)
(* Bounds: MaxEvents, MaxFaults.                                           *)
(***************************************************************************)
EXTENDS EventFeed, FiniteSets

CONSTANTS
    Root,        \* the agent the client follows
    Children,    \* its subagents
    Kinds,       \* the events that occur, of those below
    MaxEvents,   \* bound: events minted
    MaxFaults    \* bound: connections and requests that fail, restarts

VARIABLES
    \* the daemon: versions minted, the event of the open transaction, the
    \* events in the database, those only streamed, what each agent's chain
    \* still has to announce, and the agents in #liveRetries
    minted, tx, durable, streamed, chain, liveRetries,
    \* the request for a snapshot: what it has read
    snapshot,
    \* the reducer
    client,
    faults

serverVars == <<minted, tx, durable, streamed, chain, liveRetries>>
reducerVars == <<snapshot, client, faults>>
vars == <<feedVars, serverVars, reducerVars>>

Agents == {Root} \cup Children
Versions == 0..MaxEvents
EventKinds == {"started", "settled", "titled", "drafted", "retrying", "streamed"}
Events == [id : 1..MaxEvents, agent : Agents, kind : EventKinds]
NoEvent == [id |-> 0, agent |-> Root, kind |-> "none"]
Parts == {"draft", "clear", "update"}

Resource == [version : Versions, status : {"working", "idle"}, title : Versions]

(* The entries of the journal: an agent's new draft, a change of the fields *)
(* of an agent from one version to another, and what is not for this client.*)
DraftEntry(a, draft) == [type |-> "draft", agent |-> a, draft |-> draft]
UpdateEntry(a, previous, version, changes) ==
    [type |-> "update", agent |-> a, previous |-> previous, version |-> version,
     changes |-> changes]
Changes == {<<>>, <<"status", "working">>, <<"status", "idle">>, <<"title">>}
ShownEntries ==
    {DraftEntry(a, d) : a \in Agents, d \in Versions}
        \cup {UpdateEntry(a, p, v, c) : a \in Agents, p \in Versions, v \in Versions, c \in Changes}
HiddenEntry == [type |-> "hidden"]

ASSUME AgentReplicaAssumption ==
    /\ Root \notin Children /\ Kinds \subseteq EventKinds
    /\ MaxEvents \in Nat /\ MaxFaults \in Nat
    /\ Visible = ShownEntries /\ Entry = Visible \cup {HiddenEntry}
-----------------------------------------------------------------------------
(* What the daemon's tables and memory say.                                 *)

Greatest(S) == CHOOSE n \in S \cup {0} : \A m \in S : m <= n

Of(a, events) == {e \in events : e.agent = a}
Ids(events) == {e.id : e \in events}
WithKind(kinds, events) == {e \in events : e.kind \in kinds}

(* latestAgentEvent, and previousCursor before an event. *)
LatestVersion(a) == Greatest(Ids(Of(a, durable \cup streamed)))
PreviousVersion(e) ==
    Greatest({v \in Ids(Of(e.agent, durable \cup streamed)) : v < e.id})

(* At version v of agent a.  At version 0 a run is going.                   *)
StatusAt(a, v) ==
    LET turns == {e \in WithKind({"started", "settled"}, Of(a, durable)) : e.id <= v}
    IN  IF \E e \in turns : e.kind = "settled" /\ e.id = Greatest(Ids(turns))
        THEN "idle" ELSE "working"
TitleAt(a, v) == Greatest({n \in Ids(WithKind({"titled"}, Of(a, durable))) : n <= v})

Status(a) == StatusAt(a, minted)
Title(a) == TitleAt(a, minted)
Draft(a) == Greatest(Ids(WithKind({"drafted"}, Of(a, durable))))

Free == tx = NoEvent
Fault == faults < MaxFaults /\ faults' = faults + 1
-----------------------------------------------------------------------------
Unread == [version |-> 0, status |-> "working", title |-> 0]
NoSnapshot == [cursor |-> 0, at |-> [a \in Agents |-> "config"],
               agents |-> [a \in Agents |-> Unread], draft |-> 0, drafted |-> FALSE,
               dead |-> FALSE]

NoReplica == [known |-> FALSE, agent |-> Unread, draft |-> 0, draftCursor |-> 0,
              subagents |-> [a \in Children |-> Unread], subagentsCursor |-> 0]

Init ==
    /\ FeedInit
    /\ minted = 0 /\ tx = NoEvent /\ durable = {} /\ streamed = {}
    /\ chain = [a \in Agents |-> <<>>] /\ liveRetries = {}
    /\ snapshot = NoSnapshot
    /\ client = [replica |-> NoReplica, dirty |-> TRUE, syncing |-> FALSE,
                 recent |-> {}, complete |-> TRUE, retrying |-> FALSE]
    /\ faults = 0
-----------------------------------------------------------------------------
(* The daemon's events.                                                     *)

(* What the agent is doing allows the event.  A run that is settling has    *)
(* nothing more to stream.                                                  *)
Happens(a, kind) ==
    CASE kind = "started" -> Status(a) = "idle"
      [] kind \in {"settled", "retrying"} -> Status(a) = "working"
      [] kind = "streamed" -> Status(a) = "working" /\ ~(tx.agent = a /\ tx.kind = "settled")
      [] OTHER -> TRUE

NewEvent(a, kind) == [id |-> minted + 1, agent |-> a, kind |-> kind]

(* What the conversion of an event appends, in order.                       *)
PartsOf(e) ==
    LET parts == CASE e.kind = "drafted" -> <<"draft", "update">>
                   [] e.kind = "settled" -> <<"clear", "update">>
                   [] OTHER -> <<"update">>
    IN  [i \in DOMAIN parts |-> [event |-> e, part |-> parts[i]]]

Enqueue(e) == chain' = [chain EXCEPT ![e.agent] = @ \o PartsOf(e)]

(* recordInDatabase, in its caller's transaction. *)
Record(a, kind) ==
    /\ Free /\ minted < MaxEvents /\ kind # "streamed" /\ Happens(a, kind)
    /\ tx' = NewEvent(a, kind) /\ minted' = minted + 1
    /\ UNCHANGED <<feedVars, durable, streamed, chain, liveRetries, reducerVars>>

(* The transaction commits, and its event is published. *)
Publish ==
    /\ ~Free
    /\ tx' = NoEvent /\ durable' = durable \cup {tx} /\ Enqueue(tx)
    /\ UNCHANGED <<feedVars, minted, streamed, liveRetries, reducerVars>>

Rollback ==
    /\ ~Free
    /\ tx' = NoEvent
    /\ UNCHANGED <<feedVars, minted, durable, streamed, chain, liveRetries, reducerVars>>

(* #streamDelta, which awaits nothing. *)
Stream(a) ==
    /\ minted < MaxEvents /\ Happens(a, "streamed")
    /\ LET e == NewEvent(a, "streamed")
       IN  streamed' = streamed \cup {e} /\ Enqueue(e)
    /\ minted' = minted + 1
    /\ UNCHANGED <<feedVars, tx, durable, liveRetries, reducerVars>>

(* The fields an update carries besides its version. *)
ChangesOf(e) ==
    CASE e.kind \in {"started", "streamed"} -> <<"status", "working">>
      [] e.kind = "settled" -> <<"status", "idle">>
      [] e.kind = "titled" -> <<"title">>
      [] OTHER -> <<>>

Update(e, changes) == UpdateEntry(e.agent, PreviousVersion(e), e.id, changes)

(* #retryingChange: the retry an event sets or clears. *)
RetriesAfter(next) ==
    IF next.event.kind = "retrying" THEN liveRetries \cup {next.event.agent}
    ELSE IF next.event.kind \in {"started", "settled"} THEN liveRetries \ {next.event.agent}
    ELSE liveRetries

(* #convertAgentEvent, the next append of an agent's chain. *)
Convert(a) ==
    /\ Free /\ chain[a] # <<>>
    /\ LET next == Head(chain[a])
           e == next.event
       IN  /\ chain' = [chain EXCEPT ![a] = Tail(@)]
           /\ liveRetries' = RetriesAfter(next)
           /\ IF next.part = "draft" THEN Journal(DraftEntry(a, Draft(a)))
              ELSE IF next.part = "update" THEN Journal(Update(e, ChangesOf(e)))
              ELSE IF a \in liveRetries THEN Journal(Update(e, <<>>))
              ELSE UNCHANGED <<log, daemonVars, connectionVars>>
    /\ UNCHANGED <<followerVars, minted, tx, durable, streamed, reducerVars>>

(* Another module's event, for another user.  Bound: a daemon's first. *)
Elsewhere ==
    /\ log[Len(log)] = Origin
    /\ Journal(HiddenEntry)
    /\ UNCHANGED <<followerVars, serverVars, reducerVars>>
-----------------------------------------------------------------------------
(* The request for a snapshot, #agentBootstrap.                             *)

Serving == client.syncing /\ ~snapshot.dead
Serve(next) ==
    /\ snapshot' = next
    /\ UNCHANGED <<feedVars, serverVars, client, faults>>

Capture ==
    /\ Serving /\ snapshot.cursor = 0
    /\ Serve([snapshot EXCEPT !.cursor = Len(log)])

(* #requireAgentResource, of the agent and then of its subagents. *)
Reads(a, stage) ==
    /\ Serving /\ snapshot.cursor # 0 /\ Free
    /\ snapshot.at[a] = stage
    /\ a # Root => snapshot.at[Root] = "done"

ReadConfig(a) ==
    /\ Reads(a, "config")
    /\ Serve([snapshot EXCEPT !.at[a] = "version", !.agents[a].title = Title(a)])

ReadVersion(a) ==
    /\ Reads(a, "version")
    /\ Serve([snapshot EXCEPT !.at[a] = "status", !.agents[a].version = LatestVersion(a)])

ReadStatus(a) ==
    /\ Reads(a, "status")
    /\ Serve([snapshot EXCEPT !.at[a] = "done", !.agents[a].status = Status(a)])

ReadDraft ==
    /\ Reads(Root, "done") /\ ~snapshot.drafted
    /\ Serve([snapshot EXCEPT !.draft = Draft(Root), !.drafted = TRUE])

Answered == snapshot.drafted /\ \A a \in Agents : snapshot.at[a] = "done"
-----------------------------------------------------------------------------
(* The reducer's replica, HappyReducerAgentReplica.ts.                      *)

(* applyResourceUpdate *)
Changed(resource, e) ==
    CASE e.changes = <<"title">> -> [resource EXCEPT !.version = e.version, !.title = e.version]
      [] e.changes = <<>> -> [resource EXCEPT !.version = e.version]
      [] OTHER -> [resource EXCEPT !.version = e.version, !.status = e.changes[2]]
Knows(resource, e) == resource.version >= e.version
Chains(resource, e) == resource.version = e.previous
AppliesAcrossGaps(resource, e) == IF Knows(resource, e) THEN resource ELSE Changed(resource, e)
Applied(resource, e) ==
    IF ~Knows(resource, e) /\ Chains(resource, e) THEN Changed(resource, e) ELSE resource
Gap(resource, e) == ~Knows(resource, e) /\ ~Chains(resource, e)

(* reduceHappyReducerAgentEvent: the replica, and whether it is now dirty. *)
ReduceUpdate(replica, e, c) ==
    LET listed == e.agent \in Children /\ c > replica.subagentsCursor
        known == IF listed THEN replica.subagents[e.agent] ELSE replica.agent
        gap == (listed \/ e.agent = Root) /\ Gap(known, e)
    IN  [replica |->
            IF e.agent = Root THEN [replica EXCEPT !.agent = Applied(known, e)]
            ELSE IF listed /\ ~gap
            THEN [replica EXCEPT !.subagents[e.agent] = Applied(known, e), !.subagentsCursor = c]
            ELSE replica,
         dirty |-> gap]

Reduce(replica, e, c) ==
    IF ~replica.known THEN [replica |-> replica, dirty |-> FALSE]
    ELSE IF e.type = "update" THEN ReduceUpdate(replica, e, c)
    ELSE [replica |->
            IF e.agent = Root /\ c > replica.draftCursor
            THEN [replica EXCEPT !.draft = e.draft, !.draftCursor = c] ELSE replica,
          dirty |-> FALSE]

(* createHappyReducerAgentReplica *)
NewestIncoming(old, new) == new
Newest(old, new) == IF old.version >= new.version THEN old ELSE new

Adopt(old) ==
    LET keepDraft == old.draftCursor > snapshot.cursor
        keepSubagents == old.subagentsCursor > snapshot.cursor
    IN  [known |-> TRUE,
         agent |-> IF old.known THEN Newest(old.agent, snapshot.agents[Root])
                   ELSE snapshot.agents[Root],
         draft |-> IF keepDraft THEN old.draft ELSE snapshot.draft,
         draftCursor |-> IF keepDraft THEN old.draftCursor ELSE snapshot.cursor,
         subagents |-> [a \in Children |->
             IF keepSubagents THEN old.subagents[a]
             ELSE IF old.known THEN Newest(old.subagents[a], snapshot.agents[a])
             ELSE snapshot.agents[a]],
         subagentsCursor |-> IF keepSubagents THEN old.subagentsCursor ELSE snapshot.cursor]

(* The snapshot rebased on the events that came after it was asked for. *)
NotRebased == [replica |-> Adopt(client.replica), dirty |-> FALSE]

Rebased ==
    LET start == [replica |-> Adopt(client.replica), dirty |-> FALSE]
        after[c \in 0..Len(log)] ==
            IF c = 0 THEN start
            ELSE IF c \notin client.recent THEN after[c - 1]
            ELSE LET result == Reduce(after[c - 1].replica, log[c], c)
                 IN  [result EXCEPT !.dirty = @ \/ after[c - 1].dirty]
    IN  after[Len(log)]
-----------------------------------------------------------------------------
(* The reducer's schedule, HappyReducer.ts.                                 *)

Connected == open /\ hello = NoHello

(* #drainAgentSyncQueue starts the request that a dirty replica needs. *)
Starts(c) == c.dirty /\ ~c.syncing /\ ~c.retrying
Drained(c) ==
    IF Starts(c)
    THEN [c EXCEPT !.dirty = FALSE, !.syncing = TRUE, !.recent = {}, !.complete = TRUE]
    ELSE c

(* The recent events are forgotten and all is to be read again. *)
Invalidated(c) == [c EXCEPT !.recent = {}, !.complete = FALSE, !.dirty = TRUE]
Suspect(c, suspicion) == IF suspicion THEN Drained(Invalidated(c)) ELSE c

(* A new request reads its snapshot anew. *)
Becomes(c) ==
    /\ client' = c
    /\ snapshot' = IF c.syncing /\ ~client.syncing THEN NoSnapshot
                   ELSE IF ~c.syncing THEN NoSnapshot ELSE snapshot

(* connected, then daemon_started, then state_lost *)
Hello ==
    /\ ReadHello
    /\ Becomes(Suspect(Suspect(Drained(client), Replaced), StateLost))
    /\ UNCHANGED <<log, daemonVars, open, wire, serverVars, faults>>

(* The recent events are those a running request will be rebased on. *)
Remembered(c, p) == IF c.syncing THEN [c EXCEPT !.recent = @ \cup {p}] ELSE c

Frame(p) ==
    /\ ReadEvent(p)
    /\ LET result == Reduce(client.replica, log[p], p)
           c == [Remembered(client, p) EXCEPT !.replica = result.replica,
                                              !.dirty = @ \/ result.dirty]
       IN  IF p > cursor THEN Becomes(Drained(c)) ELSE UNCHANGED <<client, snapshot>>
    /\ UNCHANGED <<log, daemonVars, open, hello, daemonId, serverVars, faults>>

Drain(c) == IF Connected THEN Drained(c) ELSE c

(* #syncAgent, its answer.  The state may have been lost meanwhile. *)
FinishSync ==
    /\ client.syncing /\ Answered
    /\ LET c == [client EXCEPT !.replica = Rebased.replica, !.syncing = FALSE, !.recent = {},
                               !.dirty = @ \/ Rebased.dirty \/ ~client.complete]
           next == Drain(c)
       IN  client' = next
    /\ snapshot' = NoSnapshot
    /\ UNCHANGED <<feedVars, serverVars, faults>>

(* Its failure, and the timer of the next attempt. *)
Fails ==
    /\ client.syncing
    /\ \/ snapshot.dead /\ UNCHANGED faults
       \/ Fault

GivesUp ==
    /\ Fails
    /\ client' = Drain([client EXCEPT !.syncing = FALSE, !.recent = {}])
    /\ snapshot' = NoSnapshot
    /\ UNCHANGED <<feedVars, serverVars>>

FailSync ==
    /\ Fails
    /\ client' = [client EXCEPT !.syncing = FALSE, !.recent = {}, !.dirty = TRUE, !.retrying = TRUE]
    /\ snapshot' = NoSnapshot
    /\ UNCHANGED <<feedVars, serverVars>>

RetryTimer ==
    /\ client.retrying
    /\ Becomes(Drain([client EXCEPT !.retrying = FALSE]))
    /\ UNCHANGED <<feedVars, serverVars, faults>>

(* A request that takes longer than the recent events are retained. *)
PrunesSilently ==
    /\ client.syncing /\ client.complete /\ Fault
    /\ \E k \in client.recent \cup {0} : client' = [client EXCEPT !.recent = {p \in @ : p > k}]
    /\ UNCHANGED <<feedVars, serverVars, snapshot>>

Prune ==
    /\ client.syncing /\ client.complete /\ Fault
    /\ \E k \in client.recent \cup {0} :
          client' = [client EXCEPT !.recent = {p \in @ : p > k}, !.complete = FALSE]
    /\ UNCHANGED <<feedVars, serverVars, snapshot>>
-----------------------------------------------------------------------------
(* Connections and daemons.                                                 *)

Reconnect == Connect /\ UNCHANGED <<log, daemonVars, followerVars, serverVars, reducerVars>>

LoseConnection ==
    /\ Break /\ Fault
    /\ UNCHANGED <<log, daemonVars, followerVars, serverVars, snapshot, client>>

(* stop, and start with what the reducer has. *)
StopAndStart ==
    /\ StartAgain /\ Fault
    /\ client' = [client EXCEPT !.syncing = FALSE, !.recent = {}, !.retrying = FALSE, !.dirty = TRUE]
    /\ snapshot' = NoSnapshot
    /\ UNCHANGED <<log, daemonVars, cursor, news, serverVars>>

(* What only memory held is gone, and a request in service with it.  An    *)
(* open transaction may just have committed.                                *)
RestartDaemon ==
    /\ NewDaemon /\ Fault
    /\ \/ Free /\ UNCHANGED durable
       \/ ~Free /\ durable' \in {durable, durable \cup {tx}}
    /\ tx' = NoEvent /\ streamed' = {} /\ liveRetries' = {}
    /\ chain' = [a \in Agents |-> <<>>]
    /\ snapshot' = IF client.syncing /\ ~Answered THEN [NoSnapshot EXCEPT !.dead = TRUE]
                   ELSE snapshot
    /\ UNCHANGED <<followerVars, minted, client>>
-----------------------------------------------------------------------------
Quiet ==
    /\ Free /\ \A a \in Agents : chain[a] = <<>>
    /\ Connected /\ wire = {}
    /\ ~client.dirty /\ ~client.syncing

Rest == Quiet /\ UNCHANGED vars

Transact == Publish \/ Rollback
Work == Transact \/ \E a \in Agents : Convert(a)
Receive == Hello \/ \E p \in wire : Frame(p)
Request ==
    \/ Capture \/ ReadDraft
    \/ \E a \in Agents : ReadConfig(a) \/ ReadVersion(a) \/ ReadStatus(a)
Sync == Request \/ FinishSync \/ (snapshot.dead /\ FailSync) \/ RetryTimer

Next ==
    \/ \E a \in Agents, kind \in Kinds : Record(a, kind)
    \/ \E a \in Agents : "streamed" \in Kinds /\ Stream(a)
    \/ Work \/ Elsewhere \/ Receive \/ Request
    \/ FinishSync \/ FailSync \/ RetryTimer \/ Prune
    \/ Reconnect \/ LoseConnection \/ StopAndStart \/ RestartDaemon \/ Rest

Spec == Init /\ [][Next]_vars

(* The database serves its queue and the chains go on, the client connects *)
(* again and reads what it was sent, and a request goes on until it ends.   *)
Fairness == WF_vars(Work) /\ WF_vars(Reconnect \/ Receive) /\ WF_vars(Sync)

FairSpec == Spec /\ Fairness
-----------------------------------------------------------------------------
Known(a) == IF a = Root THEN client.replica.agent ELSE client.replica.subagents[a]

Part == [event : Events, part : Parts]
SnapshotType ==
    [cursor : Nat, at : [Agents -> {"config", "version", "status", "done"}],
     agents : [Agents -> Resource], draft : Versions, drafted : BOOLEAN, dead : BOOLEAN]
ReplicaType ==
    [known : BOOLEAN, agent : Resource, draft : Versions, draftCursor : Nat,
     subagents : [Children -> Resource], subagentsCursor : Nat]
ClientType ==
    [replica : ReplicaType, dirty : BOOLEAN, syncing : BOOLEAN, recent : SUBSET Nat,
     complete : BOOLEAN, retrying : BOOLEAN]

(* Every variable stays within the values the code can give it; a request is*)
(* forgotten when it ends, and a failed one leaves the replica to be read   *)
(* again.                                                                   *)
TypeOK ==
    /\ minted \in Versions /\ tx \in Events \cup {NoEvent}
    /\ durable \subseteq Events /\ streamed \subseteq Events
    /\ chain \in [Agents -> Seq(Part)]
    /\ liveRetries \subseteq Agents
    /\ snapshot \in SnapshotType /\ snapshot.cursor <= Len(log)
    /\ client \in ClientType /\ client.recent \subseteq 1..cursor
    /\ ~client.syncing => client.recent = {} /\ snapshot = NoSnapshot
    /\ client.retrying => client.dirty /\ ~client.syncing
    /\ faults \in 0..MaxFaults

(* When nothing is in flight and the reducer rests, it shows the agent as   *)
(* it is: no update was lost between the snapshot, the events that came     *)
(* while it was read, and those that came after.                            *)
QuietMeansCurrent ==
    Quiet => /\ client.replica.known
             /\ client.replica.agent.status = Status(Root)
             /\ client.replica.draft = Draft(Root)

(* The same of its subagents, which share one cursor: an event of one of   *)
(* them that comes while a snapshot is read must not keep the snapshot's    *)
(* news of another one out (README, section 6).                             *)
QuietSubagentsCurrent ==
    Quiet => \A a \in Children : client.replica.subagents[a].status = Status(a)

(* A resource is labelled with a version no newer than what it shows: an    *)
(* older state under a newer version would never be corrected, as the event *)
(* that should is ignored.                                                  *)
TrailsItsState ==
    client.replica.known => \A a \in Agents :
        \E v \in Known(a).version..minted : Known(a).status = StatusAt(a, v)

(* The same of the title, which is read before the version (README,        *)
(* section 6: it is not so).                                                *)
TitleTrails ==
    client.replica.known => \A a \in Agents : Known(a).title >= TitleAt(a, Known(a).version)

(* What is shown of the agent is never replaced by an older version.        *)
NeverGoesBack ==
    [][client.replica.known =>
        /\ client'.replica.known
        /\ client'.replica.agent.version >= client.replica.agent.version
        /\ client'.replica.draftCursor >= client.replica.draftCursor]_vars

(* What holds all of this together, as the proofs use it.                   *)

Turns(a) == WithKind({"started", "settled"}, Of(a, durable))
TurnIsOpen(a) == tx.agent = a /\ tx.kind \in {"started", "settled"}

(* Events are minted in order, and an open turn is what its agent allowed.  *)
EventsInv ==
    /\ \A e \in durable \cup streamed : e.id <= minted
    /\ \A e, f \in durable \cup streamed : e.id = f.id => e = f
    /\ \A e \in streamed : e.kind = "streamed"
    /\ ~Free => /\ tx.id <= minted /\ tx.kind # "streamed"
                /\ \A e \in durable : e.id < tx.id
                /\ \A e \in streamed : e.id # tx.id
                /\ tx.kind = "started" => Status(tx.agent) = "idle"

(* A version precedes the turn that is open.                                *)
Precedes(a, version) == version <= minted /\ (TurnIsOpen(a) => version < tx.id)

(* A status an agent had at a version, or later.                            *)
Since(a, version, status) == \E v \in version..minted : status = StatusAt(a, v)
Trails(a, resource) ==
    Precedes(a, resource.version) /\ Since(a, resource.version, resource.status)

(* An update is as new as its version, and changes what happened since the  *)
(* one before.                                                              *)
IsUpdate(entry) == entry \in Visible /\ entry.type = "update"
IsSettled(status) == status \in {<<"status", "working">>, <<"status", "idle">>}
UpdateOK(e) ==
    /\ Precedes(e.agent, e.version)
    /\ IF IsSettled(e.changes) THEN Since(e.agent, e.version, e.changes[2])
       ELSE \A turn \in Turns(e.agent) : turn.id <= e.previous \/ turn.id > e.version

PartOK(a, part) ==
    LET e == part.event
    IN  /\ e.agent = a /\ e \in durable \cup streamed /\ Precedes(a, e.id)
        /\ e.kind = "streamed" => Since(a, e.id, "working")

JournalUpdates ==
    /\ \A a \in Agents : \A i \in DOMAIN chain[a] : PartOK(a, chain[a][i])
    /\ \A p \in 1..Len(log) : IsUpdate(log[p]) => UpdateOK(log[p])
    /\ liveRetries = {}

(* What the daemon has still to announce of the agent, and what it has      *)
(* journaled after a cursor.                                                *)
InChain(part) == \E i \in DOMAIN chain[Root] : chain[Root][i].part = part
UpdateDue(e) ==
    \E i \in DOMAIN chain[Root] : chain[Root][i].part = "update" /\ chain[Root][i].event = e
IsDraft(entry) == entry \in Visible /\ entry.type = "draft" /\ entry.agent = Root

(* Events newer than a version come after a cursor.                         *)
NewsAfter(version, c) ==
    \A e \in Of(Root, durable) :
        \/ e.id <= version \/ UpdateDue(e)
        \/ \E p \in (c + 1)..Len(log) :
               IsUpdate(log[p]) /\ log[p].agent = Root /\ log[p].version = e.id

(* A draft is the agent's, or another one comes after a cursor.             *)
DraftAfter(draft, c) ==
    \/ draft = Draft(Root) \/ InChain("draft")
    \/ \E p \in (c + 1)..Len(log) : IsDraft(log[p])

(* A cursor of the daemon that runs.                                        *)
Current(c) == \A p \in (c + 1)..Len(log) : log[p] # Origin

JournalDrafts ==
    \A p \in 1..Len(log) : IsDraft(log[p]) /\ Current(p) => DraftAfter(log[p].draft, p)

(* A stream goes on from a cursor of the daemon it is connected to.         *)
StreamInv ==
    /\ hello # NoHello => Current(hello.cursor) /\ (hello.resumed => Current(cursor))
    /\ open /\ hello = NoHello => Current(cursor)

(* What a request has read, it will not miss the news of.                   *)
SnapshotInv ==
    /\ snapshot.cursor = 0 => snapshot.at[Root] = "config" /\ ~snapshot.drafted
    /\ snapshot.at[Root] # "done" => \A a \in Children : snapshot.at[a] = "config"
    /\ \A a \in Agents :
        /\ snapshot.at[a] = "status" => Precedes(a, snapshot.agents[a].version)
        /\ snapshot.at[a] = "done" => Trails(a, snapshot.agents[a])
    /\ Current(snapshot.cursor) /\ snapshot.at[Root] \in {"status", "done"} =>
           NewsAfter(snapshot.agents[Root].version, snapshot.cursor)
    /\ Current(snapshot.cursor) /\ snapshot.drafted =>
           DraftAfter(snapshot.draft, snapshot.cursor)

(* The events to rebase on are all those shown since the request.           *)
RecentInv ==
    /\ \A p \in client.recent : log[p] \in Visible
    /\ client.syncing /\ client.complete /\ Current(cursor) /\ snapshot.cursor # 0 =>
        /\ Current(snapshot.cursor)
        /\ \A p \in (snapshot.cursor + 1)..cursor : log[p] \in Visible => p \in client.recent
    /\ client.syncing /\ snapshot.cursor # 0 /\ client.replica.draftCursor > snapshot.cursor =>
        /\ client.replica.draftCursor <= cursor
        /\ IsDraft(log[client.replica.draftCursor])
        /\ client.replica.draft = log[client.replica.draftCursor].draft

(* A replica that needs no request will be current by what comes after it.  *)
Later(c, d) == IF c >= d THEN c ELSE d
Rests == ~client.dirty /\ ~client.syncing

ClientInv ==
    /\ ~client.replica.known => client.replica = NoReplica
    /\ client.replica.draftCursor <= Len(log)
    /\ cursor = 0 => client.dirty /\ ~client.syncing
    /\ Rests => client.replica.known

RestInv ==
    Rests /\ Current(cursor) =>
        /\ NewsAfter(client.replica.agent.version, cursor)
        /\ DraftAfter(client.replica.draft, Later(cursor, client.replica.draftCursor))

(* What the client has and what is still to come make up what the agent is: *)
(* through every order of commits, streamed versions, the statements of a   *)
(* snapshot, frames, failures and restarts, each event of the agent is in   *)
(* what was read or shown, among the recent events, in the journal after    *)
(* the cursor or in the agent's chain.                                      *)
ReplicaInv ==
    /\ TypeOK /\ FeedInv /\ EventsInv /\ JournalUpdates /\ JournalDrafts /\ StreamInv
    /\ SnapshotInv /\ RecentInv /\ ClientInv /\ RestInv /\ TrailsItsState
    /\ client.replica.known => \A a \in Agents : Trails(a, Known(a))

(* Once changes, failures and restarts have ceased, the replica becomes     *)
(* current and stays so.                                                    *)
IsCurrent ==
    /\ client.replica.known
    /\ client.replica.agent.status = Status(Root)
    /\ client.replica.draft = Draft(Root)

BecomesCurrent == <>[]IsCurrent
=============================================================================
