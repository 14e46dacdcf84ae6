# Happy Agent: a TLA+ model of durable agents and the views of them

Happy Agent runs coding agents that must survive crashes, restarts, aborts and failing storage
without losing a message or an answer, without answering a tool call twice, and without hanging;
and it shows them to clients over connections that break. This directory models the core that makes
those promises, checks it with TLC on small instances, and proves the invariants that matter most
with TLAPS for every instance.

| file | what it is |
| --- | --- |
| `AgentBase.tla` | one durable agent: the run loop of `packages/happy-agent-base/sources/AgentBase.ts` |
| `DurableAgent.tla` | what one agent promises whoever talks to it (abstract specification) |
| `AgentBase_proofs.tla` | proofs: types, and that no accepted work is forgotten |
| `AgentConversation_proofs.tla` | proofs: the conversation: once accepted, once answered, in place, run once |
| `AgentRecovery_proofs.tla` | proofs: what an agent leaves its next owner: settled means complete, a due answer is owed and found; the refinement of `DurableAgent` |
| `DatabaseConnection.tla` | the scheduling boundary of one database: `AgentDatabaseConnection.ts`, `inTx.ts` |
| `SerialDatabase.tla` | what that boundary promises its callers (abstract specification) |
| `DatabaseConnection_proofs.tla` | proofs: the queue, exclusive ownership, the refinement |
| `DurableFunctions.tla` | calls that survive a restart: `happy-agent-modules/sources/durableFunctions` |
| `DurableWork.tla` | what they promise the modules that make them (abstract specification) |
| `DurableFunctions_proofs.tla` | proofs: the inductive invariant, all its safety properties, the refinement |
| `EventFeed.tla` | the API's event journal and stream, and the client that follows it |
| `FaithfulFeed.tla` | what the feed promises a client (abstract specification) |
| `EventFeed_proofs.tla` | proofs: the inductive invariant and the refinement |
| `AgentReplica.tla` | an agent's events on their way to a client's replica of it; composes `EventFeed` |
| `AgentReplica_proofs.tla` | proofs: a client at rest shows the agent as it is, and nothing shown goes back |
| `AgentSystem.tla` | which agents a process has in memory: `AgentSystemLocal.ts` |
| `OwnedStores.tla` | who may write what the database holds of an identity (abstract specification) |
| `AgentSystem_proofs.tla` | proofs: one restoration, never two agents at work on one store, what was erased stays erased; the refinement of `OwnedStores` |
| `MC*.tla`, `*.cfg` | the instances TLC checks, one `.cfg` per run |
| `PROJECT.json` | indexes components, runs, mutants, code lines, findings, hazards and theorems |

## 1. Inventory

Paths are under `src/packages/`.

**Agent run loop** (`happy-agent-base/sources/AgentBase.ts`, 5,600 lines, one class).
*State.* Durable: two queues of accepted messages (steering and send), the claimed message
identities, the append-only conversation, the `owed` record ("this agent has work; its run is at
stage inference, tools or settlement, perhaps with a request in flight"), and one entry per call
of a dispatched tool batch. Volatile: the loaded conversation, the queues in memory, the cached
`owed` record, the abort scope, and the flags of the run.
*Operations.* `send`, `steer` (alone or inside a caller's transaction), `abort`, `drain`, `close`,
`start`; inside a run: loops, turns, loading, consuming a message, requesting and collecting a
response, executing a batch, settling.
*Interacts with* the database through `inTx` and after-commit callbacks, providers through a
stream of blocks, tools through promises, and `AgentSystemLocal`, which starts agents that owe work.
*Hard.* Everything is interleaved at `await`s; an offer commits at any moment, and is announced to
memory later; any storage write may fail; a crash may fall between any two steps.
*Correct when* accepted work is never forgotten, accepted once and answered; calls are answered
once and in place; a tool that may not be retried runs once; the agent does not hang or spin.

**Database scheduling** (`AgentDatabaseConnection.ts`, `inTx.ts`). *State.* a chain of promises
(each job awaits the one before it), the connection's state, and, carried along asynchronous
call chains, the root operation and transaction each belongs to. *Operations.* `operation`,
`transaction`, the transaction's facade, publication after a commit, `close`. *Hard.* re-entrance
without waiting behind oneself, flows left running inside somebody's operation, close racing
admitted work. *Correct when* there is one owner at a time until its commit is published, close
drains and closes once, and nothing admitted waits for ever.

**Agent persistence** (`AgentPersistenceDrizzle.ts`, `AgentStorage.ts`, `AgentKV.ts`): sorted keys
and append-only records in SQL; stores bound to the transaction they were made in.
**Database process lock** (`AgentSQLiteProcessLock.ts`): one process per database file.
**Agent system** (`AgentSystemLocal.ts`). *State.* Durable: the configuration of each identity, and each
one's store. Volatile: the agents in memory by identity, the identities restored in this process, a
lock per identity, the handovers of deleted agents, the calls admitted, and what each transaction
has staged. *Operations.* start-up, `resolve`, `send`, `create`, `delete`, `erase`, each outside a
transaction (under the identity's lock) or inside a caller's (which holds the database instead),
`drain`, `close`. *Interacts with* agents, which it loads, starts and closes, and with the database,
whose publication of a commit is where staged agents are published. *Hard.* the lock and the database
are taken in either order; whatever was read may be gone after the next `await`; a closing agent
still writes. *Correct when* no two agents work on one store, an agent in memory has an identity and
was restored once and first, what was erased stays erased, and nothing waits in a circle.
**Durable functions** (`happy-agent-modules/sources/durableFunctions`). *State.* Durable: one row per
call, with its lock keys, creation time and perhaps an operation id, and the state its executor
stores. Volatile: the dispatcher's waiting and running calls, the lock keys held, recovery's page
and cursor, the transaction's after-commit callbacks. *Operations.* `invoke`, `cancel` (in a caller's
transaction), the executions and their completion, recovery by pages at start, `stop`. There are no
claims, leases, retries or timeouts: a call that was not settled runs again in the next process.
*Hard.* the callback of a transaction and recovery both hand over the same call; clocks disagree with
the order of commits; a cancellation meets an execution. *Correct when* a committed call settles
once, runs only with its lock keys to itself and in their order, and leaves no state behind.
**Scheduling**: alarms that fire once and survive a restart.

**Events** (`events/EventsModule.ts`): every event is minted in the transaction that causes it, is the
new version of its agent, and is published after the commit; streamed text mints versions in memory.
**API event feed** (`api/ApiEventJournal.ts`, parts of `api/ApiModule.ts`; `happy-agent-client`'s
`updates.ts`). *State.* a bounded journal in the daemon's memory, one chain of conversions per
agent, open streams; in the client a cursor and the daemon it last saw. *Operations.* append, replay
after a cursor, hello with or without a gap, snapshots read by many statements. *Hard.* the journal
drops what a client still wants; a break falls anywhere in a replay; another daemon answers.
**Client** (`HappyReducer.ts` and its replica). *State.* what it shows, each part with a version or
a cursor; whether it is dirty, syncing, waiting to retry; the events of the last seconds. *Hard.*
events overtake the snapshot that is being read. *Correct when* what is shown is never older than its
label, never goes back, and is the agent's state once nothing is in flight.
**User input and workflows**, **collaboration, subtasks and peer messaging**: questions, multi-step
work and messages between agents, each of which ends in an offer to an agent.
**Permissions and auto review**: decisions over a call. **Happy sync**: sessions mirrored over
sockets. **Other modules**: history, git, MCP, secrets, presence, goals.
**Daemon lifecycle** (`happy-agent/sources/lifecycle`): start, supervise, reload and stop one daemon
with pid files, stop intents and signals. **Daemon sockets and runner**: transports.
**Providers** (`happy-providers`): vendor streams. **Remote terminal protocol** (`ghostty-web`):
patches with acknowledgements and flow control. **Compute, plugins, worklets**: single calls.

`PROJECT.json` lists each with its status, and every hazard at its line.

## 2. How the modules correspond to the code

### AgentBase

`store` is what the database holds: `queue` (entries of both queues), `ids` (claimed identities),
`records` (the conversation), `owed` (the pending record) and `tools` (the dispatched batch). A
crash keeps it and nothing else. `mem` is the heap of the one live instance, grouped as `held`
(queues and conversation in memory), `run` (flags of the run and of the lifecycle), `owed` (what
the instance believes about the record) and `turn` (the turn in progress). `pc` names the await at
which the run is suspended. `log` holds history variables and the environment's budgets.

* **A step of the run is the code between two awaits**: at most one database transaction with the
  synchronous code behind it. Each action carries the lines it stands for in `PROJECT.json`.
  `#loadHistory`, whose reads are statements of their own, is two steps.
* **An offer** claims its identity, writes its queue entry and, if the agent is not already owed a
  turn, the record, in one transaction. Its after-commit callback runs later; `inTx` holds the
  database FIFO until it has (`DatabaseConnection` shows that), so no other database step takes
  place meanwhile, but aborts and crashes do. An offer inside a caller's own transaction is
  published and activated separately.
* **A failure** of a write (`stage`, `settle`, `commit`), of a load, or of a stream takes the code's
  error path, including what the code does not undo in memory.
* **A crash** throws `mem` away. `Start` is what `AgentSystemLocal.create` does with an agent whose
  record says that it owes work. Offers may come before it.

The record is kept as its stage and whether a request is open. Identities of loops and turns are
left out, so a write that would change only those changes nothing here, like the skipped write
in `#recordPending`. `Recorded(stage)` is that skip, made of the cached record, and therefore a
hazard of its own: if the cache ever claimed more than the store, work would be lost. Queue keys
are the positions at which entries sort.

History variables: `dropped` mirrors the durable meaning of `#abandonedQueueKeys` (entries an abort
or a failed turn gave up; they stay queued, as the code's notes say, but nothing runs for them);
`answerDue` (a response is owed to input or results), `ran` (executions per call), `excused` (calls
that a failed stream or load made the agent forget), `unowed` (calls made while the store owed nothing),
`unnamed` (the stage record could not be written when it mattered: at a request, or at a resumed batch over a
store that owes nothing), `cancelled` and `atAbort` (what an abort was asked to stop). `unowed` and
`unnamed` are about several lost stage records in a row, as told in section 3.

`DurableAgent` says what callers rely on, in ten lines of state and without memory, runs, caches or crashes: a message accepted
waits until it is said, once (`Accept`, `Take`); a call is made once and, while it is open, owed or excused
(`SayCall`); its tool starts again only if it may, and not once a result is decided (`Run`, `Decide`, `Answer`); and
the agent comes to owe nothing only when nothing is left (`Settle`). `KeepsItsPromise` maps `waiting` and
`dropped` to the messages of the queue and of `dropped`, `said` to `records`, `decided` to the committed entries of the batch,
`forgotten` to `excused` and `unowed`, `due` to `answerDue` where the request has a record, and `owed` to whether the record
stands. An offer is `Accept`, the move of a message to the conversation `Take`, an early commit or a staged result `Decide`, the
write of a result `Answer`, an abort or a failure `GiveUp`, a turn that takes the queue up again after an abort `TakeUp`; a stage
record is `Owe`, the settlement `Settle`. Of the code's own order the abstract agent keeps only that nothing comes between a
call and its result; which of two messages goes first is left open (section 6, number 4).

### DatabaseConnection

`conn` is the connection (`#state`, the tail of `#available`, closes of the driver), `flow[f]` a
call chain, `db` the writes that are durable and those of the open transaction. A waiting job keeps
the job whose release it awaits (`prev`), as the code keeps a promise; nothing in the model says
that this is a queue. That it is one is `QueueInv`, and proved. What `AsyncLocalStorage` carries is
explicit: `inside` (the root operation) and `txn` (the transaction). `Fork` starts a flow nobody
awaits through `outsideAgentDatabaseOperation`, as the agents' background work does.
A call chain makes one call and opens one transaction in it. Statements are idempotent marks.

`SerialDatabase` says what callers rely on: one owner, only its writes become durable, one close.
`Serialised` maps `owners` to the flows between the first statement of their job and the end of
its publication, and `closed` to the driver having been closed.

### DurableFunctions

`status`, `sequence` and `state` are the rows as the open transaction sees them, with what became of
each call; `committed` and `committedState` are what a crash leaves. `tx`, `owner`, `hooks` are
the one transaction at a time that `DatabaseConnection` grants: its stage, the completion it is of,
and the callbacks it still has to run. `phase`, `page`, `more`, `cursor` are the process and its
recovery; `waiting`, `ahead`, `run`, `heldLockKeys`, `aborted` the dispatcher.

* **A section of the dispatch lock has no `await`**, so it is one step: `Enqueue` followed by
  `TakeRunnable`, `Finish` followed by `TakeRunnable`. `Runnable` says in one line what the loop of
  `#takeRunnable` computes; the run `durable` compares it with the loop as written.
* **The clock** a call was created at is read before its transaction, so `CreatedAt` is in any order
  to the row ids; recovery pages by both.
* **An executor** is a step that begins, perhaps a write of its own state, and an end that returns,
  throws or is aborted. `CheckState` and `WriteState` are the two halves of a write: the lifetime is
  checked, the statement then waits for the database.
* **A crash** (`ProcessEnds`) keeps the committed rows and nothing else.

`DurableWork` says what callers rely on. `KeepsItsPromise` maps `status` to what is committed and
`work` to the stage of each execution.

### AgentSystem

`db` holds which identities exist and whether each one's store is empty, settled or owes work; `tx` is
the one caller's transaction that may be open, with the database `before` it and what it has `staged`
for its commit; `sys` is the maps and flags of the class; `work[t]` is how far the call or transaction
`t` is, and `inst[t]` the agent it built, if it built one (an agent is named by the thread that built
it, since no call builds two). Start-up is a thread per identity, as `#start` settles them
side by side. `pc` names the await: `await` and `config` for an earlier handover, `lock` for the identity's
lock, `read`, `restore`, `load`, `probe`, `prepare`, `commit`, `drop`, `accept` for the database.

* **A call outside** a transaction takes the lock and then waits for the database at each statement;
  between two of them anything may happen. The lock is not taken by transactions.
* **A caller's transaction** makes up to `MaxOps` calls on one identity, each a step, since nobody else
  has the database; but agents close, runs of the environment, drains and closes go on. `Commit` is the
  commit with its after-commit callbacks, in one step, since the database goes to nobody else before
  they have returned (`PublicationIsExclusive`): publication, the handover of what was
  deleted, and activation. A call that throws rolls its transaction back.
* **Activation** (`Activated`) starts the run of the agent that was sent to as `#startRun` does
  (`AgentBase.ts` 2003), which asks whether a run goes or the agent drains, and not whether it is closed. An agent that the
  shutdown closed under an open transaction is set going by the commit, and nobody waits for that run: it is a
  *stray* (`Stray`, `log.strays`; `SetsAstray` is the step).
* **An agent** is whether its run goes. That a run ends with nothing owed, unless it is drained or closed,
  is what `AgentBase` shows (`EveryRunEnds`, `QueuedWorkIsOwed`); a run cut short may write anything.
* **A new process** is `Init`, which takes any database a process could leave.

`Uses` says how callers use an identity, fixed for each: `served` by calls outside transactions and by
transactions that send or resolve; `handed` over by transactions alone, which may erase and create
anew; `private` to calls outside transactions, which may delete. The properties hold for each of
these and not for mixtures; `mixed`, `crossed` and `reused` are three that section 6 speaks of.

`OwnedStores` says what callers and agents rely on, without calls, locks, transactions, maps or lifecycle: at most one agent
works on a store (`Create`, `Load`, `Leave`), which changes by that agent (`Write`), by a message to a configured
identity (`Send`), and while nobody works on it (`Clear`, `Delete`, `Vacate`); an erasure (`Erase`) empties it at once and
again once the agent has left. Once the agents are told to leave (`Stop`) a message may also set an agent going that has left
(`GoesAstray`, in `Send` and `Erase`), one at a time and where nobody works, and that stray writes once more over whatever is there (`StrayWrite`).
`StoresAreOwned` maps `configured` and `store` to what is committed, `working` to the agents that
are live or closing, `leaving` to the identities under handover, `stray` to those with a run on a closed agent, and `stopped` to
the lifecycle from `CloseAgents` on. A `Commit` is the one step of its transaction, whatever that
staged: a message, an agent loaded or created, a deletion. The calls of an open transaction are no steps, nor are rollbacks, locks,
restorations, drains, or the start and the end of the system, but for `CloseAgents`, which is `Stop`; `RunEnds` is `Write` if it
wrote, or `StrayWrite`, `CloseEnds` `Leave`, `FinishHandover` `Vacate`.

### EventFeed and AgentReplica

`log` is history: every entry that any daemon's journal ever took, with an `Origin` where a daemon
began. Positions in it stand for cursors. Those are UUIDv7, so that a later daemon's sort
after an earlier one's as long as the clock is not set back; the model assumes that. `origin` and
`first` delimit the part the journal still has. `hello` and `wire` are the frames of the open
connection not yet read, `cursor` and `daemonId` the follower's state. Serving a stream has no
`await` between reading the journal and subscribing to it, so `Connect` is one step; `ReadHello`
merges the up to three updates the client makes of a hello frame.

`AgentReplica` extends it. `tx`, `durable`, `streamed`, `minted` are the events module;
`chain[a]` is what agent `a`'s chain of conversions (`#queueAgentWork`) still has to announce, each
part reading the database when its turn comes; `snapshot` is the request in service, statement
by statement; `client` is the reducer: its replica, `dirty`, `syncing`, `retrying`, the recent events
and whether they are complete. `Reduce`, `Adopt`, `Rebased` translate
`HappyReducerAgentReplica.ts`; `Starts`, `Drained`, `Invalidated` the reducer's schedule. Events are
`started`, `settled`, `titled`, `drafted`, `retrying` and `streamed`; of an agent's fields the model has
the status (working or idle), the title and the draft: a field guarded by versions read in one
statement order, one read in the other, and one guarded by a cursor.

`FaithfulFeed` says what a client relies on: each visible event once, in order, or news of a loss.

## 3. Runs

| run | checks | shows |
| --- | --- | --- |
| `one_message` | `TypeOK`, `CallsAnsweredInPlace`, `SettledMeansComplete`, `NonRetryableRunsOnce`, `AnswerDueIsOwed`, `KeepsItsPromise` | one message, a retryable and a non-retryable call; a failure of any kind, an abort, a crash, and two stops (a drain and a close in either order) anywhere |
| `two_messages` | `QueuedWorkIsOwed`, `OwedInv`, `AcceptedExactlyOnce`, `IdleOwesOnlyOpenCalls` | two messages by any route, with a failure, an abort and a crash |
| `liveness` | `ConversationInv`, `EveryAnswerGiven`, `EveryRunEnds` | memory and store agree on the conversation; a due response is given, and runs end, through one of each event |
| `liveness_queue` | `EveryMessageTaken` | accepted messages are taken by a turn |
| `database` | `OneOwner`, `CloseDrains`, `QueueInv`, `PublicationIsExclusive`, `Serialised`, `EveryCallEnds` | three call chains with every kind of call |
| `durable` | `DurableInv`, `NoRowForgotten`, `StateErased`, `NoLeapfrog`, `OncePerProcess`, `TakesLikeTheLoop`, `KeepsItsPromise`, `EveryCallSettles` | three calls over two locks in two processes, pages of one row |
| `replica` | `ReplicaInv`, `FeedInv`, `FeedIsFaithful`, `QuietMeansCurrent`, `TrailsItsState`, `NeverGoesBack` | one agent, two events, one fault (break, failed or slow request, restarted client or daemon), a journal of two |
| `replica_liveness` | `BecomesCurrent` | one event, two faults |
| `system` | `SystemInv`, `ErasedStaysErased`, `StoresAreOwned`, `EveryCallReturns`, `WorkIsDone` | the invariant (with `OneInstance` in it) and the refinement of `OwnedStores`: one identity used in each of the three ways, two callers, the start of the system, drains and closes anywhere |
| `erased_returns`, `settled_retry`, `stale_sibling` | one property each | where the code does not do what its documentation says (section 6) |

Deadlock is checked in all but `system` and `erased_returns`, where a system whose calls have all returned
stops; that they return is `EveryCallReturns`. In the others `Rest` (an idle agent, answered calls, a
dispatcher with nothing to run, a client at rest) is the only stop. The type invariants of
`DatabaseConnection`, `DurableFunctions`, `AgentSystem` and `AgentReplica` are the first conjuncts of `QueueInv`,
`DurableInv`, `SystemInv` and `ReplicaInv`.

**Bounds.** The agent's hazards are races of one run with one or two callers and one mishap, so one
abort, one crash and one failure reach them; that they may all fall in the same behaviour is where
the interesting orders are. Two messages are the least at which one can be late for the settlement
of the other; two calls of different kind the least at which the wrong one may be refused. A
response holds one finished block, a text or a call (`MaxBlocks`): it may be interrupted before the
block, or between the block and its end. Responses of two blocks, a text and then a call, are left to the
proofs, which hold for any number. Two
stops are a drain and a close: a close that follows a drain does not abandon the
running tools, one that comes alone does. Symmetry is used over the two messages only where
no liveness is checked. Larger instances (two failures; two messages with a call) were explored
while writing the model and showed nothing else. Three chains are the least at which one job
owns the database, one waits, and a third is forked or closes.

Three durable calls over two locks are the least in which one waits for two locks while another
wants one of them; one repeats another's operation id, two read the same clock; pages of one row make
every row the end of a page; two transactions of two operations, and one end of the process, let a
row be made, cancelled and found again at any point of recovery. In the replica two events are a gap
and its repair, or a snapshot overtaken; a journal of two is full after the second entry. Subagents
are in `stale_sibling` only: their lists double the statements of a snapshot and their property
does not hold. Titles and retries are left out of the passing runs for the reason section 6 gives.
`replica_liveness` takes the second fault instead of the second event: it is repeated failure that
could keep the client from being repaired.

The identities of a system meet in the database and in nothing else, so one identity has all the races; two
callers and the start-up are three actors on it, of which one can hold the lock, one the database,
and one be closing. Two operations are the least with which a transaction meets what it staged
itself. Three callers, and two identities with one operation each, were explored for the invariants
(2.5 and 13.5 million states) and show nothing else.

**Fairness.** `AgentBase`: weak fairness of the run's steps, of the publication of a commit and of
`Start`. The event loop resumes every settled promise; providers end their streams and tools
return or observe their abort (the code races both against the abort); the owner coming up starts
what owes work. Nothing is assumed of callers, crashes or failures. `EveryMessageTaken` leaves out
the failing settlement: there the code deliberately leaves the record for the next owner
(comment at `AgentBase.ts` 2334), so "eventually" is up to a restart. `DatabaseConnection`: each
awaited promise resumes, and the work handed to the connection ends; an operation may run
statements for as long as it likes, so its end is strongly fair. `DurableFunctions`: transactions
end, recovery goes on (a process is started again), each call's next step is taken, and an executor
ends however often the database is taken from it (strong fairness); an executor that never returns
blocks its locks for ever in the code too. `AgentReplica`: the database and the chains go on, the
client connects again and reads what it was sent, and a request ends; the faults are finite by their
bound, and `BecomesCurrent` says what follows when they have ceased. `AgentSystem`: what is ready runs, a
caller ends its transaction, and agents' runs end; nobody is assumed to call, drain or close. A whole run there
settles what is owed (`RunEnds`): `WorkIsDone` assumes, as `EveryMessageTaken` does, that no settlement fails, and so speaks of
whether every path that brings an agent into memory starts it.

**Why the properties are as they are.** `SettledMeansComplete` excuses the calls that a failed stream
or load made the agent forget, `AnswerDueIsOwed` the requests whose record could not be written, and
`StateErased` the state of cancelled calls; section 6 states them without the excuse.
The writes of a stage are allowed to fail (`#enterStage` goes on without them), so several in a row let an agent work over a store that owes
nothing: after a run that could not load has settled the agent over an open batch, a lost record in `#openLoop`, in the turn and at the
resumed batch lets the batch be executed, and a model asked for the answer make a call, that a next owner
knows nothing of. Both properties name that case: `SettledMeansComplete` excuses the calls made then (`unowed`),
`AnswerDueIsOwed` the batch resumed then (`unnamed`). The instances of the runs have one failure and never get there;
with `MaxFaults = 4` (`"load"` and `"stage"`, two messages, one crash) TLC does, and the proofs hold for any
number. `IdleOwesOnlyOpenCalls` speaks of what the idle
instance knows; `OwedWorkHasARun` (section 6) of what the store knows. `ReleasedIsQuiet` excuses the agent that a transaction still open
at the shutdown publishes, and `RunInv` the closed one that it sets going: the stray. `RunInv` says what is left to be said of strays:
there is one at most, only after the shutdown, of the identity whose transaction sent to it, and no transaction works
beside it. `ErasedStaysErased` leaves the identity of a stray out, since its run
may write after the second clearing. `ReleasedIsStill` and `ErasedForGood` are the properties without these
excuses; the code violates them (section 6, number 14).

## 4. Proofs

`AgentBase_proofs`, for any messages, calls, failure kinds and bounds:

* `TypeCorrect`: `Spec => []TypeOK`.
* `OwedInductive`: `Spec => []OwedInv`, and from it `NoWorkForgotten`: `Spec => []QueuedWorkIsOwed`.
  `QueuedWorkIsOwed` alone is not inductive: whether the settlement may erase the record depends on
  what the instance believes. `OwedInv` adds that: (1) a record that owes no turn stands over a queue
  whose entries were all dropped, (2) what the instance calls abandoned was dropped, and (3) the
  cached record never owes a turn that the store does not, or a skipped write would lose work.
  Most steps are shown harmless by one lemma (they touch neither the queue, the record nor the
  cache in a way that matters); offers, activation, crash, the begin of a turn, the request, the
  decision to settle and the settlement are proved one by one.

`AgentConversation_proofs`, for the same:

* `AcceptedOnce`: `Spec => []AcceptedExactlyOnce`. Inductive is `AcceptedInv`, which says it without counting:
  no two entries and no two records of one message, no entry of a message already said, and only claimed
  identities in either. Steps that say nothing of a user's are covered by `QueueKept`.
* `ConversationWhole`: `Spec => []ConversationInv`. What is asked of the conversation is not inductive,
  since a call's answer depends on whether memory agrees with the store. `ConversationInv` has five parts: what
  the model is asked about is the durable conversation (`LiveContextMatchesStore`, at every `pc`
  where the code relies on it); the calls in the store (`StoredCallsInv`: a result after its call, one call open at
  most, entries of the batch are open calls, and what was executed is entered or answered); what memory is
  missing while a response streams or after it failed (`KnownCallsInv`); which calls are open where
  (`OpenCallsInv`); and that a batch was not executed before it is in the store (`BatchInv`). Each group of
  places has a lemma that says what reaching it takes (`AskingLands`, `ResponseLands`, `BatchLands`,
  `SettlingLands`, `StagedLands`, `NoteLands`, `GoneElsewhere`); steps of callers, publications and stages leave it
  aside (`AsideKeeps`).
* Along the same steps, `Speaks`: whatever joins the conversation is a block, a result of an open call, a new call, or
  another record while all open calls are excused. From it, `OneResult`: `Spec => []AnsweredOnce`, and `NothingBetween`:
  `Spec => []CallsAnsweredInPlace`.
* `NoSecondRun`: `Spec => []NonRetryableRunsOnce`: a batch that is not resumed has not run (`BatchInv`), and a resumed one
  refuses the call.

`AgentRecovery_proofs`, which goes on from those, is about the record an agent leaves. Its first part says, action by action, what a
step does to the fields the three properties speak of; each invariant then follows from that.

* `SettledIsComplete`: `Spec => []SettledMeansComplete`. Inductive is `CompleteInv`: where a run counts on having loaded, it has
  (`LoadedInv`); once loaded, what memory holds is what the store does, or all its calls are answered and those open in
  the store are excused (`KnowsOrExcused`); and a run comes to its settlement, or closes a loop without
  having loaded, only over calls that are answered or excused (`SettlesExcused`).
* `IdleKeepsOpenCalls`: `Spec => []IdleOwesOnlyOpenCalls`, from `IdleInv`: without a failure, a run that leaves the record
  standing was blocked by an open call, and none ends while a settlement, a reopened record or a queued message asks
  for another.
* `AnswerIsOwed`: `Spec => []AnswerDueIsOwed`. That the record stands is not enough to be inductive: a settlement would
  erase it if the run did not see what is due. `DueInv` therefore says, from the moment a response is due, that
  the store is one from which an owner finds it (`Stands`), that this instance inherited it and has
  not yet acted on it (`Inherited`), what in the turn under way will make it ask (`Asks`), and that no settlement is near
  (`NotPassed`); and `CacheInv`, that the cached record differs from the durable one in its stage at most.
* `AnswerIsFound`: `Spec => [](Due => Stands)`, which is more than a run checks: the record owes a turn, and the conversation ends
  with what is to be answered, or was cut off in a request the record names, or has an open call or a queued message.
* `AgentKeepsItsPromise`: `Spec => KeepsItsPromise`, the refinement of `DurableAgent`. Before a step it uses the invariants above
  (`Ground`), with one more, `KnownInv`: whatever memory holds, drops or is about to publish has a claimed identity, so that
  a message which is offered was not dropped before it was accepted. After the step it uses what was shown of the record (`Outcome`): a
  step that erases it is a `Settle` because `OwedInv`, `SettledMeansComplete` and `AnswerDueIsOwed` hold behind it. A lemma per
  action that matters (`...Promised`) shows which step of the promise it is; what only records, answers or changes memory is one
  `QuietStep`. `AnsweredOnce`, one result per call, is `OneResult` for every instance and the guard of `Answer` in the run.
* `PromiseSuffices`: `Promise!Spec => []Promise!Kept`, from the abstract specification and no action of the code (it is stated under
  the mapping): one that owes nothing waits for no message but dropped ones, has answered every call but forgotten ones, and owes
  no response. What is said opens the call it makes and no other (`SayingKeeps`). `NothingLeftBehind`
  puts the two together: `Spec => []Promise!Kept`, which covers `QueuedWorkIsOwed`, `SettledMeansComplete` and `AnswerDueIsOwed` at once.

`DatabaseConnection_proofs`, for any set of call chains:

* `ChainIsAQueue`: `QueueInv` is inductive: tickets are dealt one by one (`Dealt`), each job awaits
  the one with the ticket before (`Chained`), a job that has started leaves none unfinished before
  it (`Ordered`), an owner's chain carries its own operation (`Entered`), and a close holds the last
  ticket (`ClosesLast`). The step that needs them all is `Begin`: the job it awaited has ended, so
  by `Ordered` all earlier ones have, so nobody owns the database.
* `OneOwnerAtATime`, `CloseDrainsTheQueue`, `PublicationAlone` follow.
* `ConnectionIsSerial`: `Spec => Serial!Spec`. `Begin` acquires, statements and commits write, the end
  of a job releases, closing the driver closes; the rest stutters.

`DurableFunctions_proofs`, for any calls, locks, clocks, page sizes and bounds:

* `DurableTypes` and `DurableCorrect`: `TypeOK` and `DurableInv` are invariants. `NoRowForgotten` is not
  inductive: that a row found by recovery is not already running needs the locks (`LocksInv`: the keys
  held are those of the running calls, which share none), the process (`ProcessInv`: what waits or was
  taken is of this process), the rows (`RowsInv`: what the dispatcher counts on is pending or was
  cancelled) and the callbacks (`HooksInv`: a new row has just one callback). Each conjunct is shown
  for each action that touches it; the rest is covered by lemmas of what an action leaves alone.
* `RowsRemembered`, `StateGoesWithRow`, `NobodyLeapfrogs`, `RunsOnce` follow from it.
* `WaitingIsSorted` and `LoopTakesRunnable`: the calls that wait are strictly sorted in every state, whatever their clocks (`OneOrder`
  is inductive), and for any sorted queue the loop of `#takeRunnable`, written as a sequence of turns (`Look`), takes
  exactly `Runnable`. Together they are what `TakesLikeTheLoop` says of the instance; that a sorted queue exists, and that the
  fold TLC evaluates is that sequence of turns, is induction over data.
* `DurableFunctionsKeepPromise`: `Spec => Promise!Spec`, the refinement of `DurableWork`.

`EventFeed_proofs`, for any entries, capacity, connections and daemons, with the entries from anywhere
(`FeedSpec`), as in `AgentReplica` they come from its chains:

* `FeedInductive`: `FeedInv` is inductive. An open connection owes exactly the visible entries after the
  cursor the client will go on from (`ConnectionInv`): its own after a resumed hello, the hello's
  after a gap; and the journal is the end of the log (`JournalInv`), so `HasCursor` is true
  exactly of the cursors after which nothing was dropped.
* `FeedKeepsItsPromise`: `FeedSpec => FeedIsFaithful`. `ReadEvent` shows, `ReadHello` joins, loses or
  stutters, an append or a new daemon happens, the rest stutters.

`AgentSystem_proofs`, for any identities, callers, uses and length of transactions:

* `SystemTypes` and `RestoredOnce`: `TypeOK` and `RestoredOnceFirst` are invariants, whatever callers do.
* On top of those, `SystemSafe`: `Disciplined /\ Spec => []SystemInv`, and from it
  `OneAgentAtWork`: `[]OneInstance`, and `ErasedStays`: `[]ErasedStaysErased`.
  `Disciplined` says that `Uses` holds no `"mixed"`, `"crossed"` or `"reused"` identity, those for which section 6
  (numbers 11 to 13) shows the properties to fail.
  `OneInstance` is not inductive: that a transaction which takes no lock publishes over nobody needs to
  know of every agent that lives or closes where it is accounted for (`AgentInv`: in `#agents`, in a handover, or in a
  deletion that awaits its close), what a transaction has staged and that nothing else is at work there
  (`StagedInv`), which identities are committed (`IdentityInv`), where each thread is and which lock it
  has (`ThreadInv`), and which calls an identity gets (`UseInv`). `RestoredInv` says the same of
  restorations that are decided and not yet committed. Steps that change no agent's place are covered
  by one frame lemma (`MemoryFrame`); publications, deletions, a transaction's calls and its commit, and the shutdown are
  proved one by one.
* `ErasedStaysErased` needs to know who may still write an identity's store: a run (`RunInv`: only of an agent at work, or the
  stray), a
  message on its way (`AcceptInv`, `SentInv`) or a restoration, and that none of them is of an identity that is erased, but for
  the agent whose handover is not over and the stray (`ErasureInv`, `WrittenInv`). That there is one stray at most, of the
  transaction's identity and where nobody is at work, needs what a transaction knows of the agent it sent to
  (`SentInv`: the only one of its identity, and in the map until the shutdown), and that the calls of a transaction end with the
  shutdown, so that no later one sends (`RunsGo`, `RunStep`).
* `SystemKeepsStores`: `Disciplined /\ Spec => StoresAreOwned`, the refinement of `OwnedStores`. `SystemInv` does not suffice: it says who
  is at work, not what an open transaction has written so far, and its commit shows all of it at once. `WriterInv`
  (`WritersKnown`) adds that the calls of a transaction are those its identity is used for (`CallInv`), that what a call is
  about to create stays unborn and its store as prepared (`ReservedInv`), that what is handed over was erased (`LeavingInv`), and
  what a transaction may have written given what it has staged (`WroteInv`). The steps are then taken kind by kind: those that
  leave the committed database and the agents as they are stutter, a commit is split by what it staged. Only the shutdown, a
  commit and the end of a run change who is astray (`StraysStay`, `CommitStrays`).
* `OwnedSuffices`: `OwnedStores` alone has at most one agent on a store, of an identity configured or being left, and one stray at
  most, after the stop and where nobody works; `WorkIsOwned` carries that to the system.

`AgentReplica_proofs`, for any subagents, kinds of events, numbers of events, failures and restarts, and any capacity:

* `ReplicaTypes`, `ReplicaFeed` and `NeverBack`: types, the feed's invariant and its refinement under the traffic of the agents,
  and `NeverGoesBack`. What a replica is after its recent events is a function on the positions of the log (`Rebased`); that
  there is such a function, and what it keeps (`Folded`), is shown by the absence of infinite descents in the natural
  numbers (`Least`, `Induct`), since the library's induction theorems take an operator, which no prover here can supply.
* `TrailsState`: `"retrying" \notin Kinds` implies `Spec => []TrailsItsState`. A resource is labelled with the version of
  what it was read or changed from; the invariant follows that label back: the versions of a snapshot precede the turn that
  is open (`Precedes`) and their status is one the agent had then or later (`Since`); so it is of every update in the
  journal (`UpdateOK`, with no turn between the version it follows and its own), and of what is still in a chain (`PartOK`).
* `ReplicaSafe`: the same assumption implies `Spec => []ReplicaInv`, and from it `QuietIsCurrent`: `[]QuietMeansCurrent`.
  Inductive is that each event of the agent is accounted for: for a replica that needs no request, it is no newer than the version shown, in
  the journal after the cursor, or in the chain (`NewsAfter`, `RestInv`); for a snapshot, after the cursor it took first
  (`SnapshotInv`, which is why the cursor must be taken before the reads); and what lies between the two cursors is among the
  recent events (`RecentInv`), unless the reducer knows that they are incomplete. `Current` restricts all of this to the daemon that runs: a cursor
  of an earlier one is refused, and the client has everything to read (`StreamInv`, `ClientInv`). For drafts, guarded by
  cursors, `DraftAfter` says the same.
* The assumption leaves out the announcement of a provider's retry. It is needed: with it the two theorems are false (section 6,
  number 8), since an agent that settles in a retry announces a version before its status.

The only assumptions are the modules' `ASSUME`s, `Disciplined`, and `"retrying" \notin Kinds` where stated. Every invariant
and action property of the passing runs is stated by a theorem, but one: `TakesLikeTheLoop` of `MCDurableFunctions`, whose
fold is out of the prover's reach; `LoopTakesRunnable` is its content. Left to TLC is all liveness
(`EveryAnswerGiven`, `EveryRunEnds`, `EveryMessageTaken`, `EveryCallEnds`, `EveryCallSettles`, `EveryCallReturns`, `WorkIsDone`,
`BecomesCurrent`), which the prover does not treat.

## 5. Not modelled, and why

In `AgentBase`, for now: compaction and context overflow, Ethan-mode retries, injections and notices,
hooks, message settings and model switches, the "all" queue mode, calls that ask the user for
input, batches of several calls, tools steered while they run, the clock inside queue keys, and a
close called from inside the agent's own run. In `DatabaseConnection`: flows that break the callers'
rules (a step awaiting work outside itself, or two unwrapped children opening transactions in one
root operation; a step that awaits another flow's step on the same connection), which the code cannot
detect. The live-instance-per-store assumption is the process lock's.

In `AgentSystem`: parents and the index of children, metadata, `abort` and `compact` (they resolve an agent and
call it), what modules' hooks do and that they may throw, a load that fails, several loads side by side
in one transaction (it has one call at a time), transactions that touch several identities, a `delete` without erasure
in a transaction (its handover is that of an erasure, without the clearing), erasures while the
system starts (number 15 below), a `close` from inside an agent, and a lock of the store that fails.

In `DurableFunctions`: arguments, results, schemas and their validation; the order of an executor's
own writes. In the feed and the replica: an agent's pending messages, processes, questions, context,
last model and document frames; the three kinds of settlement; open loops (`openLoop` forgets its map
entry before the append, so that a rollback loses `loop.started`); retention, and the events
module's `replay` and `trim`, which nothing in production calls; a conversion that throws, which is
logged and lost (`ApiModule.ts` 3866); draining and back-off delays; a clock set back between two
daemons. The remaining components are listed with reasons in `PROJECT.json`.

## 6. Where comments and code part

1. `thrown_response`: a stream that throws after a call was persisted leaves it open in a settled
   conversation, against the rule stated above `#settleUnansweredCalls`.
2. `failed_load`: a load that fails while resuming a batch settles the agent and erases the record
   that would make the next owner resume it, against the comment in `#runTurn`.
3. `abort_at_start`: an abort during `#resetInterruptedResponse` finds no abort scope and is lost.
4. `load_race`: an offer announced between the reads of `#loadHistory` is missing from memory, so
   `#consumeQueue` does not take the oldest message.
5. `lost_stage`: a lost stage record can cost an answer, not only precision.
6. `late_commit`: an offer in an outer transaction that commits between the settlement and the end
   of the run, and then an abort, leave the store active with no run in flight.
7. `orphan_state`: a write of an executor that waits for the database while its call is cancelled
   leaves state whose call has no row, against `durableFunctions/README.md` 59-60.
8. `settled_retry`: an agent that settles during a provider's retry announces two updates with one
   version; the client drops the second and goes on showing the agent at work.
9. `stale_sibling`: all subagents share one cursor in the replica; an event of one during a repair
   makes it newer than the snapshot's, and what the snapshot says of the others is not taken.
10. `old_label`: an agent's title is read before its version (`ApiModule.ts` 6036-6072), so that the
   older title may be shown under the version that changed it, against "Read before `config`, so the
   version can only trail the state it is paired with" (`ApiResourceProjection.ts` 655).
11. `erased_returns`: a call outside a transaction that has read the configuration of an agent, when an erasure
    commits, publishes the agent all the same and gives it work, against "deletes it for good"
    (`happy-agent-base/README.md` 227). The next process forgets that work. Start-up reads in the same order.
12. `second_instance`: a plain `delete` takes the agent out of the map and then awaits its close: a transaction that uses the
    identity meanwhile builds a second instance over the same store, with no handover to stop it.
13. `store_reused`: a plain `create` looks at the handovers once, before it waits for the identity's lock: an erasure that commits
    after that leaves it to reuse the store while the old agent is closing, against "must finish
    before an ID is reused" (`AgentSystemLocal.ts` 193). And `#preparePersistence` commits before the
    identity is checked again, so that it clears the store of one that a transaction created meanwhile.
14. A call in a transaction is admitted until it returns, not until the commit (`AgentSystemLocal.ts` 397-426, `AgentBase.ts` 1335-1341),
    and the shutdown waits for admitted calls only: against "Stop every live agent, wait for operations already
    admitted by this owner, and only then release the database lock" (`AgentSystemLocal.ts` 279) and "keeps the hard store lock until every agent is
    closed" (365), a transaction that outlives the shutdown publishes its agent, or starts a run on the agent it sent to, which is closed
    (`AgentBase.ts` 1466-1471, 1504-1538; `#startRun` at 2003 does not ask), after the lock was released. If it has sent
    and then erased, the handover's close returns at once (`AgentSystemLocal.ts` 618), and that run
    writes after the second clearing, against "deletes it for good" (`happy-agent-base/README.md` 227).
15. An owing agent that is erased between its load and the end of the start-up is started all the same;
    `start` on a closed agent throws, and the start of the system fails with it.

Numbers 8, 9 and 11 are runs. Number 15 was read in the code while the guards of `Call` were chosen; the rest is reproduced with a `.cfg` of `Spec`, one property, and:

| name | module | property | constants |
| --- | --- | --- | --- |
| `thrown_response` | `MCAgentBase` | `SettledOwesNoResult` | one message, one call, `FaultKinds = {"stream"}`, one fault, no aborts, crashes or stops, one block |
| `failed_load` | `MCAgentBase` | `ToolBatchIsOwed` | one message, one retryable call, `FaultKinds = {"load"}`, one fault, one crash, no aborts, no stops, one block |
| `abort_at_start` | `MCAgentBase` | `CancelledNeverAsks` | one message, no calls, no faults, one abort, one block |
| `load_race` | `MCAgentBase` | `OldestFirst` (action property) | three messages, no calls, faults or aborts, one block |
| `lost_stage` | `MCAgentBase` | `AnswerDueSurvivesStageLoss` | one message, one call, `FaultKinds = {"stage"}`, one fault, one crash |
| `late_commit` | `MCAgentBase` | `OwedWorkHasARun` | two messages, no calls, one abort, no faults, crashes or stops, one block |
| `orphan_state` | `MCDurableFunctions` | `StateErasedAlways` | those of `durable.cfg`, with `MaxEnds = 0` |
| `old_label` | `MCAgentReplica` | `TitleTrails` | those of `settled_retry.cfg`, with `Kinds = {"titled"}` |
| `second_instance` | `AgentSystem` | `OneInstance` | those of `erased_returns.cfg`, with `Uses = {"crossed"}` |
| `store_reused` | `AgentSystem` | `OneInstance` | those of `erased_returns.cfg`, with `Uses = {"reused"}` |
| `released_runs` | `AgentSystem` | `ReleasedIsStill` | those of `erased_returns.cfg`, with one caller, `Uses = {"served"}`, `MaxOps = 2` (number 14) |
| `erased_written` | `AgentSystem` | `ErasedForGood` | the same, with `Uses = {"handed"}` (number 14) |

## 7. What could come next

In the order of what it would add:

1. **A tool batch of several calls**: ordered commits, the first failed commit closing the batch, abort,
   steering, drain, reload and crash; abstractly, each call gets one result, in call order.
2. **AgentBase** extended: injections and notices, the "all" mode, requested input, compaction.
3. **AgentSystem** extended: parents, several identities in one transaction, failing hooks, a close from inside a tool.
4. **The process lock and the daemon's lifecycle**: one owner per database across crash, reload and
   supervision.
5. **Scheduling**, which rests on durable work of the same kind.
6. **RemoteTerminalProtocol**: convergence of the grid under acknowledgements and reconnects.
