------------------------------ MODULE AgentBase ------------------------------
(***************************************************************************)
(* One durable agent of packages/happy-agent-base: the run loop of         *)
(* sources/AgentBase.ts over the agent's own store.                        *)
(*                                                                         *)
(* store is what the database holds and a crash keeps; mem is the heap of  *)
(* the one live AgentBase instance; pc is where its run loop is suspended. *)
(* A step of the run is the code between two awaits: at most one database  *)
(* transaction and the synchronous code that follows it.  Callers (offers, *)
(* aborts, drain, close) and process crashes interleave with those steps.  *)
(*                                                                         *)
(* The database FIFO is held from a commit until its afterCommit callbacks *)
(* have run (inTx.ts), so while a committed offer is still being published *)
(* (mem.held.publishing) no other database step can take place.            *)
(*                                                                         *)
(* Abstractions.  A queue key is the position it sorts at; message bodies, *)
(* settings and hooks are dropped; both queues are in the default          *)
(* one-at-a-time mode; a response has at most MaxBlocks finished blocks    *)
(* and at most one client tool call.                                       *)
(***************************************************************************)
EXTENDS Integers, FiniteSets, Sequences

CONSTANTS
    Msgs,        \* message identities (cuid2) callers may offer
    Calls,       \* tool-call identities responses may use
    Retryable,   \* the calls whose tool is durable or reloadable
    FaultKinds,  \* which operations may fail: the storage ones and the stream
    MaxFaults, MaxAborts, MaxCrashes, MaxStops,  \* bounds on the environment
    MaxBlocks    \* finished blocks one response may stream

ASSUME AgentBaseAssumption ==
    /\ Retryable \subseteq Calls
    /\ FaultKinds \subseteq {"stage", "load", "settle", "stream", "commit"}
    /\ {MaxFaults, MaxAborts, MaxCrashes, MaxStops, MaxBlocks} \subseteq Nat

VARIABLES
    store,  \* durable: survives a crash
    mem,    \* volatile: the live instance
    pc,     \* where the run loop is, "idle" when no run is in flight
    log     \* history variables and the environment's budgets

vars == <<store, mem, pc, log>>
-----------------------------------------------------------------------------
(* Data *)

Kinds == {"steering", "send"}
Stages == {"inference", "tools", "settlement"}
BatchEntry == [call : Calls, committed : BOOLEAN]
Entered(c, committed) == [call |-> c, committed |-> committed]
Entry == [kind : Kinds, key : Nat \ {0}, msg : Msgs]

(* The pending record under the key "owed"; open is the presence of an      *)
(* inferenceId, that is of a provider request not known to have ended.      *)
OwedRecord == [stage : Stages \cup {"none"}, open : BOOLEAN]
NotOwed == [stage |-> "none", open |-> FALSE]

Record == [type : {"user"}, ref : Msgs] \cup [type : {"call", "result"}, ref : Calls]
            \cup [type : {"text", "system"}, ref : {0}]
User(m) == [type |-> "user", ref |-> m]
Call(c) == [type |-> "call", ref |-> c]
Result(c) == [type |-> "result", ref |-> c]
Text == [type |-> "text", ref |-> 0]
System == [type |-> "system", ref |-> 0]

Occurs(r, s) == \E i \in DOMAIN s : s[i] = r
Unanswered(s) == {c \in Calls : Occurs(Call(c), s) /\ ~Occurs(Result(c), s)}
LastType(s) == IF s = <<>> THEN "none" ELSE s[Len(s)].type
EndsWithResponse(s) == LastType(s) \in {"text", "call"}

Oldest(entries) == {e \in entries : \A f \in entries : e.key <= f.key}
OfKind(k, entries) == {e \in entries : e.kind = k}

Positions == 1 .. Cardinality(Msgs)

(* Mutant: keys counted from zero. *)
QueueKeyFromZero(k) == {Cardinality(OfKind(k, store.queue))}

(* The key that sorts after every entry the queue already holds.            *)
QueueKey(k) ==
    LET taken == {e.key : e \in OfKind(k, store.queue)}
    IN  {n \in Positions : (n = 1 \/ n - 1 \in taken) /\ \A t \in taken : t < n}

(* A committed offer whose afterCommit callback has yet to run, and how a   *)
(* response can end.                                                        *)
Publication == [entry : Entry, via : {"own", "outer", "marked"}]
Ending == {"normal", "tool_call", "error", "cancelled", "eof"}
After == {"none", "settle", "turn", "response", "catch"}

(* The heap of an instance that has only read its pending record.           *)
Fresh(owed) ==
    [held |-> [waiting |-> {}, messages |-> <<>>, loaded |-> FALSE, snapshot |-> {},
               publishing |-> {}, dirty |-> FALSE, abandoned |-> {}],
     run  |-> [turnRequested |-> FALSE, abortDropped |-> FALSE, settleOnly |-> FALSE,
               reopened |-> FALSE, aborted |-> FALSE, draining |-> FALSE,
               closed |-> FALSE, toolsAbandoned |-> FALSE],
     owed |-> [inherited |-> owed, pending |-> owed, requestOpen |-> owed.open,
               recoveryChecked |-> FALSE, resumeRequested |-> FALSE],
     turn |-> [needs |-> FALSE, blocked |-> FALSE, state |-> "none", partial |-> <<>>,
               batch |-> {}, resumed |-> FALSE, stopped |-> FALSE,
               then |-> "none"]]

Init ==
    /\ store = [queue |-> {}, ids |-> {}, records |-> <<>>, owed |-> NotOwed,
                tools |-> {}]
    /\ mem = Fresh(NotOwed)
    /\ pc = "idle"
    /\ log = [dropped |-> {}, answerDue |-> FALSE, ran |-> [c \in Calls |-> 0],
              excused |-> {}, unowed |-> {}, cancelled |-> FALSE, unnamed |-> FALSE,
              atAbort |-> {},
              faults |-> 0, aborts |-> 0, crashes |-> 0, stops |-> 0]
-----------------------------------------------------------------------------
(* Building blocks *)

DbFree == mem.held.publishing = {}

Fault(kind) ==
    /\ kind \in FaultKinds
    /\ log.faults < MaxFaults

Failing == [log EXCEPT !.faults = @ + 1]

(* The pending record at a stage, carrying the identity of the request this *)
(* instance has open (#pendingState).                                       *)
Owing(stage) == [stage |-> stage, open |-> mem.owed.requestOpen]

(* #recordPending and #claimPendingWork skip the write when the record they *)
(* would write is the one this instance last wrote; pending is that cache.  *)
Recorded(stage) == IF mem.owed.pending = Owing(stage) THEN store.owed ELSE Owing(stage)

(* The store owes a turn: not merely the settling of a finished run.        *)
LateWork == store.owed.stage \in {"inference", "tools"}

(* Mutant: the run keeps the drop that an earlier abort recorded. *)
RunKeepingDrop(m, settleOnly) == [m EXCEPT !.run.settleOnly = settleOnly]

(* The flags of the previous run are claimed synchronously (#runTurns).     *)
NewRun(m, settleOnly) ==
    [m EXCEPT !.run.abortDropped = FALSE, !.run.settleOnly = settleOnly]

(* #startRun: a run in flight picks the request up on its next pass.        *)
Starts == pc = "idle" /\ ~mem.run.draining
Started == IF Starts THEN "begin" ELSE pc
Opening(m) == IF Starts THEN NewRun(m, FALSE) ELSE m

(* #clearTurnRequestIfNoPendingInput *)
StillRequested(waiting) == mem.run.turnRequested /\ (waiting # {} \/ mem.held.dirty)

(* #abandonQueuedInput, as the history variables see it.                    *)
Abandoning(l) == [l EXCEPT !.dropped = @ \cup mem.held.waiting, !.answerDue = FALSE]
-----------------------------------------------------------------------------
(* Callers: offers, aborts, drain, close; and the process                   *)

(* Mutant: an identity is remembered only while its message is queued. *)
ClaimedWhileQueued(m) == \E e \in store.queue : e.msg = m

(* The identity claim, message.<id>, outlives the queue entry.              *)
Claimed(m) == m \in store.ids

(* #enqueueIndependently and #enqueueInTransaction, up to the commit: the   *)
(* identity claim, the queue key and the pending record are one transaction,*)
(* and an identity already claimed is answered "existing" with no effect.   *)
(* An outer transaction changes no heap state before its commit publishes.  *)
Offer(m, k, via) ==
    /\ ~mem.run.closed
    /\ DbFree
    /\ ~Claimed(m)
    /\ \E key \in QueueKey(k) :
        LET entry == [kind |-> k, key |-> key, msg |-> m]
        IN  /\ store' = [store EXCEPT
                   !.ids = @ \cup {m},
                   !.queue = @ \cup {entry},
                   !.owed = IF via = "own" THEN Recorded("inference")
                            ELSE [@ EXCEPT !.stage = "inference"]]
            /\ mem' = [mem EXCEPT
                   !.held.publishing = {[entry |-> entry, via |-> via]},
                   !.owed.pending = IF via = "own" THEN Owing("inference") ELSE @]
    /\ UNCHANGED <<pc, log>>

(* The afterCommit callback of an independent offer.                        *)
Publish ==
    \E p \in mem.held.publishing :
        /\ p.via = "own"
        /\ mem' = Opening([mem EXCEPT !.held.waiting = @ \cup {p.entry},
                                      !.run.turnRequested = TRUE,
                                      !.held.publishing = {}])
        /\ pc' = Started
        /\ log' = [log EXCEPT !.cancelled = FALSE]
        /\ UNCHANGED store

(* #activateCommittedMessages raises the merge marker synchronously ...     *)
MarkCommitted ==
    \E p \in mem.held.publishing :
        /\ p.via = "outer"
        /\ mem' = [mem EXCEPT !.held.dirty = TRUE,
                              !.held.publishing = {[p EXCEPT !.via = "marked"]}]
        /\ UNCHANGED <<store, pc, log>>

(* ... reads the pending record back, adopts it when no run is in flight,   *)
(* and only then requests the turn.                                         *)
ActivateCommitted ==
    \E p \in mem.held.publishing :
        /\ p.via = "marked"
        /\ mem' = Opening([mem EXCEPT
               !.owed.pending = IF pc = "idle" THEN store.owed ELSE @,
               !.owed.requestOpen = IF pc = "idle" THEN store.owed.open ELSE @,
               !.run.turnRequested = TRUE,
               !.held.publishing = {}])
        /\ pc' = Started
        /\ log' = [log EXCEPT !.cancelled = FALSE]
        /\ UNCHANGED store

(* #signalAbort: a no-op when no run is in flight.  It aborts whatever scope *)
(* is current; the next one opens unaborted.                                *)
Abort ==
    /\ pc # "idle"
    /\ log.aborts < MaxAborts
    /\ mem' = [mem EXCEPT
          !.run.turnRequested = FALSE, !.run.abortDropped = TRUE, !.run.aborted = TRUE,
          !.held.abandoned = @ \cup mem.held.waiting]
    /\ log' = [Abandoning(log) EXCEPT !.aborts = @ + 1, !.cancelled = TRUE,
                                      !.atAbort = {e.msg : e \in store.queue}]
    /\ UNCHANGED <<store, pc>>

Drain ==
    /\ ~mem.run.draining
    /\ log.stops < MaxStops
    /\ mem' = [mem EXCEPT !.run.draining = TRUE]
    /\ log' = [log EXCEPT !.stops = @ + 1]
    /\ UNCHANGED <<store, pc>>

(* A close from outside the agent's own loop, which also stops waiting for  *)
(* its tools (#closeController), unless a drain lets them finish.           *)
Close ==
    /\ ~mem.run.closed
    /\ log.stops < MaxStops
    /\ mem' = [mem EXCEPT !.run.closed = TRUE, !.run.toolsAbandoned = ~mem.run.draining]
    /\ log' = [log EXCEPT !.stops = @ + 1]
    /\ UNCHANGED <<store, pc>>

(* The process dies and the next owner loads the agent: AgentBase.load reads*)
(* the pending record and nothing else (#loadPendingState).                 *)
Crash ==
    /\ log.crashes < MaxCrashes
    /\ mem' = Fresh(store.owed)
    /\ pc' = "idle"
    /\ log' = [log EXCEPT !.crashes = @ + 1, !.cancelled = FALSE]
    /\ UNCHANGED store

(* start(): the owner coming up starts exactly the agents that owe work.    *)
Start ==
    /\ mem.owed.inherited.stage # "none"
    /\ ~mem.owed.resumeRequested
    /\ ~mem.run.closed
    /\ mem' = Opening([mem EXCEPT !.owed.resumeRequested = TRUE])
    /\ pc' = Started
    /\ UNCHANGED <<store, log>>
-----------------------------------------------------------------------------
(* The run: opening a loop and a turn                                       *)

(* #enterStage without a hook: a stage record that cannot be written costs  *)
(* recovery precision, never the work, so its failure is swallowed.         *)
EnterStage(from, stage, to) ==
    /\ pc = from
    /\ DbFree
    /\ pc' = to
    /\ \/ /\ store' = [store EXCEPT !.owed = Recorded(stage)]
          /\ mem' = [mem EXCEPT !.owed.pending = Owing(stage)]
          /\ UNCHANGED log
       \/ /\ mem.owed.pending # Owing(stage)
          /\ Fault("stage")
          /\ log' = Failing
          /\ UNCHANGED <<store, mem>>

(* #openAbortScope: each loop, and each turn after its first, cancels on a   *)
(* scope of its own; an abort that came earlier is not carried into it.     *)
OpenScope(m) == [m EXCEPT !.run.aborted = FALSE]

(* #runTurns up to its first decision: a recorded settlement is carried out *)
(* again, and a run started only to settle after an abort does only that.   *)
(* Any other run opens its first loop.                                      *)
BeginRun ==
    /\ pc = "begin"
    /\ IF mem.owed.pending.stage = "settlement" \/ mem.run.settleOnly
       THEN IF mem.held.loaded
            THEN pc' = "settleLoaded" /\ UNCHANGED mem
            ELSE pc' = "load" /\ mem' = [mem EXCEPT !.turn.then = "settle"]
       ELSE IF mem.run.draining
       THEN pc' = "finally" /\ UNCHANGED mem
       ELSE pc' = "loopStage" /\ mem' = OpenScope(mem)
    /\ UNCHANGED <<store, log>>

(* Only a complete conversation is settled; open calls go to the loop that  *)
(* answers them, but never in a run that an abort started.                  *)
SettleLoaded ==
    /\ pc = "settleLoaded"
    /\ \/ /\ Unanswered(mem.held.messages) = {}
          /\ pc' = IF mem.run.settleOnly THEN "enterSettlement" ELSE "settle"
          /\ UNCHANGED mem
       \/ /\ Unanswered(mem.held.messages) # {}
          /\ mem.run.settleOnly \/ mem.run.draining
          /\ pc' = "finally"
          /\ UNCHANGED mem
       \/ /\ Unanswered(mem.held.messages) # {}
          /\ ~mem.run.settleOnly /\ ~mem.run.draining
          /\ pc' = "loopStage"
          /\ mem' = OpenScope(mem)
    /\ UNCHANGED <<store, log>>

LoopStage == EnterStage("loopStage", "inference", "openTurn")

(* #runTurn up to the load: the request this turn answers is claimed, and   *)
(* the input it will answer is no longer abandoned, unless the turn's scope *)
(* is already aborted.  The history variable forgets the drop only once the *)
(* store says that the input is owed again.                                 *)
BeginTurn(m) ==
    /\ mem' = [m EXCEPT
          !.run.turnRequested = @ /\ m.run.aborted,
          !.held.abandoned = IF m.run.aborted THEN @ ELSE {},
          !.turn.blocked = FALSE, !.held.loaded = FALSE, !.turn.then = "turn"]
    /\ log' = IF m.run.aborted \/ ~LateWork THEN log ELSE [log EXCEPT !.dropped = {}]
    /\ pc' = "load"

OpenTurn ==
    /\ pc = "openTurn"
    /\ \/ /\ mem.run.draining
          /\ pc' = "finally"
          /\ UNCHANGED <<mem, log>>
       \/ ~mem.run.draining /\ BeginTurn(mem)
    /\ UNCHANGED store

(* #loadHistory reads the records, the queues and the tool entries one      *)
(* statement at a time; a message may be published after its queue is read. *)
ReadHistory ==
    /\ pc = "load"
    /\ DbFree
    /\ mem' = [mem EXCEPT !.held.snapshot = store.queue]
    /\ pc' = "assign"
    /\ UNCHANGED <<store, log>>

(* ... and then replaces what memory held.  Entries of a dispatched batch   *)
(* are resumed; calls no entry exists for are a batch not yet dispatched.   *)
AssignHistory ==
    /\ pc = "assign"
    /\ DbFree
    /\ LET entered == {t.call : t \in store.tools}
       IN  mem' = [mem EXCEPT
               !.held.messages = store.records, !.held.waiting = mem.held.snapshot,
               !.held.snapshot = {}, !.held.loaded = TRUE, !.held.dirty = FALSE,
               !.turn.batch = IF entered # {} THEN entered ELSE Unanswered(store.records),
               !.turn.resumed = entered # {}]
    /\ pc' = IF mem.turn.then = "settle" THEN "settleLoaded" ELSE "turnStage"
    /\ UNCHANGED <<store, log>>

(* A failed load ends the turn with the queue abandoned and nothing written;*)
(* in a run that only settles, the failure ends the run.                    *)
LoadFails ==
    /\ pc \in {"load", "assign"}
    /\ Fault("load")
    /\ IF mem.turn.then = "settle"
       THEN /\ pc' = "finally"
            /\ mem' = [mem EXCEPT !.held.snapshot = {}]
            /\ log' = Failing
       ELSE /\ pc' = "closeLoop"
            /\ mem' = [mem EXCEPT
                  !.held.snapshot = {}, !.held.abandoned = @ \cup mem.held.waiting]
            /\ log' = [Abandoning(Failing) EXCEPT
                          !.excused = @ \cup Unanswered(store.records)]
    /\ UNCHANGED store

TurnStage == EnterStage("turnStage", "inference", "resume")
-----------------------------------------------------------------------------
(* The run: one inference attempt                                           *)

(* A record that says a provider request was under way.                     *)
Requesting == [stage |-> "inference", open |-> TRUE]

InheritedRequestAnswered ==
    EndsWithResponse(mem.held.messages) /\ mem.owed.inherited.stage = "inference"

(* #runInferenceAttempt before its first wait.  A completed block proves    *)
(* that the inherited request produced content, so its identity is retired. *)
BeginInference ==
    /\ pc = "resume"
    /\ IF mem.run.draining
       THEN pc' = "finally" /\ UNCHANGED mem
       ELSE /\ mem' = [mem EXCEPT
                  !.owed.requestOpen = @ /\ ~InheritedRequestAnswered,
                  !.turn.state = "none", !.turn.stopped = FALSE,
                  !.turn.needs = mem.turn.batch # {}]
            /\ \/ mem.turn.batch # {} /\ pc' = "dispatch"
               \/ mem.turn.batch # {} /\ mem.run.aborted /\ pc' = "turnDone"
               \/ mem.turn.batch = {} /\ pc' = "recover"
    /\ UNCHANGED <<store, log>>

(* Mutants: only a message, or only a cut-off block, is owed a response. *)
OwesResponseToInput == LastType(mem.held.messages) \in {"user", "result", "system"}
OwesResponseToBlock ==
    EndsWithResponse(mem.held.messages) /\ mem.owed.inherited = Requesting

(* #resumesInterruptedRun, checked once an instance: a trailing record that *)
(* nobody answered is owed a response, a block only if its request was open.*)
OwesResponse ==
    \/ LastType(mem.held.messages) \in {"user", "result", "system"}
    \/ /\ EndsWithResponse(mem.held.messages)
       /\ mem.owed.inherited = Requesting

Interrupted ==
    /\ ~mem.owed.recoveryChecked
    /\ mem.owed.inherited.stage # "none" \/ mem.owed.resumeRequested

Recover ==
    /\ pc = "recover"
    /\ mem' = [mem EXCEPT
          !.owed.recoveryChecked = TRUE,
          !.turn.needs = @ \/ (Interrupted /\ OwesResponse)]
    /\ pc' = "cycle"
    /\ UNCHANGED <<store, log>>

(* The top of the cycle: a drain stops the run, an abort ends the turn.     *)
StopCycle ==
    /\ \/ pc \in {"cycle", "steering"} /\ mem.run.draining /\ pc' = "finally"
       \/ pc = "cycle" /\ ~mem.run.draining /\ mem.run.aborted /\ pc' = "note"
    /\ UNCHANGED <<store, mem, log>>

(* #refreshCommittedQueues merges what outer transactions published; nothing*)
(* this instance admitted is still being written (#finishAdmittedQueueWrites).*)
RefreshCommittedQueues ==
    /\ pc = "cycle"
    /\ ~mem.run.draining /\ ~mem.run.aborted
    /\ DbFree
    /\ mem' = IF mem.held.dirty
              THEN [mem EXCEPT !.held.dirty = FALSE, !.held.waiting = @ \cup store.queue]
              ELSE mem
    /\ pc' = "steering"
    /\ UNCHANGED <<store, log>>

(* The durable queue, not memory, decides what is left to consume.          *)
Consumable(kind) == OfKind(kind, mem.held.waiting \cap store.queue)

(* #consumeQueue: the queue entry, the user record and the inference it     *)
(* makes due move in one transaction; memory follows the commit.            *)
ConsumeQueue(kind) ==
    /\ pc = kind
    /\ DbFree
    /\ \E e \in Oldest(Consumable(kind)) :
        /\ store' = [store EXCEPT
               !.queue = @ \ {e},
               !.records = Append(@, User(e.msg)),
               !.owed = Recorded("inference")]
        /\ mem' = [mem EXCEPT
               !.held.waiting = @ \ {e},
               !.held.messages = Append(@, User(e.msg)),
               !.owed.pending = Owing("inference"),
               !.run.turnRequested = StillRequested(mem.held.waiting \ {e})]
    /\ log' = [log EXCEPT !.answerDue = ~mem.run.aborted]
    /\ pc' = "request"

(* Steering is looked at first, and sends only when no inference is owed    *)
(* anyway; with nothing taken and nothing owed the turn ends.               *)
NothingQueued ==
    /\ pc \in Kinds
    /\ DbFree
    /\ Consumable(pc) = {}
    /\ pc' = IF mem.turn.needs THEN "request"
             ELSE IF pc = "steering" THEN "send" ELSE "note"
    /\ UNCHANGED <<store, mem, log>>

(* #requestInference up to the provider call.  A conversation that ends     *)
(* with the model's own blocks is continued from a durable system notice.   *)
(* An abort is raced against the session's release, and either may win.     *)
LeaveRequest ==
    /\ pc = "request"
    /\ \/ mem.run.draining /\ pc' = "finally"
       \/ ~mem.run.draining /\ mem.run.aborted /\ pc' = "cycle"
    /\ UNCHANGED <<store, mem, log>>

RequestInference ==
    /\ pc = "request"
    /\ ~mem.run.draining
    /\ DbFree
    /\ LET notice == IF EndsWithResponse(mem.held.messages) THEN <<System>> ELSE <<>>
       IN  \/ /\ store' = [store EXCEPT
                    !.owed = IF mem.owed.pending = Requesting THEN @ ELSE Requesting,
                    !.records = @ \o notice]
              /\ mem' = [mem EXCEPT
                    !.owed.requestOpen = TRUE, !.owed.pending = Requesting,
                    !.held.messages = @ \o notice, !.turn.partial = <<>>]
              /\ UNCHANGED log
           \/ /\ notice = <<>>
              /\ Fault("stage")
              /\ mem' = [mem EXCEPT !.owed.requestOpen = TRUE, !.turn.partial = <<>>]
              /\ log' = [Failing EXCEPT !.unnamed = TRUE]
              /\ UNCHANGED store
    /\ pc' = "asked"

OpenStream ==
    /\ pc = "asked"
    /\ pc' = IF mem.run.draining THEN "cycle" ELSE "stream"
    /\ UNCHANGED <<store, mem, log>>
-----------------------------------------------------------------------------
(* The run: the response and its blocks (#collect, #requestInference)       *)

(* A finished block is durable at once, but joins the conversation in       *)
(* memory only after the response has ended.                                *)
StreamBlock ==
    /\ pc = "stream"
    /\ DbFree
    /\ Len(mem.turn.partial) < MaxBlocks
    /\ \E r \in {Text} \cup {Call(c) : c \in Calls} :
        /\ r.type = "call" =>
              /\ ~Occurs(r, store.records)
              /\ \A c \in Calls : ~Occurs(Call(c), mem.turn.partial)
        /\ store' = [store EXCEPT !.records = Append(@, r)]
        /\ mem' = [mem EXCEPT !.turn.partial = Append(@, r)]
        /\ log' = [log EXCEPT !.unowed =
               IF r.type = "call" /\ ~LateWork THEN @ \cup {r.ref} ELSE @]
    /\ UNCHANGED pc

(* The stream ends: with a done event, cancelled by the abort it is raced   *)
(* against, or without a done event ("eof"), which alone asks for another   *)
(* turn when input is waiting.                                              *)
StreamEnds(state) ==
    /\ pc = "stream"
    /\ state = "cancelled" => mem.run.aborted
    /\ mem' = [mem EXCEPT
          !.turn.state = state,
          !.owed.requestOpen = FALSE,
          !.run.turnRequested = /\ mem.held.waiting # {} \/ mem.held.dirty
                                /\ @ \/ state = "eof"]
    /\ log' = [log EXCEPT !.answerDue = FALSE, !.unnamed = FALSE]
    /\ pc' = "responded"
    /\ UNCHANGED store

(* The provider's stream, or the store under it, throws: the finished       *)
(* blocks stay in the store and never reach memory.                         *)
StreamThrows ==
    /\ pc = "stream"
    /\ Fault("stream")
    /\ log' = [Failing EXCEPT !.excused = @ \cup Unanswered(store.records),
                              !.answerDue = FALSE]
    /\ mem' = [mem EXCEPT !.turn.then = "catch"]
    /\ pc' = "settleCalls"
    /\ UNCHANGED store

(* A transaction the turn cannot do without rolls back: merging or consuming*)
(* the queue, a continuation notice, the tool batch, or a result.           *)
TurnThrows ==
    /\ \/ pc \in Kinds \cup {"commit", "answered"}
       \/ pc = "cycle" /\ mem.held.dirty /\ ~mem.run.draining /\ ~mem.run.aborted
       \/ pc = "dispatch" /\ ~mem.turn.resumed
       \/ pc = "request" /\ EndsWithResponse(mem.held.messages) /\ ~mem.run.draining
    /\ DbFree
    /\ Fault("commit")
    /\ log' = Failing
    /\ mem' = [mem EXCEPT !.turn.then = "catch", !.owed.requestOpen = @ \/ pc = "request"]
    /\ pc' = "settleCalls"
    /\ UNCHANGED store

(* Mutant: the finished blocks never join the conversation in memory. *)
SaidBefore == mem.held.messages

(* The conversation with the blocks of the response that just ended.        *)
Said == mem.held.messages \o mem.turn.partial

(* The stage that retires the request's identity, and the block push.       *)
EndInference ==
    LET calls == {c \in Calls : Occurs(Call(c), mem.turn.partial)}
        ended == [mem EXCEPT
            !.held.messages = Said, !.turn.partial = <<>>,
            !.turn.needs = FALSE,
            !.turn.batch = calls, !.turn.resumed = FALSE, !.turn.then = "response"]
    IN  /\ pc = "responded"
        /\ DbFree
        /\ \/ /\ store' = [store EXCEPT !.owed = Recorded("inference")]
              /\ mem' = [ended EXCEPT !.owed.pending = Owing("inference")]
              /\ UNCHANGED log
           \/ /\ Fault("stage")
              /\ mem' = ended
              /\ log' = Failing
              /\ UNCHANGED store
        /\ pc' = IF mem.turn.state # "tool_call" THEN "settleCalls"
                 ELSE IF mem.run.draining THEN "finally"
                 ELSE IF calls = {} THEN "cycle" ELSE "dispatch"

(* Where the cycle goes once the response owes no result.                   *)
AfterResponse == IF mem.turn.state \in {"normal", "error"} THEN "cycle" ELSE "note"
-----------------------------------------------------------------------------
(* The run: calls nothing will dispatch (#settleUnansweredCalls)            *)

(* The durable batch once a call is answered.                               *)
WithoutEntry(c) == {t \in store.tools : t.call # c}

(* Owed calls are staged as committed batch entries, unless the durable     *)
(* batch already holds one: then the resume owns it and the turn is blocked.*)
SettleCalls ==
    /\ pc = "settleCalls"
    /\ LET owed == Unanswered(mem.held.messages)
           refused == IF mem.turn.then = "catch" THEN "fail" ELSE "note"
       IN  \/ /\ owed = {}
              /\ pc' = IF mem.turn.then = "catch" THEN "note" ELSE AfterResponse
              /\ UNCHANGED <<store, mem, log>>
           \/ /\ owed # {}
              /\ DbFree
              /\ owed \cap {t.call : t \in store.tools} # {}
              /\ mem' = [mem EXCEPT !.turn.blocked = TRUE]
              /\ pc' = refused
              /\ UNCHANGED <<store, log>>
           \/ /\ owed # {}
              /\ DbFree
              /\ owed \cap {t.call : t \in store.tools} = {}
              /\ store' = [store EXCEPT
                    !.tools = @ \cup {Entered(c, TRUE) : c \in owed},
                    !.owed = Recorded("tools")]
              /\ mem' = [mem EXCEPT !.owed.pending = Owing("tools"), !.turn.batch = owed]
              /\ pc' = "appendResults"
              /\ UNCHANGED log
           \/ /\ owed # {}
              /\ DbFree
              /\ Fault("settle")
              /\ log' = Failing
              /\ pc' = refused
              /\ UNCHANGED <<store, mem>>

(* The second transaction moves the staged results into the conversation; if*)
(* it fails the entries keep them for the resume, and the turn is blocked.  *)
AppendResults ==
    /\ pc = "appendResults"
    /\ DbFree
    /\ \/ \E c \in mem.turn.batch :
           /\ store' = [store EXCEPT
                 !.records = Append(@, Result(c)),
                 !.tools = WithoutEntry(c),
                 !.owed = Recorded("inference")]
           /\ mem' = [mem EXCEPT
                 !.held.messages = Append(@, Result(c)),
                 !.owed.pending = Owing("inference")]
           /\ pc' = IF mem.turn.then = "catch" THEN "note" ELSE AfterResponse
           /\ UNCHANGED log
       \/ /\ Fault("settle")
          /\ log' = Failing
          /\ mem' = [mem EXCEPT !.turn.blocked = TRUE]
          /\ pc' = IF mem.turn.then = "catch" THEN "fail" ELSE "note"
          /\ UNCHANGED store
-----------------------------------------------------------------------------
(* The run: the tool batch (#dispatchToolBatch), here of one call           *)

(* A fresh batch is committed to the store, with the stage that describes   *)
(* it, before any call executes; a resumed one only re-enters its stage.    *)
Dispatch ==
    /\ pc = "dispatch"
    /\ DbFree
    /\ \/ /\ store' = [store EXCEPT
                !.tools = IF mem.turn.resumed THEN @
                          ELSE @ \cup {Entered(c, FALSE) : c \in mem.turn.batch},
                !.owed = Recorded("tools")]
          /\ mem' = [mem EXCEPT !.owed.pending = Owing("tools")]
          /\ UNCHANGED log
       \/ /\ mem.turn.resumed
          /\ Fault("stage")
          /\ log' = [Failing EXCEPT !.unnamed = @ \/ ~LateWork]
          /\ UNCHANGED <<store, mem>>
    /\ pc' = "execute"

(* Mutant: a resumed batch executes every call again. *)
RefusesNothing(c) == FALSE

(* #isRetryable: a batch read back from the store may have run already.     *)
Refuses(c) == mem.turn.resumed /\ c \notin Retryable

(* Mutant: a resumed batch forgets that a result was committed early. *)
ReplaysNothing(c) == FALSE

(* A result the tool committed before it returned is used as it stands.     *)
Replays(c) == Entered(c, TRUE) \in store.tools

(* A committed result is replayed and a call that may not be retried is     *)
(* refused, both without executing; a cancelled call never starts.          *)
Execute ==
    /\ pc = "execute"
    /\ \E c \in mem.turn.batch :
        LET replayed == Replays(c)
            refused == Refuses(c)
        IN  IF replayed \/ refused \/ mem.run.aborted \/ mem.run.toolsAbandoned
            THEN /\ pc' = "commit"
                 /\ mem' = [mem EXCEPT !.turn.stopped =
                        ~replayed /\ ~refused /\ ~mem.run.aborted]
                 /\ UNCHANGED log
            ELSE /\ pc' = "running"
                 /\ log' = [log EXCEPT !.ran[c] = @ + 1]
                 /\ UNCHANGED mem
    /\ UNCHANGED store

(* A tool may commit its result itself, durably, before it returns.         *)
ToolCommitsEarly ==
    /\ pc = "running"
    /\ DbFree
    /\ \E t \in store.tools :
        /\ t.call \in mem.turn.batch
        /\ ~t.committed
        /\ store' = [store EXCEPT !.tools = (@ \ {t}) \cup {[t EXCEPT !.committed = TRUE]}]
    /\ UNCHANGED <<mem, pc, log>>

(* The batch stops waiting: the tool returned, the turn was aborted, or a   *)
(* close abandoned the call.                                                *)
ToolSettles ==
    /\ pc = "running"
    /\ pc' = "commit"
    /\ \E abandoned \in {FALSE, mem.run.toolsAbandoned /\ ~mem.run.aborted} :
        mem' = [mem EXCEPT !.turn.stopped = abandoned]
    /\ UNCHANGED <<store, log>>

(* A turn whose batch a stop cut short ends; only one that had reached its   *)
(* cycle can have a failure to note.                                        *)
BatchCutShort == IF mem.owed.recoveryChecked THEN "note" ELSE "turnDone"

(* A reloadable tool interrupted by a stop leaves its call for the resume.  *)
ToolReloads ==
    /\ pc = "running"
    /\ mem.run.draining \/ mem.run.closed
    /\ mem.turn.batch \subseteq Retryable
    /\ pc' = IF mem.run.draining THEN "finally" ELSE BatchCutShort
    /\ UNCHANGED <<store, mem, log>>

(* The result record, the entry's removal, and memory after the commit.     *)
CommitResult ==
    /\ pc = "commit"
    /\ DbFree
    /\ \E c \in mem.turn.batch :
        /\ store' = [store EXCEPT
              !.records = Append(@, Result(c)),
              !.tools = WithoutEntry(c)]
        /\ mem' = [mem EXCEPT !.held.messages = Append(@, Result(c))]
    /\ log' = [log EXCEPT !.answerDue = ~mem.run.aborted /\ ~mem.turn.stopped]
    /\ pc' = "answered"

(* A fully answered batch records the inference its results are owed, and a *)
(* batch that a close cut short ends its turn.                              *)
EndBatch ==
    /\ pc = "answered"
    /\ DbFree
    /\ store' = [store EXCEPT !.owed = Recorded("inference")]
    /\ mem' = [mem EXCEPT !.owed.pending = Owing("inference"),
                          !.turn.needs = TRUE, !.turn.batch = {}]
    /\ pc' = IF mem.run.draining THEN "finally"
             ELSE IF mem.turn.stopped THEN BatchCutShort
             ELSE IF mem.owed.recoveryChecked THEN "cycle" ELSE "recover"
    /\ UNCHANGED log
-----------------------------------------------------------------------------
(* The run: ending a turn, a loop and the run                               *)

(* Mutant: a failed turn says so even after a call nobody could settle. *)
NotesEveryFailure == mem.turn.then = "catch" \/ mem.turn.state = "error"

(* #appendFailure, once the open calls are settled: a turn that failed says *)
(* so in the conversation.  Its own failure is swallowed.                   *)
NotesFailure ==
    \/ mem.turn.then = "catch"
    \/ mem.turn.state = "error" /\ Unanswered(mem.held.messages) = {}

AppendFailure ==
    /\ pc = "note"
    /\ NotesFailure
    /\ DbFree
    /\ \/ /\ store' = [store EXCEPT !.records = Append(@, System)]
          /\ mem' = [mem EXCEPT !.held.messages = Append(@, System)]
          /\ UNCHANGED log
       \/ /\ Fault("commit")
          /\ log' = Failing
          /\ UNCHANGED <<store, mem>>
    /\ pc' = IF mem.turn.then = "catch" THEN "fail" ELSE "turnDone"

NothingToNote ==
    /\ pc = "note"
    /\ ~NotesFailure
    /\ pc' = "turnDone"
    /\ UNCHANGED <<store, mem, log>>

(* The end of the catch: the failure answers the input the turn was to take.*)
FailTurn ==
    /\ pc = "fail"
    /\ mem' = [mem EXCEPT !.run.turnRequested = StillRequested(mem.held.waiting),
                          !.held.abandoned = @ \cup mem.held.waiting]
    /\ log' = Abandoning(log)
    /\ pc' = "turnDone"
    /\ UNCHANGED store

(* A drained or blocked run leaves its pending record as it stands.         *)
LeaveRun ==
    /\ pc = "turnDone"
    /\ mem.run.draining \/ mem.turn.blocked
    /\ pc' = "finally"
    /\ UNCHANGED <<store, mem, log>>

CloseTurn ==
    ~mem.run.draining /\ ~mem.turn.blocked /\ EnterStage("turnDone", "inference", "turnClosed")

(* Another turn answers a request raised meanwhile, under a fresh scope.    *)
NextTurn ==
    /\ pc = "turnClosed"
    /\ \/ mem.run.draining /\ pc' = "finally" /\ UNCHANGED <<mem, log>>
       \/ /\ ~mem.run.draining
          /\ ~mem.run.turnRequested \/ mem.run.closed
          /\ pc' = "closeLoop"
          /\ UNCHANGED <<mem, log>>
       \/ /\ ~mem.run.draining /\ ~mem.run.closed /\ mem.run.turnRequested
          /\ BeginTurn(OpenScope(mem))
    /\ UNCHANGED store

CloseLoop == EnterStage("closeLoop", "inference", "loopClosed")

(* Mutant: the end of a run looks no further than the turn's own outcome. *)
IgnoresOpenToolCalls == FALSE

HasOpenToolCalls == mem.held.loaded /\ Unanswered(mem.held.messages) # {}

(* Another loop, or the end of the run; open calls keep the record.         *)
NextLoop ==
    /\ pc = "loopClosed"
    /\ \/ mem.run.draining /\ pc' = "finally" /\ UNCHANGED mem
       \/ /\ ~mem.run.draining /\ ~mem.run.closed /\ mem.run.turnRequested
          /\ pc' = "loopStage"
          /\ mem' = OpenScope(mem)
       \/ /\ ~mem.run.draining
          /\ ~mem.run.turnRequested \/ mem.run.closed
          /\ pc' = IF HasOpenToolCalls THEN "finally" ELSE "enterSettlement"
          /\ UNCHANGED mem
    /\ UNCHANGED <<store, log>>

(* Mutant: the settle decision is recorded over any queue. *)
QueueIgnored == TRUE

(* Everything queued was dropped by an abort or a failure.                  *)
QueueAbandoned == store.queue \subseteq mem.held.abandoned

(* #enterSettlementStage: the settle decision, unless input accepted since  *)
(* is queued and nobody dropped it.                                         *)
EnterSettlement ==
    /\ pc = "enterSettlement"
    /\ DbFree
    /\ \/ /\ QueueAbandoned
          /\ store' = [store EXCEPT !.owed = Owing("settlement")]
          /\ mem' = [mem EXCEPT !.owed.pending = Owing("settlement")]
          /\ UNCHANGED log
       \/ /\ ~QueueAbandoned
          /\ UNCHANGED <<store, mem, log>>
       \/ /\ Fault("stage")
          /\ log' = Failing
          /\ UNCHANGED <<store, mem>>
    /\ pc' = "settle"

(* Mutant: the settlement erases whatever record it finds. *)
ErasesRecord == NotOwed

(* #settleRecord: what the settling transaction leaves as the record.       *)
Reopened == [stage |-> "inference", open |-> FALSE]
SettledRecord == IF LateWork THEN Reopened ELSE NotOwed

(* #settleRecord: erases the record, or reopens it for work accepted since  *)
(* the decision was recorded, in the transaction that reads it.             *)
Settle ==
    /\ pc = "settle"
    /\ DbFree
    /\ \/ /\ store' = [store EXCEPT !.owed = SettledRecord]
          /\ mem' = [mem EXCEPT !.owed.pending = SettledRecord, !.owed.requestOpen = FALSE,
                                !.run.reopened = LateWork]
          /\ UNCHANGED log
       \/ /\ Fault("settle")
          /\ log' = Failing
          /\ UNCHANGED <<store, mem>>
    /\ pc' = "finally"

(* Mutants: the end of a run forgets the record it leaves behind. *)
LeavesRecord == FALSE
StaysSettled == FALSE

(* An abort dropped the turn that a record written meanwhile asks for; the  *)
(* settlement reopened the record.                                          *)
RecordOutlivesAbort == mem.run.abortDropped /\ mem.owed.pending.stage # "none"
RecordReopened == mem.run.reopened

(* The run is over.  A request that came while it was ending, a record an   *)
(* abort left behind, and a record the settlement reopened each start the   *)
(* next run; otherwise the agent is idle.                                   *)
Finally ==
    /\ pc = "finally"
    /\ LET m == [mem EXCEPT !.run.reopened = FALSE]
           stops == mem.run.closed \/ mem.run.draining
       IN  \/ /\ ~stops /\ mem.run.turnRequested
              /\ mem' = NewRun(m, FALSE) /\ pc' = "begin"
           \/ /\ ~stops /\ ~mem.run.turnRequested /\ RecordOutlivesAbort
              /\ mem' = NewRun(m, TRUE) /\ pc' = "begin"
           \/ /\ ~stops /\ ~mem.run.turnRequested /\ ~RecordOutlivesAbort /\ RecordReopened
              /\ mem' = NewRun([m EXCEPT !.run.turnRequested = TRUE], FALSE)
              /\ pc' = "begin"
           \/ /\ \/ stops
                 \/ ~mem.run.turnRequested /\ ~RecordOutlivesAbort /\ ~RecordReopened
              /\ mem' = [m EXCEPT !.run.settleOnly = FALSE] /\ pc' = "idle"
    /\ log' = [log EXCEPT !.cancelled = FALSE]
    /\ UNCHANGED store

(* An agent at rest; a run in flight never is.                              *)
Rest == pc = "idle" /\ DbFree /\ UNCHANGED vars
-----------------------------------------------------------------------------
Callers ==
    \/ \E m \in Msgs, k \in Kinds, via \in {"own", "outer"} : Offer(m, k, via)
    \/ Abort \/ Drain \/ Close

Publishing == Publish \/ MarkCommitted \/ ActivateCommitted

OpeningStep == BeginRun \/ SettleLoaded \/ LoopStage \/ OpenTurn
LoadStep == ReadHistory \/ AssignHistory \/ LoadFails \/ TurnStage
CycleStep ==
    \/ BeginInference \/ Recover \/ StopCycle \/ RefreshCommittedQueues
    \/ \E k \in Kinds : ConsumeQueue(k)
    \/ NothingQueued \/ LeaveRequest \/ RequestInference \/ OpenStream
ResponseStep ==
    \/ StreamBlock \/ StreamThrows \/ TurnThrows
    \/ \E state \in Ending : StreamEnds(state)
    \/ EndInference \/ SettleCalls \/ AppendResults
ToolStep ==
    \/ Dispatch \/ Execute \/ ToolCommitsEarly \/ ToolSettles \/ ToolReloads
    \/ CommitResult \/ EndBatch
ClosingStep ==
    \/ AppendFailure \/ NothingToNote \/ FailTurn \/ LeaveRun \/ CloseTurn \/ NextTurn
    \/ CloseLoop \/ NextLoop \/ EnterSettlement \/ Settle \/ Finally

RunStep == OpeningStep \/ LoadStep \/ CycleStep \/ ResponseStep \/ ToolStep \/ ClosingStep

Next == Callers \/ Publishing \/ Crash \/ Start \/ RunStep \/ Rest

(* The event loop resumes every settled await, providers end their streams  *)
(* and tools return (or observe their abort), and the owner coming up starts*)
(* the agents that owe work.  Callers, crashes and failures owe nothing.    *)
Fairness == WF_vars(Publishing) /\ WF_vars(RunStep) /\ WF_vars(Start)

Spec == Init /\ [][Next]_vars
FairSpec == Spec /\ Fairness
-----------------------------------------------------------------------------
(* Types *)

HeldType ==
    [waiting : SUBSET Entry, messages : Seq(Record), loaded : BOOLEAN,
     snapshot : SUBSET Entry, publishing : SUBSET Publication, dirty : BOOLEAN,
     abandoned : SUBSET Entry]

RunType ==
    [turnRequested : BOOLEAN, abortDropped : BOOLEAN, settleOnly : BOOLEAN,
     reopened : BOOLEAN, aborted : BOOLEAN, draining : BOOLEAN, closed : BOOLEAN,
     toolsAbandoned : BOOLEAN]

OwedType ==
    [inherited : OwedRecord, pending : OwedRecord, requestOpen : BOOLEAN,
     recoveryChecked : BOOLEAN, resumeRequested : BOOLEAN]

TurnType ==
    [needs : BOOLEAN, blocked : BOOLEAN, state : {"none"} \cup Ending,
     partial : Seq(Record), batch : SUBSET Calls, resumed : BOOLEAN,
     stopped : BOOLEAN, then : After]

MemType == [held : HeldType, run : RunType, owed : OwedType, turn : TurnType]

StoreType ==
    [queue : SUBSET Entry, ids : SUBSET Msgs, records : Seq(Record),
     owed : OwedRecord, tools : SUBSET BatchEntry]

LogType ==
    [dropped : SUBSET Entry, answerDue : BOOLEAN, ran : [Calls -> Nat],
     excused : SUBSET Calls, unowed : SUBSET Calls, cancelled : BOOLEAN,
     unnamed : BOOLEAN, atAbort : SUBSET Msgs,
     faults : Nat, aborts : Nat, crashes : Nat, stops : Nat]

PcType ==
    {"idle", "begin", "load", "assign", "settleLoaded", "loopStage", "openTurn",
     "turnStage", "resume", "recover", "cycle", "steering", "send", "request",
     "asked", "stream", "responded", "settleCalls", "appendResults", "dispatch",
     "execute", "running", "commit", "answered", "note", "fail", "turnDone",
     "turnClosed", "closeLoop", "loopClosed", "enterSettlement", "settle", "finally"}

(* Every variable stays within the values the code can give it.             *)
TypeOK ==
    /\ store \in StoreType
    /\ mem \in MemType
    /\ pc \in PcType
    /\ log \in LogType
-----------------------------------------------------------------------------
(* Safety *)

(* A message that was accepted and that no abort or failed turn dropped is  *)
(* never left in the queue of an agent whose record says it owes nothing:   *)
(* that agent would not be started again (#claimPendingWork, #settleRecord).*)
QueuedWorkIsOwed ==
    \A e \in store.queue : e \in log.dropped \/ store.owed.stage # "none"

(* Why it holds, as an inductive invariant.  A record that owes no turn      *)
(* stands over a queue that was dropped; what this instance calls abandoned *)
(* was dropped; and the record it believes it wrote last never owes a turn  *)
(* that the store does not, or a skipped write (#recordPending) would leave *)
(* the store owing nothing.                                                 *)
SettledQueueDropped ==
    store.owed.stage \in {"none", "settlement"} => store.queue \subseteq log.dropped
AbandonedIsDropped == mem.held.abandoned \subseteq log.dropped
CachedWorkIsOwed == mem.owed.pending.stage \in {"inference", "tools"} => LateWork

OwedInv == SettledQueueDropped /\ AbandonedIsDropped /\ CachedWorkIsOwed

(* Each accepted identity is in exactly one place, once: waiting in the     *)
(* queue or said in the conversation, whatever fails or crashes.            *)
AcceptedExactlyOnce ==
    \A m \in store.ids :
        Cardinality({e \in store.queue : e.msg = m})
            + Cardinality({i \in DOMAIN store.records : store.records[i] = User(m)}) = 1

(* Nothing is said between a tool call and its result: a user message or a  *)
(* notice there is a conversation most providers reject.                    *)
CallsAnsweredInPlace ==
    \A c \in Calls \ log.excused : \A i \in DOMAIN store.records :
        store.records[i] = Call(c) =>
            \A k \in DOMAIN store.records :
                i < k /\ store.records[k].type \in {"user", "system"} =>
                    \E j \in i .. k : store.records[j] = Result(c)

(* A call is answered once: no crash, abort, early commit or settling gives *)
(* it a second result (#settleUnansweredCalls leaves the batch's own calls).*)
AnsweredOnce ==
    \A c \in Calls :
        Cardinality({i \in DOMAIN store.records : store.records[i] = Result(c)}) <= 1

(* An agent that owes nothing has answered every call in its conversation.  *)
(* Excused are the calls that a failed stream or load made it forget, and   *)
(* unowed those made when no stage record could be written, so that nothing *)
(* was owed while they were made (README, section 6).                       *)
SettledMeansComplete ==
    store.owed.stage = "none" => Unanswered(store.records) \subseteq log.excused \cup log.unowed

(* A call whose tool may not be retried is executed at most once over all   *)
(* the processes that own the agent.                                        *)
NonRetryableRunsOnce == \A c \in Calls \ Retryable : log.ran[c] <= 1

(* What the model is asked about, and whose calls are dispatched, is the    *)
(* durable conversation.                                                    *)
Batching == {"turnStage", "resume", "dispatch", "execute", "running", "commit"}
Asking == {"recover", "cycle", "steering", "send", "request", "asked"}
LiveContextMatchesStore ==
    pc \in Batching \cup Asking \cup {"answered"} => mem.held.messages = store.records

(* Why the conversation stays whole, as an inductive invariant.  In the     *)
(* store: a result follows its call, one call at most is open, the entries  *)
(* of the durable batch are open calls, and a call that was executed is in  *)
(* that batch or answered.                                                  *)
Entries == {t.call : t \in store.tools}
StoredCallsInv ==
    /\ \A c \in Calls : Occurs(Result(c), store.records) => Occurs(Call(c), store.records)
    /\ \A c \in Calls : \A j \in DOMAIN store.records :
           store.records[j] = Result(c) =>
               \A i \in DOMAIN store.records : store.records[i] = Call(c) => i < j
    /\ \A c, d \in Unanswered(store.records) : c = d
    /\ Entries \subseteq Unanswered(store.records)
    /\ \A c \in Calls : log.ran[c] > 0 => c \in Entries \/ Occurs(Result(c), store.records)

(* What the run knows of it: whole, but for the blocks still streaming, and *)
(* for those of a failed stream, whose calls are excused.                   *)
Failed == mem.turn.then = "catch"
KnownCallsInv ==
    /\ pc \in {"load", "assign", "answered"} \cup Batching \cup Asking => ~Failed
    /\ pc \in {"stream", "responded"} =>
           /\ store.records = mem.held.messages \o mem.turn.partial
           /\ Unanswered(mem.held.messages) = {}
    /\ pc \in {"settleCalls", "appendResults", "note"} /\ ~Failed =>
           mem.held.messages = store.records
    /\ pc = "settleCalls" /\ Failed =>
           \/ mem.held.messages = store.records
           \/ /\ Unanswered(mem.held.messages) = {}
              /\ Unanswered(store.records) \subseteq log.excused
    /\ pc = "note" /\ Failed => Unanswered(store.records) \subseteq log.excused

(* Which calls are open where: none when the model is asked, those it makes *)
(* while it answers, the batch while that is executed or settled.           *)
OpenCallsInv ==
    /\ pc \in Asking \cup {"answered"} => Unanswered(store.records) = {}
    /\ pc = "asked" => mem.turn.partial = <<>>
    /\ pc \in {"stream", "responded"} =>
           Unanswered(store.records) = {c \in Calls : Occurs(Call(c), mem.turn.partial)}
    /\ pc \in Batching \cup {"appendResults"} => mem.turn.batch = Unanswered(store.records)

(* A fresh batch has not been executed; a resumed or dispatched one is in   *)
(* the store.                                                               *)
BatchInv ==
    /\ pc \in {"turnStage", "resume", "dispatch", "execute"} /\ ~mem.turn.resumed =>
           \A c \in mem.turn.batch : log.ran[c] = 0
    /\ pc \in {"stream", "responded"} =>
           \A c \in Calls : Occurs(Call(c), mem.turn.partial) => log.ran[c] = 0
    /\ pc \in {"turnStage", "resume", "dispatch"} /\ mem.turn.resumed =>
           mem.turn.batch \subseteq Entries
    /\ pc \in {"execute", "running", "commit", "appendResults"} =>
           mem.turn.batch \subseteq Entries

ConversationInv ==
    LiveContextMatchesStore /\ StoredCallsInv /\ KnownCallsInv /\ OpenCallsInv /\ BatchInv

(* Input or results a response is due for keep the durable record standing  *)
(* until a response, an abort or a failed turn answers them, so a crash in  *)
(* between is resumed.  The exception is log.unnamed: a request whose stage *)
(* record could not be written, and a resumed batch whose stage record could*)
(* not be written over a store that owed nothing (README, section 6).       *)
AnswerDueIsOwed == log.answerDue /\ ~log.unnamed => store.owed.stage # "none"

(* An agent at rest in a live process, and knowing that it owes work, is one*)
(* that keeps open tool calls for a later attempt; a storage failure may    *)
(* leave more.  What the store knows is OwedWorkHasARun, below.             *)
AtRest == /\ pc = "idle" /\ DbFree
          /\ ~mem.run.draining /\ ~mem.run.closed
          /\ mem.owed.inherited.stage # "none" => mem.owed.resumeRequested

IdleOwesOnlyOpenCalls ==
    AtRest /\ log.faults = 0 /\ mem.owed.pending.stage # "none" =>
        Unanswered(store.records) # {}
-----------------------------------------------------------------------------
(* What the agent promises *)

(* The state of the promise: the input that waits, what of it was dropped,  *)
(* the results that are staged or were committed early, the calls nobody    *)
(* waits for any more, and what is due and owed.                            *)
QueuedMsgs == {e.msg : e \in store.queue}
DroppedMsgs == {e.msg : e \in store.queue \cap log.dropped}
DecidedCalls == {t.call : t \in {u \in store.tools : u.committed}}
ExcusedCalls == log.excused \cup log.unowed
Due == log.answerDue /\ ~log.unnamed
Owes == store.owed.stage # "none"

Promise == INSTANCE DurableAgent WITH
    waiting <- QueuedMsgs, dropped <- DroppedMsgs, said <- store.records,
    decided <- DecidedCalls, ran <- log.ran, forgotten <- ExcusedCalls,
    due <- Due, owed <- Owes

(* Whatever interleaves, fails, is aborted, closed or crashes, each step of *)
(* the code is a step of DurableAgent or changes nothing it speaks of.      *)
KeepsItsPromise == Promise!Spec
-----------------------------------------------------------------------------
(* Liveness, under FairSpec *)

Stopping == mem.run.draining \/ mem.run.closed
Queued(m) == \E e \in store.queue : e.msg = m
Dropped(m) == m \in log.atAbort \/ \E e \in log.dropped : e.msg = m

(* Every accepted message is eventually said to the model, unless an abort  *)
(* or a failed turn drops it or the agent is being stopped.                 *)
EveryMessageTaken == \A m \in Msgs : Queued(m) ~> (~Queued(m) \/ Dropped(m) \/ Stopping)

(* A response that is due is eventually given (or aborted, or failed).      *)
EveryAnswerGiven == log.answerDue ~> (~log.answerDue \/ log.unnamed \/ Stopping)

(* Every run ends: no loop of turns, loops and settlements starts itself    *)
(* again for ever.                                                          *)
EveryRunEnds == []<>(pc = "idle")
-----------------------------------------------------------------------------
(* What the code's own comments say, and the code does not quite do         *)

(* "The durable conversation never holds a tool call without its result",   *)
(* AgentBase.ts, #settleUnansweredCalls: read at its weakest, of an agent   *)
(* that has settled.                                                        *)
SettledOwesNoResult ==
    store.owed.stage = "none" => Unanswered(store.records) = {}

(* "Losing the record costs recovery precision, never the work itself",     *)
(* #enterStage.                                                             *)
AnswerDueSurvivesStageLoss == log.answerDue => store.owed.stage # "none"

(* A turn that cannot load ends "leaving everything durable exactly as it   *)
(* was for the next attempt", #runTurn: so the entries of a dispatched batch*)
(* never outlive the record that makes an owner resume them.                *)
ToolBatchIsOwed == store.tools # {} => store.owed.stage # "none"

(* "Whenever the store says the agent is working and the owner is not       *)
(* draining or closing, a run must be in flight or about to start",         *)
(* LEARNINGS.md; open calls kept for a later attempt are its exception.     *)
OwedWorkHasARun ==
    AtRest /\ store.owed.stage # "none" => Unanswered(store.records) # {}

(* "A run cancelled while it is still starting up never reaches the model   *)
(* at all", #runLoops.                                                      *)
CancelledNeverAsks == pc = "stream" /\ log.cancelled => mem.run.aborted

(* "Move the oldest queued message", #consumeQueue.                         *)
OldestFirst ==
    [][\A e \in store.queue \ store'.queue :
          \A f \in store.queue : f.kind = e.kind => e.key <= f.key]_vars
=============================================================================
