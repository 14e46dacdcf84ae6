----------------------------- MODULE DurableAgent ----------------------------
(***************************************************************************)
(* What one agent of packages/happy-agent-base promises whoever talks to   *)
(* it, without the run loop, the memory, the caches and the batches of     *)
(* AgentBase.tla that keep the promise (the package's README.md).          *)
(*                                                                         *)
(* A message that was accepted waits until it is said, once.  A call that  *)
(* the model makes is answered in place, once; its tool does not start     *)
(* again once its result is durable, and starts once if it may not be      *)
(* retried.  And the agent goes on owing work until nothing is left of it: *)
(* it comes to owe nothing only over messages that were dropped, calls that*)
(* were forgotten and no answer due.  A crash is no step at all.           *)
(***************************************************************************)
EXTENDS Integers, Sequences

CONSTANTS
    Msgs,       \* messages that may be accepted
    Calls,      \* tool calls that may be made
    Retryable   \* the calls whose tool may be started again

VARIABLES
    waiting,    \* messages accepted and not yet said
    dropped,    \* those of them that an abort or a failure gave up
    said,       \* the conversation
    decided,    \* calls whose result is durable and not yet said
    ran,        \* how often the tool of each call was started
    forgotten,  \* calls that a failure excuses the agent from answering
    due,        \* said input or results await a response
    owed        \* an owner that comes up resumes this agent

input == <<waiting, dropped>>
calls == <<decided, ran>>
vars == <<input, said, calls, forgotten, due, owed>>

User(m) == [type |-> "user", ref |-> m]
Call(c) == [type |-> "call", ref |-> c]
Result(c) == [type |-> "result", ref |-> c]
Text == [type |-> "text", ref |-> 0]
System == [type |-> "system", ref |-> 0]

WasSaid(r) == \E i \in DOMAIN said : said[i] = r
Open == {c \in Calls : WasSaid(Call(c)) /\ ~WasSaid(Result(c))}

Says(r) == said' = Append(said, r)

(* Whatever writes may record that work is owed; only Settle withdraws it.  *)
MayOwe == owed' \in {owed, TRUE}
-----------------------------------------------------------------------------
Init ==
    /\ waiting = {} /\ dropped = {} /\ said = <<>>
    /\ decided = {} /\ ran = [c \in Calls |-> 0]
    /\ forgotten = {} /\ due = FALSE /\ owed = FALSE

(* A message is accepted once, and owed from the moment it is.              *)
Accept(m) ==
    /\ m \notin waiting /\ ~WasSaid(User(m))
    /\ waiting' = waiting \cup {m}
    /\ owed' = TRUE
    /\ UNCHANGED <<dropped, said, calls, forgotten, due>>

(* Leaving the queue and joining the conversation are one step, and never   *)
(* come between a call and its result.                                      *)
Take(m) ==
    /\ m \in waiting /\ Open = {}
    /\ waiting' = waiting \ {m} /\ dropped' = dropped \ {m}
    /\ Says(User(m))
    /\ due' \in BOOLEAN /\ owed' = TRUE
    /\ UNCHANGED <<calls, forgotten>>

SayText ==
    /\ Says(Text)
    /\ UNCHANGED <<input, calls, forgotten, due, owed>>

(* A call is made once, and while it is open it is owed or excused.         *)
SayCall(c) ==
    /\ ~WasSaid(Call(c)) /\ Open = {}
    /\ Says(Call(c))
    /\ forgotten' \in {forgotten, forgotten \cup {c}}
    /\ owed \/ c \in forgotten'
    /\ UNCHANGED <<input, calls, due, owed>>

Notice ==
    /\ Open \subseteq forgotten
    /\ Says(System)
    /\ MayOwe
    /\ UNCHANGED <<input, calls, forgotten, due>>
-----------------------------------------------------------------------------
(* A result that was decided is never computed again.                       *)
Run(c) ==
    /\ c \in Open \ decided
    /\ c \in Retryable \/ ran[c] = 0
    /\ ran' = [ran EXCEPT ![c] = @ + 1]
    /\ UNCHANGED <<input, said, decided, forgotten, due, owed>>

Decide(c) ==
    /\ c \in Open
    /\ decided' = decided \cup {c}
    /\ MayOwe
    /\ UNCHANGED <<input, said, ran, forgotten, due>>

Answer(c) ==
    /\ c \in Open
    /\ Says(Result(c))
    /\ decided' = decided \ {c}
    /\ MayOwe
    /\ due' \in {FALSE, due, owed'}
    /\ UNCHANGED <<input, ran, forgotten>>
-----------------------------------------------------------------------------
(* A response was given, or asked for with no record that could be kept.    *)
Respond ==
    /\ due' = FALSE
    /\ UNCHANGED <<input, said, calls, forgotten, owed>>

(* An abort, or a failed load, stream or turn: what it gives up stays where *)
(* it is, and is no longer waited for.                                      *)
GiveUp ==
    /\ dropped' \in SUBSET waiting /\ dropped \subseteq dropped'
    /\ forgotten' \in SUBSET (forgotten \cup Open) /\ forgotten \subseteq forgotten'
    /\ due' = FALSE
    /\ UNCHANGED <<waiting, said, calls, owed>>

(* A later turn takes up again what was given up: it is owed once more.     *)
TakeUp ==
    /\ owed
    /\ dropped' = {}
    /\ UNCHANGED <<waiting, said, calls, forgotten, due, owed>>

Owe ==
    /\ owed' = TRUE
    /\ UNCHANGED <<input, said, calls, forgotten, due>>

Settle ==
    /\ waiting \subseteq dropped /\ Open \subseteq forgotten /\ ~due
    /\ owed' = FALSE
    /\ UNCHANGED <<input, said, calls, forgotten, due>>

Next ==
    \/ Owe \/ Respond \/ GiveUp \/ TakeUp \/ Settle
    \/ SayText \/ Notice
    \/ \E m \in Msgs : Accept(m) \/ Take(m)
    \/ \E c \in Calls : SayCall(c) \/ Run(c) \/ Decide(c) \/ Answer(c)

Spec == Init /\ [][Next]_vars
-----------------------------------------------------------------------------
(* An agent that nobody will resume has nothing left to do.                 *)
Kept == owed \/ (waiting \subseteq dropped /\ Open \subseteq forgotten /\ ~due)
=============================================================================
