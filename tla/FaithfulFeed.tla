----------------------------- MODULE FaithfulFeed -----------------------------
(***************************************************************************)
(* What the API's event feed promises one client, without journals,        *)
(* connections and cursors: each event is shown once, in order, with none  *)
(* left out, unless the client is told that state was lost; then it goes   *)
(* on from some later event.                                               *)
(***************************************************************************)
EXTENDS Integers, Sequences

CONSTANTS
    Visible  \* the entries of the log that are shown to this client

VARIABLES
    log,     \* all that happened, in order
    cursor,  \* how far into the log the client is; 0 before it joined
    news     \* the last the client was told

vars == <<log, cursor, news>>

Init ==
    /\ Len(log) = 1
    /\ cursor = 0 /\ news = "none"

(* Something happens. *)
Happen ==
    /\ Len(log') = Len(log) + 1
    /\ \A p \in 1..Len(log) : log'[p] = log[p]
    /\ UNCHANGED <<cursor, news>>

(* The client joins at some point of the log. *)
Join ==
    /\ cursor = 0
    /\ cursor' \in 1..Len(log) /\ news' = "joined"
    /\ UNCHANGED log

(* It is shown the next event that is for it. *)
Show ==
    /\ cursor # 0
    /\ cursor' \in (cursor + 1)..Len(log)
    /\ log[cursor'] \in Visible
    /\ \A p \in (cursor + 1)..(cursor' - 1) : log[p] \notin Visible
    /\ news' = "event"
    /\ UNCHANGED log

(* It is told that it missed something. *)
Lose ==
    /\ cursor # 0
    /\ cursor' \in (cursor + 1)..Len(log) /\ news' = "lost"
    /\ UNCHANGED log

Next == Happen \/ Join \/ Show \/ Lose

Spec == Init /\ [][Next]_vars
=============================================================================
