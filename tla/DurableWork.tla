------------------------------ MODULE DurableWork -----------------------------
(***************************************************************************)
(* What the durable functions of packages/happy-agent-modules promise the  *)
(* modules that invoke them, without the dispatcher, the recovery and the  *)
(* queues that keep the promise (README.md beside                          *)
(* DurableFunctionsModule.ts).                                             *)
(*                                                                         *)
(* A call exists from the commit of the transaction that created it until  *)
(* it settles, once and for ever, in one transaction.  Its executor runs   *)
(* only after that commit, with its lock keys to itself, and may run again *)
(* in the next process if this one ends before the call settles.           *)
(***************************************************************************)
EXTENDS Integers

CONSTANTS
    Calls,      \* calls that may be made
    LockKeysOf  \* the lock keys each is made with

VARIABLES
    status,     \* the fate of each call, as committed
    work        \* what this process does for each call

vars == <<status, work>>

Fates == {"none", "pending", "succeeded", "failed", "cancelled", "discarded"}

Disjoint(c, d) == LockKeysOf[c] \cap LockKeysOf[d] = {}
Succeeds(c) == status[c] # "succeeded" /\ status'[c] = "succeeded"
-----------------------------------------------------------------------------
Init ==
    /\ status = [c \in Calls |-> "none"]
    /\ work = [c \in Calls |-> "none"]

(* One committed transaction.  It makes and cancels calls; the one in which *)
(* the success handler of a call runs settles that call as well.            *)
Transact ==
    /\ status' \in [Calls -> Fates]
    /\ \A c \in Calls :
          \/ status'[c] = status[c]
          \/ status[c] = "none" /\ status'[c] \in {"pending", "cancelled"}
          \/ status[c] = "pending" /\ status'[c] = "cancelled"
          \/ Succeeds(c) /\ status[c] = "pending" /\ work[c] = "returned"
    /\ \A c, d \in Calls : Succeeds(c) /\ Succeeds(d) => c = d
    /\ work' = [c \in Calls |-> IF Succeeds(c) THEN "none" ELSE work[c]]

(* Only a call that was committed runs: one still pending, or one cancelled *)
(* too late to be stopped.                                                  *)
Start(c) ==
    /\ status[c] \in {"pending", "cancelled"}
    /\ work[c] = "none"
    /\ \A d \in Calls \ {c} : work[d] = "running" => Disjoint(c, d)
    /\ work' = [work EXCEPT ![c] = "running"]
    /\ UNCHANGED status

(* The executor ends, and what it did counts or (an abort, a stop, a        *)
(* completion that failed) does not.                                        *)
End(c) ==
    /\ work[c] # "none"
    /\ \E next \in {"none", "returned", "threw"} :
          /\ next # "none" => work[c] = "running"
          /\ work' = [work EXCEPT ![c] = next]
    /\ UNCHANGED status

(* A throw settles the call, without retry.                                 *)
Fail(c) ==
    /\ status[c] = "pending" /\ work[c] = "threw"
    /\ status' = [status EXCEPT ![c] = "failed"]
    /\ work' = [work EXCEPT ![c] = "none"]

(* A process whose definitions no longer match the call discards it.        *)
Discard(c) ==
    /\ status[c] = "pending" /\ work[c] = "none"
    /\ status' = [status EXCEPT ![c] = "discarded"]
    /\ UNCHANGED work

ProcessEnds ==
    /\ work' = [c \in Calls |-> "none"]
    /\ UNCHANGED status

Next ==
    \/ Transact
    \/ \E c \in Calls : Start(c) \/ End(c) \/ Fail(c) \/ Discard(c)
    \/ ProcessEnds

Spec == Init /\ [][Next]_vars
=============================================================================
