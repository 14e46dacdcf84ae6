-------------------------- MODULE MCDurableFunctions --------------------------
(* Calls for TLC: one that holds one lock, one that wants it and another,   *)
(* one that wants only the other and repeats the first's operation.  The    *)
(* last two read the same clock, the first a later one.                     *)
EXTENDS DurableFunctions
LOCAL SX == INSTANCE SequencesExt

CONSTANTS c1, c2, c3, a, b

Keys == [c \in {c1, c2, c3} |->
    CASE c = c1 -> {a} [] c = c2 -> {a, b} [] c = c3 -> {b}]
Ids == [c \in {c1, c2, c3} |-> IF c = c2 THEN "second" ELSE "first"]
Clock == [c \in {c1, c2, c3} |-> IF c = c1 THEN 2 ELSE 1]
Processes == {{c1, c2, c3}, {c1, c2}}

(* The loop of #takeRunnable as it is written, over the sorted queue: what  *)
(* Runnable says in one line.                                               *)
Loop(queue, order, held) ==
    LET sorted == SX!SetToSortSeq(queue, LAMBDA c, d : Precedes(c, d, order))
    IN  SX!FoldLeft(Look, Looking(held), sorted).starts

(* The rule the other properties rest on is what the loop computes, in      *)
(* every state in which the loop may run.                                   *)
TakesLikeTheLoop ==
    Loop(waiting, ahead, heldLockKeys) = Runnable(waiting, ahead, heldLockKeys)
=============================================================================
