---------------------------- MODULE MCAgentBase ----------------------------
(* Instances of AgentBase small enough for TLC.                             *)
EXTENDS AgentBase, TLC

Symmetry == Permutations(Msgs)
=============================================================================
