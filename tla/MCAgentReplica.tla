---------------------------- MODULE MCAgentReplica ----------------------------
(* The entries of the feed, for TLC. *)
EXTENDS AgentReplica

Shown == ShownEntries
AllEntries == ShownEntries \cup {HiddenEntry}
=============================================================================
