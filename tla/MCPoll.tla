------------------------------- MODULE MCPoll -------------------------------
(* Instances of Poll, and of PatchPush within it, for TLC. *)
EXTENDS Poll, TLC

Symmetry == Permutations(Jobs) \cup Permutations(Pollers)
=============================================================================
