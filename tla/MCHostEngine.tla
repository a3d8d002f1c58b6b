----------------------------- MODULE MCHostEngine -----------------------------
(* Model-checking instances of HostEngine. *)
EXTENDS HostEngine, TLC

CommandSymmetry == Permutations(CommandIds)
Symmetry == CommandSymmetry \cup Permutations(SessionIds)
=============================================================================
