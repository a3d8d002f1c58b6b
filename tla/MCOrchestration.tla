---------------------------- MODULE MCOrchestration --------------------------
(* Two tasks whose files overlap. *)
EXTENDS Orchestration
MCTask == {1, 2}
MCShared == {{1, 2}}
=============================================================================
