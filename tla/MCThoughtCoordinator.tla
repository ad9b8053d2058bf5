------------------------ MODULE MCThoughtCoordinator ------------------------
(* Instances of ThoughtCoordinator for TLC.                                *)
EXTENDS ThoughtCoordinator
=============================================================================
