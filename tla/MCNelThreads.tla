---------------------------- MODULE MCNelThreads ----------------------------
(* Instances of NelThreads for TLC.                                        *)
EXTENDS NelThreads
=============================================================================
