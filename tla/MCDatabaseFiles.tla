-------------------------- MODULE MCDatabaseFiles --------------------------
(* Instances of DatabaseFiles for TLC.                                     *)
EXTENDS DatabaseFiles, TLC

Symmetry == Permutations(Client) \cup Permutations(Content)
=============================================================================
