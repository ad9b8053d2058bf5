---------------------------- MODULE MCGoalStore ----------------------------
(* Instances of GoalStore for TLC.                                         *)
EXTENDS GoalStore, TLC

(* Clients and contents are interchangeable, and so are identifiers.       *)
Symmetry ==
  Permutations(Client) \cup Permutations(Goal) \cup Permutations(Content)
=============================================================================
