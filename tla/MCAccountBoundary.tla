-------------------------- MODULE MCAccountBoundary --------------------------
(***************************************************************************)
(* Instances of AccountBoundary for TLC.  Accounts are interchangeable and *)
(* so are the slots of the requests under way.                             *)
(***************************************************************************)
EXTENDS AccountBoundary, TLC

Symmetry == Permutations(Users) \cup Permutations(Slots)
=============================================================================
