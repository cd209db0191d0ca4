---------------------------- MODULE MCActivityList ----------------------------
(***************************************************************************)
(* Instances of ActivityList for TLC.  The fields of a row are             *)
(* interchangeable.                                                        *)
(***************************************************************************)
EXTENDS ActivityList, TLC

Symmetry == Permutations(Fields)
=============================================================================
