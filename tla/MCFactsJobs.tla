---------------------------- MODULE MCFactsJobs ----------------------------
(***************************************************************************)
(* Instances of FactsJobs for TLC.                                         *)
(***************************************************************************)
EXTENDS FactsJobs, TLC

\* Servers, and schools, are interchangeable.  Used by the runs that check no
\* liveness property.
Symmetry == Permutations(Pollers) \cup Permutations(Schools)
=============================================================================
