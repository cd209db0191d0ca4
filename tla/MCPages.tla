------------------------------- MODULE MCPages -------------------------------
(* Two pages that share nothing, checked side by side: a browser shows one of *)
(* them, and only the machine of that one moves.                              *)
EXTENDS SatSession, TurnView, TLC

VARIABLE page

\* Where the practice page does not move, its source is of no interest.
Init == /\ page \in {"sat", "chat"}
        /\ SatInit /\ ViewInit
        /\ page = "chat" => load.source = {}

Next == /\ \/ page = "sat" /\ SatNext /\ UNCHANGED view
           \/ page = "chat" /\ ViewNext /\ UNCHANGED sat
        /\ UNCHANGED page

Spec == Init /\ [][Next]_<<page, sat, view>>

Symmetry == Permutations(Questions)
=============================================================================
