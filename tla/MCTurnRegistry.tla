--------------------------- MODULE MCTurnRegistry ---------------------------
(***************************************************************************)
(* Instances of TurnRegistry for TLC: the chat each turn is created for,   *)
(* and the transcripts the process starts with.                            *)
(***************************************************************************)
EXTENDS TurnRegistry, TLC

CONSTANTS t1, t2, t3, s1, s2, LegacyId

\* Two, or three, turns of one chat.
OneChat == [t \in {t1, t2} |-> s1]
OneChatThree == [t \in {t1, t2, t3} |-> s1]

\* Two chats with a turn each.
TwoChats == [t \in {t1, t2} |-> IF t = t1 THEN s1 ELSE s2]

\* A question parked by the previous release, and one parked by this one.
LegacyQuestion ==
  [mid |-> LegacyId, status |-> "awaiting_input", v2 |-> FALSE, goal |-> FALSE,
   editable |-> TRUE]
Question == [LegacyQuestion EXCEPT !.v2 = TRUE]
GoalQuestion == [Question EXCEPT !.goal = TRUE]

Fresh == {<<>>}
Legacy == {<<LegacyQuestion>>}
Asked == {<<Question>>}
AskedInGoal == {<<GoalQuestion>>}
AskedOrLegacy == Asked \cup Legacy
GoalOrLegacy == AskedInGoal \cup Legacy

\* Turns of one chat, and callers, are interchangeable: nothing orders them.
\* Used by the runs that check no liveness property.
Symmetry == Permutations(Turns) \cup Permutations(Callers)
=============================================================================
