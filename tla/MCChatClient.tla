---------------------------- MODULE MCChatClient ----------------------------
(***************************************************************************)
(* ChatClient for TLC: the messages of the student's are interchangeable.  *)
(***************************************************************************)
EXTENDS ChatClient, TLC

Symmetry == Permutations(Msgs)
=============================================================================
