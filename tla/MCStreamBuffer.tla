--------------------------- MODULE MCStreamBuffer ---------------------------
(***************************************************************************)
(* Instances of StreamBuffer for TLC: the chat each turn belongs to.       *)
(***************************************************************************)
EXTENDS StreamBuffer

CONSTANTS t1, t2, t3, s1, s2

\* Two turns of one chat, one after the other.
OneChat == [t \in {t1, t2} |-> s1]

\* Two turns of one chat, one after the other, beside a turn of another chat.
ChatAndGuest == [t \in {t1, t2, t3} |-> IF t = t3 THEN s2 ELSE s1]

\* Two chats whose turns run side by side and share the byte budget.
TwoChats == [t \in {t1, t2} |-> IF t = t1 THEN s1 ELSE s2]
=============================================================================
