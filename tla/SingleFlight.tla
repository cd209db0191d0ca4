---------------------------- MODULE SingleFlight ----------------------------
(***************************************************************************)
(* What the turn registry promises to the rest of the program, without     *)
(* tasks, checkpoints or requests: a chat is owned by at most one turn at  *)
(* a time; a turn that was started ends, once, with one terminal event     *)
(* that tells why; and the chat is free again in the very step that event  *)
(* is sent.  app/turns.py:22-44 states it in words.                        *)
(***************************************************************************)
EXTENDS Sequences

CONSTANTS Sessions, Turns, SessionOf, NoTurn

VARIABLES
  owner,    \* the turn each chat belongs to
  state,    \* "new", "running" or "over"
  asked,    \* who asked for the turn to be stopped: "user", "shutdown", "none"
  outcome   \* the terminal events sent for it

vars == <<owner, state, asked, outcome>>

Init ==
  /\ owner = [s \in Sessions |-> NoTurn]
  /\ state = [t \in Turns |-> "new"]
  /\ asked = [t \in Turns |-> "none"]
  /\ outcome = [t \in Turns |-> <<>>]

\* A message, or the answer to a question, takes the chat.
Take(t) ==
  /\ state[t] = "new"
  /\ owner[SessionOf[t]] = NoTurn
  /\ owner' = [owner EXCEPT ![SessionOf[t]] = t]
  /\ state' = [state EXCEPT ![t] = "running"]
  /\ UNCHANGED <<asked, outcome>>

Over(t) ==
  /\ state[t] = "running"
  /\ owner[SessionOf[t]] = t
  /\ state' = [state EXCEPT ![t] = "over"]
  /\ owner' = [owner EXCEPT ![SessionOf[t]] = NoTurn]

\* The request is refused before anything ran: nobody holds a stream.
Refuse(t) ==
  /\ Over(t)
  /\ asked[t] = "none"
  /\ UNCHANGED <<asked, outcome>>

\* A request to stop is accepted once.
Stop(t, by) ==
  /\ state[t] = "running"
  /\ asked[t] = "none"
  /\ asked' = [asked EXCEPT ![t] = by]
  /\ UNCHANGED <<owner, state, outcome>>

\* The terminal event.
End(t, e) ==
  /\ Over(t)
  /\ (e = "done_cancelled") <=> (asked[t] = "user")
  /\ asked[t] = "shutdown" => e = "error"
  /\ outcome[t] = <<>>
  /\ outcome' = [outcome EXCEPT ![t] = <<e>>]
  /\ UNCHANGED asked

Events == {"done_complete", "done_awaiting", "done_cancelled", "error"}

Next ==
  \E t \in Turns :
    \/ Take(t) \/ Refuse(t)
    \/ \E by \in {"user", "shutdown"} : Stop(t, by)
    \/ \E e \in Events : End(t, e)

\* What is running ends.
Fairness ==
  \A t \in Turns : WF_vars(Refuse(t) \/ \E e \in Events : End(t, e))

Spec == Init /\ [][Next]_vars

FairSpec == Spec /\ Fairness
=============================================================================
