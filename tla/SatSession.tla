----------------------------- MODULE SatSession -----------------------------
(* A practice session of the SAT pages: use-sat-session.ts, its reducer       *)
(* (sat-session-reducer.ts), the keyboard of SatPractice.tsx, and the service *)
(* that stores attempts and bookmarks (app/sat/service_attempts.py,           *)
(* service_questions.py).  Requests are served and answered in any order; one *)
(* that the page has given up may still be served.                            *)
(*                                                                            *)
(* An answer is right or wrong.  The account does not change here (see        *)
(* AccountBoundary), and eliminated choices, the timer and the prefetched     *)
(* bodies, which nothing else reads, are left out.                            *)
EXTENDS Naturals, FiniteSets

CONSTANTS Questions,    \* the bank
          MaxPresses,   \* bound: submits and stars pressed
          MaxOpen,      \* bound: requests under way or given up
          MaxLaunches   \* bound: sessions launched or loaded again

Answers == {"right", "wrong"}
None == "none"

VARIABLES status,     \* the hook's status
          session,    \* the hook's SatSessionState
          load,       \* the session read under way: its source, and what it read
          requests,   \* submits and bookmark requests under way or given up
          attempts,   \* counselle.sat_attempts
          bookmarks,  \* counselle.sat_bookmarks
          used,       \* how much of each bound is used
          asked,      \* ghost: per question, the answer last submitted in this
                      \* session and the press that first submitted it
          unsure      \* ghost: questions whose star was pressed again, read or
                      \* given up while a request for it was under way

sat == <<status, session, load, requests, attempts, bookmarks, used, asked, unsure>>

-----------------------------------------------------------------------------
(* The reducer.                                                               *)

\* rows is what GET /session said of each of its questions, first the row at
\* index 0, which may be any of them.
createInitialSatSessionState(rows, first) ==
  [rows |-> DOMAIN rows,
   current |-> first,
   bookmarked |-> {q \in DOMAIN rows : rows[q].bookmarked},
   answers |-> [q \in Questions |-> None],
   reveals |-> [q \in Questions |-> None],
   history |-> [q \in Questions |-> IF q \in DOMAIN rows THEN rows[q].ever ELSE {}],
   inFlight |-> {},
   attemptBindings |-> [q \in Questions |-> [answer |-> None, id |-> 0]]]

submit_started(s, q, answer, id) ==
  [s EXCEPT !.attemptBindings[q] = [answer |-> answer, id |-> id],
            !.inFlight = @ \cup {q}]

\* Fault: the verdict is shown at the question that is open when it arrives.
submit_succeeded_here(s, q, verdict) ==
  [s EXCEPT !.reveals[s.current] = verdict,
            !.history[s.current] = @ \cup {verdict},
            !.inFlight = @ \ {q}]

submit_succeeded(s, q, verdict) ==
  [s EXCEPT !.reveals[q] = verdict,
            !.history[q] = @ \cup {verdict},
            !.inFlight = @ \ {q}]

submit_failed(s, q) == [s EXCEPT !.inFlight = @ \ {q}]

bookmark_patched(s, q, on) ==
  [s EXCEPT !.bookmarked = IF q \notin s.rows THEN @
                           ELSE IF on THEN @ \cup {q} ELSE @ \ {q}]

\* Fault: every press is a new attempt.
selectReusableAttemptIdNever(s, q, answer) == 0

selectReusableAttemptId(s, q, answer) ==
  IF s.attemptBindings[q].answer = answer THEN s.attemptBindings[q].id ELSE 0

-----------------------------------------------------------------------------
NoLoad == [phase |-> None, source |-> {}, rows |-> <<>>]
Loading(source) == [phase |-> "sent", source |-> source, rows |-> <<>>]
Unasked == [q \in Questions |-> [answer |-> None, series |-> 0]]

\* The source is the questions its filter matches; none, for an id the bank
\* does not hold.
SatInit ==
  /\ status = "loading"
  /\ session = createInitialSatSessionState(<<>>, None)
  /\ \E source \in SUBSET Questions : load = Loading(source)
  /\ requests = {} /\ attempts = {} /\ bookmarks = {}
  /\ used = [presses |-> 0, launches |-> 1]
  /\ asked = Unasked /\ unsure = {}

Current == session.current
Stars(q) == {r \in requests : r.kind = "star" /\ r.q = q}

\* The effect runs again, for another source or for the same one after a
\* failure; it aborts a read under way, and keeps the session until the answer.
Reads(source) ==
  /\ used.launches < MaxLaunches
  /\ used' = [used EXCEPT !.launches = @ + 1]
  /\ status' = "loading"
  /\ load' = Loading(source)
  /\ UNCHANGED <<session, requests, attempts, bookmarks, asked, unsure>>

launch == \E source \in SUBSET Questions : Reads(source)
reload == status = "error" /\ Reads(load.source)

\* list_session, get_session_row.
list_session ==
  /\ load.phase = "sent"
  /\ load' = [load EXCEPT
       !.phase = "served",
       !.rows = [q \in load.source |->
                   [ever |-> {a.verdict : a \in {x \in attempts : x.q = q}},
                    bookmarked |-> q \in bookmarks]]]
  /\ unsure' = unsure \cup {q \in Questions : \E r \in Stars(q) : r.state = "sent"}
  /\ UNCHANGED <<status, session, requests, attempts, bookmarks, used, asked>>

loaded ==
  /\ load.phase = "served"
  /\ \E first \in IF load.source = {} THEN {None} ELSE load.source :
       session' = createInitialSatSessionState(load.rows, first)
  /\ status' = "ready"
  /\ load' = NoLoad
  /\ asked' = Unasked
  /\ UNCHANGED <<requests, attempts, bookmarks, used, unsure>>

load_failed ==
  /\ load.phase \in {"sent", "served"}
  /\ status' = "error"
  /\ load' = [Loading(load.source) EXCEPT !.phase = None]
  /\ UNCHANGED <<session, requests, attempts, bookmarks, used, asked, unsure>>

-----------------------------------------------------------------------------
\* The window's Enter handler, which is there also while the page is loading or
\* shows an error: an answered question is checked, a revealed one is left.
EnterChecks ==
  /\ Current # None
  /\ session.reveals[Current] = None /\ session.answers[Current] # None
EnterGoesOn == Current # None /\ session.reveals[Current] # None

goTo(q) ==
  /\ status = "ready" \/ EnterGoesOn
  /\ q \in session.rows \ {Current}
  /\ session' = [session EXCEPT !.current = q]
  /\ UNCHANGED <<status, load, requests, attempts, bookmarks, used, asked, unsure>>

\* Locked by a reveal, and not by a submit under way.
answer(value) ==
  /\ status = "ready" /\ Current # None
  /\ session.reveals[Current] = None
  /\ session' = [session EXCEPT !.answers[Current] = value]
  /\ UNCHANGED <<status, load, requests, attempts, bookmarks, used, asked, unsure>>

\* The button asks for no more than Enter does.
submit ==
  /\ EnterChecks
  /\ Current \notin session.inFlight
  /\ used.presses < MaxPresses /\ Cardinality(requests) < MaxOpen
  /\ LET value == session.answers[Current]
         press == used.presses + 1
         reused == selectReusableAttemptId(session, Current, value)
         id == IF reused # 0 THEN reused ELSE press
         series == IF asked[Current].answer = value THEN asked[Current].series
                   ELSE press
     IN  /\ session' = submit_started(session, Current, value, id)
         /\ requests' = requests \cup
              {[kind |-> "submit", q |-> Current, n |-> press, id |-> id,
                value |-> value, series |-> series, state |-> "sent",
                verdict |-> None, awaited |-> TRUE]}
         /\ asked' = [asked EXCEPT ![Current] = [answer |-> value, series |-> series]]
  /\ used' = [used EXCEPT !.presses = @ + 1]
  /\ UNCHANGED <<status, load, attempts, bookmarks, unsure>>

toggleBookmark ==
  /\ status = "ready" /\ Current # None
  /\ used.presses < MaxPresses /\ Cardinality(requests) < MaxOpen
  /\ LET next == Current \notin session.bookmarked
     IN  /\ session' = bookmark_patched(session, Current, next)
         /\ requests' = requests \cup
              {[kind |-> "star", q |-> Current, n |-> used.presses + 1,
                value |-> next, state |-> "sent", awaited |-> TRUE]}
  /\ unsure' = IF Stars(Current) = {} THEN unsure ELSE unsure \cup {Current}
  /\ used' = [used EXCEPT !.presses = @ + 1]
  /\ UNCHANGED <<status, load, attempts, bookmarks, asked>>

-----------------------------------------------------------------------------
(* The service: the row of the id is inserted, or found.                      *)
Graded(value) == IF value = "right" THEN "correct" ELSE "incorrect"

Stored(r) ==
  LET same == {a \in attempts : a.id = r.id}
  IN  IF same # {} THEN CHOOSE a \in same : TRUE
      ELSE [id |-> r.id, q |-> r.q, verdict |-> Graded(r.value), series |-> r.series]

\* A request nobody awaits leaves no answer behind.
Answered(r, s) ==
  requests' = (requests \ {r}) \cup (IF r.awaited THEN {s} ELSE {})

submit_served(r) ==
  /\ r.kind = "submit" /\ r.state = "sent"
  /\ attempts' = attempts \cup {Stored(r)}
  /\ Answered(r, [r EXCEPT !.state = "served", !.verdict = Stored(r).verdict])
  /\ UNCHANGED <<status, session, load, bookmarks, used, asked, unsure>>

bookmark_served(r) ==
  /\ r.kind = "star" /\ r.state = "sent"
  /\ bookmarks' = IF r.value THEN bookmarks \cup {r.q} ELSE bookmarks \ {r.q}
  /\ Answered(r, [r EXCEPT !.state = "served"])
  /\ UNCHANGED <<status, session, load, attempts, used, asked, unsure>>

\* An error of the service, which has then written nothing.
refused(r) ==
  /\ r.state = "sent"
  /\ Answered(r, [r EXCEPT !.state = "refused"])
  /\ UNCHANGED <<status, session, load, attempts, bookmarks, used, asked, unsure>>

-----------------------------------------------------------------------------
(* The rest of submit and of toggleBookmark, after their await.               *)
rolled_back(r) ==
  IF r.kind = "submit" THEN submit_failed(session, r.q)
  ELSE bookmark_patched(session, r.q, ~r.value)

answered(r) ==
  /\ r.awaited /\ r.state \in {"served", "refused"}
  /\ requests' = requests \ {r}
  /\ session' = IF r.state = "refused" THEN rolled_back(r)
                ELSE IF r.kind = "submit" THEN submit_succeeded(session, r.q, r.verdict)
                ELSE session
  /\ UNCHANGED <<status, load, attempts, bookmarks, used, asked, unsure>>

\* The connection breaks or the time-out passes; the request may yet be served.
given_up(r) ==
  /\ r.awaited /\ r.state \in {"sent", "served"}
  /\ requests' = (requests \ {r}) \cup
       (IF r.state = "sent" THEN {[r EXCEPT !.awaited = FALSE]} ELSE {})
  /\ session' = rolled_back(r)
  /\ unsure' = IF r.kind = "star" THEN unsure \cup {r.q} ELSE unsure
  /\ UNCHANGED <<status, load, attempts, bookmarks, used, asked>>

SatNext ==
  \/ launch \/ reload \/ list_session \/ loaded \/ load_failed
  \/ \E q \in Questions : goTo(q)
  \/ \E value \in Answers : answer(value)
  \/ submit \/ toggleBookmark
  \/ \E r \in requests : \/ submit_served(r) \/ bookmark_served(r) \/ refused(r)
                         \/ answered(r) \/ given_up(r)

SatSpec == SatInit /\ [][SatNext]_sat
-----------------------------------------------------------------------------
\* "A retry of the same press must never create a second row"
\* (service_attempts.py): as long as the student submits the same answer to a
\* question, one attempt is stored, however often he presses, whichever of the
\* requests are lost, late or refused, and also when the failure of an earlier
\* session's submit takes the guard of this one's away.
NoDoubleAttempt ==
  \A a, b \in attempts : a.series = b.series => a = b

\* A verdict on the page, and a mark in the navigator, is that of a stored
\* attempt at that very question, wherever the student has gone meanwhile; and
\* a star is what the server has stored, when its requests did not overlap and
\* none was given up.
PageIsTrue ==
  /\ \A q \in Questions :
       LET stored == {a.verdict : a \in {x \in attempts : x.q = q}}
       IN  /\ session.reveals[q] # None =>
                session.reveals[q] \in stored \cap session.history[q]
           /\ session.history[q] \subseteq stored
  /\ \A q \in session.rows \ unsure :
       ~(\E r \in Stars(q) : r.awaited) =>
         (q \in session.bookmarked <=> q \in bookmarks)

\* Q18 of the parity inventory: an answer is "changeable until submit and locked
\* after".  It can be changed while the submit is under way, and the verdict is
\* then shown beside the other answer.
VerdictIsOfShownAnswer ==
  \A q \in session.rows :
    session.reveals[q] # None => session.reveals[q] = Graded(session.answers[q])
=============================================================================
