------------------------------ MODULE SatProof ------------------------------
(***************************************************************************)
(* The practice page, for any number of questions, presses, requests and   *)
(* sessions: no press is stored as two attempts, and what the page shows is *)
(* what the server has stored.                                             *)
(***************************************************************************)
EXTENDS SatSession, TLAPS

Verdicts == {"correct", "incorrect"}
States == {"sent", "served", "refused"}

\* The requests of submit and of toggleBookmark.
Submits == [kind : {"submit"}, q : Questions, n : Nat, id : Nat, value : Answers,
            series : Nat, state : States, verdict : Verdicts \cup {None},
            awaited : BOOLEAN]
StarPuts == [kind : {"star"}, q : Questions, n : Nat, value : BOOLEAN,
             state : States, awaited : BOOLEAN]

Binding == [answer : Answers \cup {None}, id : Nat]
Row == [ever : SUBSET Verdicts, bookmarked : BOOLEAN]

\* A read of the session: the rows of its source, once it was served.
AnyRows == {<<>>} \cup UNION {[S -> Row] : S \in SUBSET Questions}
LoadState == [phase : {None, "sent", "served"}, source : SUBSET Questions, rows : AnyRows]

\* The hook's state (its type is of the same name).
SatSessionState ==
  [rows : SUBSET Questions, current : Questions \cup {None},
   bookmarked : SUBSET Questions,
   answers : [Questions -> Answers \cup {None}],
   reveals : [Questions -> Verdicts \cup {None}],
   history : [Questions -> SUBSET Verdicts],
   inFlight : SUBSET Questions,
   attemptBindings : [Questions -> Binding]]

\* Every variable holds a value of its kind, and a question is only open in a
\* session that lists it.
SatTypes ==
  /\ session \in SatSessionState
  /\ session.current # None => session.current \in session.rows
  /\ status \in {"loading", "ready", "error"}
  /\ load \in LoadState
  /\ load.phase = "served" => load.rows \in [load.source -> Row]
  /\ load.phase # None => status = "loading"
  /\ requests \subseteq Submits \cup StarPuts
  /\ attempts \subseteq [id : Nat, q : Questions, verdict : Verdicts, series : Nat]
  /\ bookmarks \subseteq Questions
  /\ used \in [presses : Nat, launches : Nat]
  /\ asked \in [Questions -> [answer : Answers \cup {None}, series : Nat]]

Bound(q) == session.attemptBindings[q]

\* Question q is what id i was made for.
MadeFor(i, q) ==
  \/ Bound(q).answer # None /\ Bound(q).id = i
  \/ \E r \in requests : r.kind = "submit" /\ r.id = i /\ r.q = q
  \/ \E a \in attempts : a.id = i /\ a.q = q

\* An attempt's id is the press that began its series, so it is made once and
\* for one question, and a question's binding holds the id of the series its
\* last press belongs to.
SeriesInv ==
  /\ \A q \in Questions : /\ asked[q].answer = Bound(q).answer
                          /\ asked[q].series = Bound(q).id
                          /\ Bound(q).answer # None => Bound(q).id # 0
  /\ \A r \in requests : r.kind = "submit" => r.series = r.id
  /\ \A a \in attempts : a.series = a.id
  /\ \A a, b \in attempts : a.id = b.id => a = b
  /\ \A q \in Questions, i \in Nat : MadeFor(i, q) =>
       /\ i <= used.presses
       /\ \A p \in Questions : MadeFor(i, p) => p = q

StoredVerdicts(q) == {a.verdict : a \in {x \in attempts : x.q = q}}

\* Every verdict that is shown, on its way or read is one of a stored attempt.
VerdictInv ==
  /\ \A q \in Questions :
       /\ session.reveals[q] # None => session.reveals[q] \in session.history[q]
       /\ session.history[q] \subseteq StoredVerdicts(q)
  /\ \A r \in requests : r.kind = "submit" /\ r.state = "served" =>
       r.verdict \in StoredVerdicts(r.q)
  /\ load.phase = "served" =>
       \A q \in load.source : load.rows[q].ever \subseteq StoredVerdicts(q)

\* A star whose requests did not overlap and were not given up has one request
\* at most.  Until that is served the server has the opposite, and the page
\* what was asked for; a read of the session is only applied to stars without
\* an unserved request.
StarOK(q) ==
  /\ \A r, s \in Stars(q) : r = s
  /\ \A r \in Stars(q) :
       /\ r.awaited
       /\ r.state = "served" => (q \in bookmarks <=> r.value)
       /\ r.state # "served" => (q \in bookmarks <=> ~r.value)
       /\ r.state # "refused" /\ q \in session.rows =>
            (q \in session.bookmarked <=> r.value)
       /\ load.phase = "served" => r.state # "sent"
  /\ q \in session.rows /\ Stars(q) = {} =>
       (q \in session.bookmarked <=> q \in bookmarks)
  /\ load.phase = "served" /\ q \in load.source =>
       (load.rows[q].bookmarked <=> q \in bookmarks)

StarInv == \A q \in Questions \ unsure : StarOK(q)

IInv == SatTypes /\ SeriesInv /\ VerdictInv /\ StarInv

-----------------------------------------------------------------------------
(* The types.                                                              *)

\* The rows of any source are rows, and so are none.
LEMMA SomeRows ==
  /\ <<>> \in AnyRows
  /\ \A S \in SUBSET Questions : [S -> Row] \subseteq AnyRows
BY DEF AnyRows

\* A session that shows what was read, and nothing else.
Fresh(s, S, rows, first) ==
  /\ s \in SatSessionState
  /\ s.rows = S /\ s.current = first
  /\ \A q \in Questions : /\ q \in s.bookmarked <=> q \in S /\ rows[q].bookmarked
                          /\ s.reveals[q] = None
                          /\ q \in S => s.history[q] = rows[q].ever
                          /\ q \notin S => s.history[q] = {}
                          /\ s.attemptBindings[q].answer = None
                          /\ s.attemptBindings[q].id = 0

\* A session just loaded is one (createInitialSatSessionState).
LEMMA FreshSession ==
  ASSUME NEW S \in SUBSET Questions, NEW rows \in [S -> Row],
         NEW first \in Questions \cup {None},
         NEW s, s = createInitialSatSessionState(rows, first)
  PROVE  Fresh(s, S, rows, first)
<1>1. DOMAIN rows = S /\ \A q \in S : rows[q] \in Row
  OBVIOUS
<1>2. /\ s.rows = S /\ s.current = first
      /\ s.bookmarked = {q \in S : rows[q].bookmarked}
      /\ s.answers = [q \in Questions |-> None]
      /\ s.reveals = [q \in Questions |-> None]
      /\ s.history = [q \in Questions |-> IF q \in S THEN rows[q].ever ELSE {}]
      /\ s.inFlight = {}
      /\ s.attemptBindings = [q \in Questions |-> [answer |-> None, id |-> 0]]
  BY <1>1 DEF createInitialSatSessionState
<1>3. s.history \in [Questions -> SUBSET Verdicts]
  BY <1>1, <1>2 DEF Row
<1>4. s.attemptBindings \in [Questions -> Binding]
  BY <1>2 DEF Binding
<1>5. s = [rows |-> s.rows, current |-> s.current, bookmarked |-> s.bookmarked,
           answers |-> s.answers, reveals |-> s.reveals, history |-> s.history,
           inFlight |-> s.inFlight, attemptBindings |-> s.attemptBindings]
  BY DEF createInitialSatSessionState
<1>6. /\ s.answers \in [Questions -> Answers \cup {None}]
      /\ s.reveals \in [Questions -> Verdicts \cup {None}]
      /\ s.bookmarked \in SUBSET Questions /\ s.rows \in SUBSET Questions
      /\ s.inFlight \in SUBSET Questions
  BY <1>2
<1>7. s \in SatSessionState
  BY <1>2, <1>3, <1>4, <1>5, <1>6 DEF SatSessionState
<1>8. \A q \in Questions : s.history[q] = IF q \in S THEN rows[q].ever ELSE {}
  BY <1>2
<1>9. \A q \in Questions : q \in s.bookmarked <=> q \in S /\ rows[q].bookmarked
  BY <1>2
<1>10. \A q \in Questions : s.attemptBindings[q] = [answer |-> None, id |-> 0]
  BY <1>2
<1>11. \A q \in Questions : s.reveals[q] = None
  BY <1>2
<1> QED
  BY <1>2, <1>7, <1>8, <1>9, <1>10, <1>11 DEF Fresh

\* At the start a session is being read, and nothing is asked or stored.
LEMMA TypesInit == SatInit => SatTypes
<1> SUFFICES ASSUME SatInit PROVE SatTypes
  OBVIOUS
<1>1. session \in SatSessionState /\ session.current = None
  <2> DEFINE e == <<>>
             N == None
             S == {}
  <2>1. e \in [S -> Row] /\ S \in SUBSET Questions /\ N \in Questions \cup {None}
    OBVIOUS
  <2>2. session = createInitialSatSessionState(e, N) /\ N = None
    BY DEF SatInit
  <2> HIDE DEF e, N, S
  <2>3. Fresh(session, S, e, N)
    BY <2>1, <2>2, FreshSession
  <2> QED
    BY <2>2, <2>3 DEF Fresh
<1>2. /\ status = "loading" /\ load.phase = "sent"
      /\ load \in LoadState
  BY SomeRows DEF SatInit, Loading, LoadState
<1>3. asked \in [Questions -> [answer : Answers \cup {None}, series : Nat]]
  BY DEF SatInit, Unasked
<1>4. requests = {} /\ attempts = {} /\ bookmarks = {} /\ used = [presses |-> 0, launches |-> 1]
  BY DEF SatInit
<1> QED
  BY <1>1, <1>2, <1>3, <1>4 DEF SatTypes, None

\* Every request is of one of the two kinds.
LEMMA RequestKinds ==
  ASSUME SatTypes, NEW r \in requests
  PROVE  /\ r \in Submits \cup StarPuts /\ r.q \in Questions
         /\ r.state \in States /\ r.awaited \in BOOLEAN
         /\ r.kind = "submit" => r \in Submits
         /\ r.kind # "submit" => r \in StarPuts /\ r.kind = "star" /\ r.value \in BOOLEAN
BY DEF SatTypes, Submits, StarPuts

\* What a request is about.
Alike(r, s) ==
  /\ s.kind = r.kind /\ s.q = r.q /\ s.value = r.value
  /\ r.kind = "submit" => s.id = r.id /\ s.series = r.series

\* Request x is r in another state, awaited or not.
Moved(r, x, st, waits) ==
  x \in Submits \cup StarPuts /\ Alike(r, x) /\ x.state = st /\ x.awaited = waits

\* The service answers it ...
LEMMA RequestAnswered ==
  ASSUME SatTypes, NEW r \in requests, NEW st \in States, NEW x, x = [r EXCEPT !.state = st]
  PROVE  Moved(r, x, st, r.awaited)
<1>1. CASE r \in Submits
  BY <1>1 DEF Submits, States, Alike, Moved
<1>2. CASE r \in StarPuts
  BY <1>2 DEF StarPuts, States, Alike, Moved
<1> QED
  BY <1>1, <1>2, RequestKinds

\* ... with a verdict, if it is a submit ...
LEMMA RequestGraded ==
  ASSUME SatTypes, NEW r \in requests, r.kind = "submit", NEW v \in Verdicts,
         NEW x, x = [r EXCEPT !.state = "served", !.verdict = v]
  PROVE  Moved(r, x, "served", r.awaited) /\ x.verdict = v
<1>1. r \in Submits
  BY RequestKinds
<1> QED
  BY <1>1 DEF Submits, States, Alike, Moved

\* ... or the page gives it up.
LEMMA RequestDropped ==
  ASSUME SatTypes, NEW r \in requests, NEW x, x = [r EXCEPT !.awaited = FALSE]
  PROVE  Moved(r, x, r.state, FALSE)
<1>1. CASE r \in Submits
  BY <1>1 DEF Submits, States, Alike, Moved
<1>2. CASE r \in StarPuts
  BY <1>2 DEF StarPuts, States, Alike, Moved
<1> QED
  BY <1>1, <1>2, RequestKinds

\* The session after a submit of answer a to q under id i: the id is bound.
BoundTo(n, s, q, a, i) ==
  /\ n \in SatSessionState /\ n.rows = s.rows /\ n.current = s.current
  /\ n.bookmarked = s.bookmarked /\ n.reveals = s.reveals /\ n.history = s.history
  /\ \A p \in Questions \ {q} : n.attemptBindings[p] = s.attemptBindings[p]
  /\ n.attemptBindings[q].answer = a /\ n.attemptBindings[q].id = i

\* The reducer's updates of a session keep its rows and its place.  A submit
\* binds the id it is sent with (submit_started) ...
LEMMA SubmitStarted ==
  ASSUME NEW s \in SatSessionState, NEW q \in Questions, NEW a \in Answers, NEW i \in Nat,
         NEW n, n = submit_started(s, q, a, i)
  PROVE  BoundTo(n, s, q, a, i)
BY DEF BoundTo, SatSessionState, submit_started, Binding

\* The session after verdict v on q: it is shown, and marked, there.
Revealed(n, s, q, v) ==
  /\ n \in SatSessionState /\ n.rows = s.rows /\ n.current = s.current
  /\ n.bookmarked = s.bookmarked /\ n.attemptBindings = s.attemptBindings
  /\ n.reveals[q] = v /\ n.history[q] = s.history[q] \cup {v}
  /\ \A p \in Questions \ {q} : n.reveals[p] = s.reveals[p] /\ n.history[p] = s.history[p]

\* ... its answer reveals a verdict at its own question (submit_succeeded) ...
LEMMA SubmitSucceeded ==
  ASSUME NEW s \in SatSessionState, NEW q \in Questions, NEW v \in Verdicts,
         NEW n, n = submit_succeeded(s, q, v)
  PROVE  Revealed(n, s, q, v)
BY DEF Revealed, SatSessionState, submit_succeeded

\* ... its failure shows nothing (submit_failed) ...
LEMMA SubmitFailed ==
  ASSUME NEW s \in SatSessionState, NEW q \in Questions, NEW n, n = submit_failed(s, q)
  PROVE  /\ n \in SatSessionState /\ n.rows = s.rows /\ n.current = s.current
         /\ n.bookmarked = s.bookmarked /\ n.attemptBindings = s.attemptBindings
         /\ n.reveals = s.reveals /\ n.history = s.history
BY DEF SatSessionState, submit_failed

\* ... and a star is set or cleared if its question is listed (bookmark_patched).
LEMMA BookmarkPatched ==
  ASSUME NEW s \in SatSessionState, NEW q \in Questions, NEW on \in BOOLEAN,
         NEW n, n = bookmark_patched(s, q, on)
  PROVE  /\ n \in SatSessionState /\ n.rows = s.rows /\ n.current = s.current
         /\ n.attemptBindings = s.attemptBindings
         /\ n.reveals = s.reveals /\ n.history = s.history
         /\ q \in s.rows => (q \in n.bookmarked <=> on)
         /\ \A p \in Questions : p # q => (p \in n.bookmarked <=> p \in s.bookmarked)
<1> DEFINE B == IF q \notin s.rows THEN s.bookmarked
                ELSE IF on THEN s.bookmarked \cup {q} ELSE s.bookmarked \ {q}
<1>1. n = [s EXCEPT !.bookmarked = B]
  BY DEF bookmark_patched
<1>2. /\ B \in SUBSET Questions
      /\ q \in s.rows => (q \in B <=> on)
      /\ \A p \in Questions : p # q => (p \in B <=> p \in s.bookmarked)
  BY DEF SatSessionState
<1> HIDE DEF B
<1>3. /\ n \in SatSessionState /\ n.rows = s.rows /\ n.current = s.current
      /\ n.attemptBindings = s.attemptBindings
      /\ n.reveals = s.reveals /\ n.history = s.history /\ n.bookmarked = B
  BY <1>1, <1>2 DEF SatSessionState
<1> QED
  BY <1>2, <1>3

\* What the service says of a question is a row.
LEMMA RowsRead ==
  ASSUME SatTypes, list_session
  PROVE  /\ load'.phase = "served" /\ load'.source = load.source
         /\ load' \in LoadState
         /\ load'.rows \in [load.source -> Row]
         /\ \A q \in load.source : /\ load'.rows[q].ever = StoredVerdicts(q)
                                   /\ load'.rows[q].bookmarked <=> q \in bookmarks
<1> DEFINE rows == [q \in load.source |->
                      [ever |-> {a.verdict : a \in {x \in attempts : x.q = q}},
                       bookmarked |-> q \in bookmarks]]
<1>1. load' = [load EXCEPT !.phase = "served", !.rows = rows]
  BY DEF list_session
<1>2. rows \in [load.source -> Row] /\ load.source \in SUBSET Questions
  BY DEF SatTypes, LoadState, Row
<1>3. \A q \in load.source : /\ rows[q].ever = StoredVerdicts(q)
                             /\ rows[q].bookmarked <=> q \in bookmarks
  BY DEF StoredVerdicts
<1> HIDE DEF rows
<1> QED
  BY <1>1, <1>2, <1>3, SomeRows DEF SatTypes, LoadState

-----------------------------------------------------------------------------
(* What each step does, said of one question or one request at a time.     *)

\* loaded: the session is what was read, and no id is bound.
LEMMA LoadedGives ==
  ASSUME SatTypes, loaded
  PROVE  /\ load.phase = "served" /\ load.rows \in [load.source -> Row]
         /\ load.source \in SUBSET Questions
         /\ session' \in SatSessionState /\ session'.rows = load.source
         /\ session'.current # None => session'.current \in load.source
         /\ \A q \in Questions :
              /\ q \in session'.bookmarked <=> q \in load.source /\ load.rows[q].bookmarked
              /\ session'.reveals[q] = None
              /\ q \in load.source => session'.history[q] = load.rows[q].ever
              /\ q \notin load.source => session'.history[q] = {}
              /\ session'.attemptBindings[q].answer = None
              /\ session'.attemptBindings[q].id = 0
              /\ asked'[q].answer = None /\ asked'[q].series = 0
         /\ asked' \in [Questions -> [answer : Answers \cup {None}, series : Nat]]
         /\ status' = "ready" /\ load'.phase = None /\ load' \in LoadState
         /\ UNCHANGED <<requests, attempts, bookmarks, used, unsure>>
<1>1. PICK first \in IF load.source = {} THEN {None} ELSE load.source :
        session' = createInitialSatSessionState(load.rows, first)
  BY DEF loaded
<1>2. load.source \in SUBSET Questions /\ load.rows \in [load.source -> Row]
  BY DEF loaded, SatTypes, LoadState
<1>3. first \in Questions \cup {None} /\ (first # None => first \in load.source)
  BY <1>1, <1>2
<1>4. session' = createInitialSatSessionState(load.rows, first)
  BY <1>1
<1>5. Fresh(session', load.source, load.rows, first)
  BY <1>2, <1>3, <1>4, FreshSession
<1>6. /\ asked' \in [Questions -> [answer : Answers \cup {None}, series : Nat]]
      /\ \A q \in Questions : asked'[q].answer = None /\ asked'[q].series = 0
  BY DEF loaded, Unasked
<1>7. load'.phase = None /\ load' \in LoadState
  BY SomeRows DEF loaded, NoLoad, LoadState
<1>8. /\ load.phase = "served" /\ status' = "ready"
      /\ UNCHANGED <<requests, attempts, bookmarks, used, unsure>>
  BY DEF loaded
<1> QED
  BY <1>2, <1>3, <1>5, <1>6, <1>7, <1>8 DEF Fresh

\* A submit just sent.
NewSubmit(r, q, i, n) ==
  r.kind = "submit" /\ r.q = q /\ r.id = i /\ r.series = n /\ r.state = "sent"

\* submit: the id of the binding is used again for the same answer, and the
\* request and the binding carry it.
LEMMA SubmitSends ==
  ASSUME SatTypes, submit
  PROVE  \E q \in Questions, a \in Answers, i \in Nat, n \in Nat :
           /\ i = IF Bound(q).answer = a /\ Bound(q).id # 0 THEN Bound(q).id
                  ELSE used.presses + 1
           /\ n = IF asked[q].answer = a THEN asked[q].series ELSE used.presses + 1
           /\ BoundTo(session', session, q, a, i)
           /\ asked' = [asked EXCEPT ![q] = [answer |-> a, series |-> n]]
           /\ used'.presses = used.presses + 1
           /\ used' \in [presses : Nat, launches : Nat]
           /\ \E r \in Submits : requests' = requests \cup {r} /\ NewSubmit(r, q, i, n)
           /\ UNCHANGED <<status, load, attempts, bookmarks, unsure>>
<1> DEFINE q == Current
           a == session.answers[q]
           press == used.presses + 1
           reused == selectReusableAttemptId(session, q, a)
           i == IF reused # 0 THEN reused ELSE press
           n == IF asked[q].answer = a THEN asked[q].series ELSE press
           r == [kind |-> "submit", q |-> q, n |-> press, id |-> i,
                 value |-> a, series |-> n, state |-> "sent",
                 verdict |-> None, awaited |-> TRUE]
<1>1. /\ session \in SatSessionState /\ used \in [presses : Nat, launches : Nat]
      /\ asked \in [Questions -> [answer : Answers \cup {None}, series : Nat]]
  BY DEF SatTypes
<1>2. q \in Questions /\ a \in Answers
  BY <1>1 DEF submit, EnterChecks, Current, SatSessionState
<1>3. /\ session' = submit_started(session, q, a, i)
      /\ requests' = requests \cup {r}
      /\ asked' = [asked EXCEPT ![q] = [answer |-> a, series |-> n]]
      /\ used' = [used EXCEPT !.presses = @ + 1]
      /\ UNCHANGED <<status, load, attempts, bookmarks, unsure>>
  BY DEF submit
<1> HIDE DEF q, a
<1>4. press \in Nat /\ n \in Nat
  BY <1>1, <1>2
<1>5. /\ i \in Nat
      /\ i = IF Bound(q).answer = a /\ Bound(q).id # 0 THEN Bound(q).id ELSE press
  BY <1>1, <1>2, <1>4 DEF selectReusableAttemptId, Bound, SatSessionState, Binding
<1> HIDE DEF i, n, reused
<1>6. r \in Submits /\ NewSubmit(r, q, i, n)
  BY <1>2, <1>4, <1>5 DEF Submits, States, NewSubmit
<1>7. used'.presses = press /\ used' \in [presses : Nat, launches : Nat]
  BY <1>1, <1>3
<1> HIDE DEF r
<1>8. BoundTo(session', session, q, a, i)
  <2>1. session' = submit_started(session, q, a, i)
    BY <1>3
  <2> QED
    BY <1>1, <1>2, <1>5, <2>1, SubmitStarted
<1>9. n = IF asked[q].answer = a THEN asked[q].series ELSE press
  BY DEF n
<1> QED
  BY <1>2, <1>3, <1>4, <1>5, <1>6, <1>7, <1>8, <1>9

\* toggleBookmark: the open question's star is patched, and a request asks for
\* the same.
LEMMA ToggleSends ==
  ASSUME SatTypes, toggleBookmark
  PROVE  \E q \in Questions, r \in StarPuts :
           /\ q \in session.rows /\ load.phase = None
           /\ r.kind = "star" /\ r.q = q /\ r.state = "sent" /\ r.awaited
           /\ r.value <=> q \notin session.bookmarked
           /\ session' \in SatSessionState
           /\ session'.rows = session.rows /\ session'.current = session.current
           /\ session'.attemptBindings = session.attemptBindings
           /\ session'.reveals = session.reveals /\ session'.history = session.history
           /\ q \in session'.bookmarked <=> r.value
           /\ \A p \in Questions : p # q =>
                (p \in session'.bookmarked <=> p \in session.bookmarked)
           /\ requests' = requests \cup {r}
           /\ unsure' = IF Stars(q) = {} THEN unsure ELSE unsure \cup {q}
           /\ used'.presses = used.presses + 1
           /\ used' \in [presses : Nat, launches : Nat]
           /\ UNCHANGED <<status, load, attempts, bookmarks, asked>>
<1> DEFINE q == Current
           on == q \notin session.bookmarked
           r == [kind |-> "star", q |-> q, n |-> used.presses + 1,
                 value |-> on, state |-> "sent", awaited |-> TRUE]
<1>1. session \in SatSessionState /\ used \in [presses : Nat, launches : Nat]
  BY DEF SatTypes
<1>2. q \in Questions /\ q \in session.rows /\ load.phase = None
  BY <1>1 DEF toggleBookmark, Current, SatSessionState, SatTypes
<1>3. /\ session' = bookmark_patched(session, q, on)
      /\ requests' = requests \cup {r}
      /\ unsure' = IF Stars(q) = {} THEN unsure ELSE unsure \cup {q}
      /\ used' = [used EXCEPT !.presses = @ + 1]
      /\ UNCHANGED <<status, load, attempts, bookmarks, asked>>
  BY DEF toggleBookmark
<1> HIDE DEF q
<1>4. on \in BOOLEAN /\ (on <=> q \notin session.bookmarked)
  OBVIOUS
<1> HIDE DEF on
<1>5. /\ r \in StarPuts /\ r.kind = "star" /\ r.q = q /\ r.state = "sent" /\ r.awaited
      /\ r.value = on
  BY <1>1, <1>2, <1>4 DEF StarPuts, States
<1>6. used'.presses = used.presses + 1 /\ used' \in [presses : Nat, launches : Nat]
  BY <1>1, <1>3
<1> HIDE DEF r
<1>7. /\ session' \in SatSessionState
      /\ session'.rows = session.rows /\ session'.current = session.current
      /\ session'.attemptBindings = session.attemptBindings
      /\ session'.reveals = session.reveals /\ session'.history = session.history
      /\ q \in session'.bookmarked <=> on
      /\ \A p \in Questions : p # q =>
           (p \in session'.bookmarked <=> p \in session.bookmarked)
  <2>1. session' = bookmark_patched(session, q, on)
    BY <1>3
  <2> QED
    BY <1>1, <1>2, <1>4, <2>1, BookmarkPatched
<1> QED
  BY <1>2, <1>3, <1>4, <1>5, <1>6, <1>7

\* A request is answered, given up or forgotten: it is gone, or replaced by one
\* about the same.
Becomes(r, x) ==
  /\ x \in Submits \cup StarPuts /\ Alike(r, x)
  /\ requests' \in {requests \ {r}, (requests \ {r}) \cup {x}}

\* submit_served: one attempt at r's question has r's id, stored before or now.
LEMMA SubmitIsServed ==
  ASSUME SatTypes, SeriesInv, NEW r \in requests, submit_served(r)
  PROVE  \E a \in [id : Nat, q : Questions, verdict : Verdicts, series : Nat], x \in Submits \cup StarPuts :
           /\ r.kind = "submit" /\ a.id = r.id /\ a.q = r.q /\ a.series = a.id
           /\ a \in attempts \/ \A b \in attempts : b.id # r.id
           /\ attempts' = attempts \cup {a}
           /\ Becomes(r, x) /\ x.verdict = a.verdict
           /\ UNCHANGED <<status, session, load, bookmarks, used, asked, unsure>>
<1> DEFINE a == Stored(r)
           x == [r EXCEPT !.state = "served", !.verdict = a.verdict]
           A == [id : Nat, q : Questions, verdict : Verdicts, series : Nat]
<1>1. r.kind = "submit" /\ r \in Submits /\ r.id \in Nat /\ r.q \in Questions
  BY RequestKinds DEF submit_served, Submits
<1>2. /\ attempts' = attempts \cup {a}
      /\ requests' = (requests \ {r}) \cup (IF r.awaited THEN {x} ELSE {})
      /\ UNCHANGED <<status, session, load, bookmarks, used, asked, unsure>>
  BY DEF submit_served, Answered
<1>5. /\ a \in A /\ a.id = r.id /\ a.q = r.q /\ a.series = a.id
      /\ a \in attempts \/ \A b \in attempts : b.id # r.id
  <2>1. CASE {b \in attempts : b.id = r.id} # {}
    <3>1. a \in attempts /\ a.id = r.id
      BY <2>1 DEF Stored
    <3> HIDE DEF a
    <3>2. a \in A /\ a.q \in Questions
      BY <3>1 DEF SatTypes
    <3>3. MadeFor(r.id, r.q) /\ MadeFor(r.id, a.q)
      BY <1>1, <3>1 DEF MadeFor
    <3>4. a.q = r.q
      BY <1>1, <3>2, <3>3 DEF SeriesInv
    <3> QED
      BY <3>1, <3>2, <3>4 DEF SeriesInv
  <2>2. CASE {b \in attempts : b.id = r.id} = {}
    <3>1. a = [id |-> r.id, q |-> r.q, verdict |-> Graded(r.value), series |-> r.series]
      BY <2>2 DEF Stored
    <3>2. Graded(r.value) \in Verdicts /\ r.series = r.id
      BY <1>1 DEF Graded, Verdicts, SeriesInv
    <3>3. \A b \in attempts : b.id # r.id
      BY <2>2
    <3> HIDE DEF a
    <3> QED
      BY <1>1, <3>1, <3>2, <3>3
  <2> QED
    BY <2>1, <2>2
<1> HIDE DEF a
<1>6. x \in Submits \cup StarPuts /\ Alike(r, x) /\ x.verdict = a.verdict
  <2> DEFINE v == a.verdict
  <2>1. v \in Verdicts /\ x = [r EXCEPT !.state = "served", !.verdict = v]
    BY <1>5
  <2> HIDE DEF x, v
  <2>2. Moved(r, x, "served", r.awaited) /\ x.verdict = v
    BY <1>1, <2>1, RequestGraded
  <2> QED
    BY <2>2 DEF Moved, v
<1> HIDE DEF x
<1>7. Becomes(r, x)
  BY <1>2, <1>6 DEF Becomes
<1> QED
  BY <1>1, <1>2, <1>5, <1>6, <1>7

\* bookmark_served and refused: the star is stored, or nothing is.
LEMMA StarIsServed ==
  ASSUME SatTypes, NEW r \in requests, bookmark_served(r) \/ refused(r)
  PROVE  \E x \in Submits \cup StarPuts :
           /\ Becomes(r, x) /\ r.state = "sent" /\ x.awaited = r.awaited
           /\ r.awaited => x \in requests'
           /\ \/ /\ r.kind = "star" /\ x.state = "served"
                 /\ bookmarks' = IF r.value THEN bookmarks \cup {r.q} ELSE bookmarks \ {r.q}
              \/ x.state = "refused" /\ UNCHANGED bookmarks
           /\ UNCHANGED <<status, session, load, attempts, used, asked, unsure>>
<1>1. CASE bookmark_served(r)
  <2> DEFINE x == [r EXCEPT !.state = "served"]
  <2>1. x \in Submits \cup StarPuts /\ Alike(r, x) /\ x.state = "served" /\ x.awaited = r.awaited
    BY RequestAnswered DEF States, Moved
  <2>2. /\ requests' = (requests \ {r}) \cup (IF r.awaited THEN {x} ELSE {})
        /\ r.kind = "star" /\ r.state = "sent"
        /\ bookmarks' = IF r.value THEN bookmarks \cup {r.q} ELSE bookmarks \ {r.q}
        /\ UNCHANGED <<status, session, load, attempts, used, asked, unsure>>
    BY <1>1 DEF bookmark_served, Answered
  <2> HIDE DEF x
  <2>3. Becomes(r, x) /\ (r.awaited => x \in requests')
    BY <2>1, <2>2 DEF Becomes
  <2> QED
    BY <2>1, <2>2, <2>3
<1>2. CASE refused(r)
  <2> DEFINE x == [r EXCEPT !.state = "refused"]
  <2>1. x \in Submits \cup StarPuts /\ Alike(r, x) /\ x.state = "refused" /\ x.awaited = r.awaited
    BY RequestAnswered DEF States, Moved
  <2>2. /\ requests' = (requests \ {r}) \cup (IF r.awaited THEN {x} ELSE {})
        /\ r.state = "sent" /\ UNCHANGED bookmarks
        /\ UNCHANGED <<status, session, load, attempts, used, asked, unsure>>
    BY <1>2 DEF refused, Answered
  <2> HIDE DEF x
  <2>3. Becomes(r, x) /\ (r.awaited => x \in requests')
    BY <2>1, <2>2 DEF Becomes
  <2> QED
    BY <2>1, <2>2, <2>3
<1> QED
  BY <1>1, <1>2

\* The session as it was but for the stars.
ButForStars(n, s) ==
  /\ n \in SatSessionState /\ n.rows = s.rows /\ n.current = s.current
  /\ n.attemptBindings = s.attemptBindings
  /\ n.reveals = s.reveals /\ n.history = s.history

\* A request that failed: a star goes back to what it was before the press, if
\* its question is listed (rolled_back).
RolledBack(n, s, r) ==
  /\ ButForStars(n, s)
  /\ r.kind = "submit" => n.bookmarked = s.bookmarked
  /\ r.kind = "star" /\ r.q \in s.rows => (r.q \in n.bookmarked <=> ~r.value)
  /\ \A p \in Questions : p # r.q => (p \in n.bookmarked <=> p \in s.bookmarked)

\* rolled_back does that.
LEMMA RollBack ==
  ASSUME SatTypes, NEW r \in requests, NEW n, n = rolled_back(r)
  PROVE  RolledBack(n, session, r)
<1>1. session \in SatSessionState /\ r.q \in Questions
  BY RequestKinds DEF SatTypes
<1>2. CASE r.kind = "submit"
  <2>1. n = submit_failed(session, r.q)
    BY <1>2 DEF rolled_back
  <2> QED
    BY <1>1, <1>2, <2>1, SubmitFailed DEF RolledBack, ButForStars
<1>3. CASE r.kind # "submit"
  <2>1. n = bookmark_patched(session, r.q, ~r.value) /\ r.kind = "star" /\ (~r.value) \in BOOLEAN
    <3>1. r.kind = "star" /\ r.value \in BOOLEAN
      BY <1>3, RequestKinds
    <3>2. n = bookmark_patched(session, r.q, ~r.value)
      BY <1>3 DEF rolled_back
    <3> QED
      BY <3>1, <3>2
  <2> DEFINE on == ~r.value
             q == r.q
  <2>2. on \in BOOLEAN /\ q \in Questions /\ n = bookmark_patched(session, q, on)
    BY <1>1, <2>1
  <2> HIDE DEF on, q
  <2>3. /\ n \in SatSessionState /\ n.rows = session.rows /\ n.current = session.current
        /\ n.attemptBindings = session.attemptBindings
        /\ n.reveals = session.reveals /\ n.history = session.history
        /\ q \in session.rows => (q \in n.bookmarked <=> on)
        /\ \A p \in Questions : p # q => (p \in n.bookmarked <=> p \in session.bookmarked)
    BY <1>1, <2>2, BookmarkPatched
  <2> QED
    BY <2>1, <2>3 DEF RolledBack, ButForStars, on, q
<1> QED
  BY <1>2, <1>3

\* answered: a refusal is rolled back, a verdict shown, a star left as it is.
LEMMA AnswerApplied ==
  ASSUME SatTypes, VerdictInv, NEW r \in requests, answered(r)
  PROVE  /\ requests' = requests \ {r} /\ r.awaited
         /\ UNCHANGED <<status, load, attempts, bookmarks, used, asked, unsure>>
         /\ \/ r.state = "refused" /\ RolledBack(session', session, r)
            \/ /\ r.state = "served" /\ r.kind = "submit"
               /\ r.verdict \in StoredVerdicts(r.q)
               /\ Revealed(session', session, r.q, r.verdict)
            \/ r.state = "served" /\ r.kind = "star" /\ session' = session
<1>1. /\ requests' = requests \ {r} /\ r.awaited /\ r.state \in {"served", "refused"}
      /\ UNCHANGED <<status, load, attempts, bookmarks, used, asked, unsure>>
  BY DEF answered
<1>2. CASE r.state = "refused"
  <2>1. session' = rolled_back(r)
    BY <1>2 DEF answered
  <2> QED
    BY <1>1, <1>2, <2>1, RollBack
<1>3. CASE r.state = "served" /\ r.kind = "submit"
  <2> DEFINE q == r.q
             v == r.verdict
  <2>1. session' = submit_succeeded(session, q, v)
    BY <1>3 DEF answered
  <2>2. v \in StoredVerdicts(q) /\ q \in Questions /\ session \in SatSessionState
    BY <1>3, RequestKinds DEF VerdictInv, SatTypes
  <2>3. v \in Verdicts
    BY <2>2 DEF StoredVerdicts, SatTypes
  <2> HIDE DEF q, v
  <2>4. Revealed(session', session, q, v)
    BY <2>1, <2>2, <2>3, SubmitSucceeded
  <2> QED
    BY <1>1, <1>3, <2>2, <2>4 DEF q, v
<1>4. CASE r.state = "served" /\ r.kind # "submit"
  <2>1. session' = session
    BY <1>4 DEF answered
  <2> QED
    BY <1>1, <1>4, <2>1, RequestKinds
<1> QED
  BY <1>1, <1>2, <1>3, <1>4

\* given_up: rolled back, although the request may be served, or was.
LEMMA GivenUp ==
  ASSUME SatTypes, NEW r \in requests, given_up(r)
  PROVE  /\ \E x \in Submits \cup StarPuts :
              /\ Becomes(r, x) /\ x.state = r.state /\ r.state \in {"sent", "served"}
              /\ r.state = "served" => requests' = requests \ {r}
         /\ RolledBack(session', session, r)
         /\ unsure' = IF r.kind = "star" THEN unsure \cup {r.q} ELSE unsure
         /\ UNCHANGED <<status, load, attempts, bookmarks, used, asked>>
<1> DEFINE x == [r EXCEPT !.awaited = FALSE]
<1>1. /\ requests' = (requests \ {r}) \cup (IF r.state = "sent" THEN {x} ELSE {})
      /\ session' = rolled_back(r) /\ r.state \in {"sent", "served"}
      /\ unsure' = IF r.kind = "star" THEN unsure \cup {r.q} ELSE unsure
      /\ UNCHANGED <<status, load, attempts, bookmarks, used, asked>>
  BY DEF given_up
<1>2. Moved(r, x, r.state, FALSE)
  BY RequestDropped
<1> HIDE DEF x
<1>3. /\ Becomes(r, x) /\ x \in Submits \cup StarPuts /\ x.state = r.state
      /\ r.state = "served" => requests' = requests \ {r}
  BY <1>1, <1>2 DEF Becomes, Moved
<1>4. RolledBack(session', session, r)
  BY <1>1, RollBack
<1> QED
  BY <1>1, <1>3, <1>4

\* The session as it was, but for the place and the answers not submitted.
Elsewhere(n, s) ==
  /\ n \in SatSessionState /\ n.rows = s.rows /\ n.bookmarked = s.bookmarked
  /\ n.current # None => n.current \in n.rows
  /\ n.attemptBindings = s.attemptBindings
  /\ n.reveals = s.reveals /\ n.history = s.history

\* goTo and answer.
LEMMA PageMoves ==
  ASSUME SatTypes,
         (\E q \in Questions : goTo(q)) \/ (\E value \in Answers : answer(value))
  PROVE  /\ Elsewhere(session', session)
         /\ UNCHANGED <<status, load, requests, attempts, bookmarks, used, asked, unsure>>
<1>1. session \in SatSessionState /\ (session.current # None => session.current \in session.rows)
  BY DEF SatTypes
<1>2. CASE \E q \in Questions : goTo(q)
  BY <1>1, <1>2 DEF goTo, Elsewhere, SatSessionState
<1>3. ASSUME NEW value \in Answers, answer(value)
      PROVE  /\ Elsewhere(session', session)
             /\ UNCHANGED <<status, load, requests, attempts, bookmarks, used, asked, unsure>>
  <2>1. Current \in Questions
    BY <1>1, <1>3 DEF answer, Current, SatSessionState
  <2>2. session' = [session EXCEPT !.answers = [session.answers EXCEPT ![Current] = value]]
    BY <1>1, <1>3, <2>1 DEF answer, SatSessionState
  <2>3. [session.answers EXCEPT ![Current] = value] \in [Questions -> Answers \cup {None}]
    BY <1>1, <2>1 DEF SatSessionState
  <2>4. Elsewhere(session', session)
    BY <1>1, <2>2, <2>3 DEF Elsewhere, SatSessionState
  <2> QED
    BY <1>3, <2>4 DEF answer
<1> QED
  BY <1>2, <1>3

\* launch, reload and load_failed: a read begins or fails.
LEMMA ReadMoves ==
  ASSUME SatTypes, launch \/ reload \/ load_failed
  PROVE  /\ load'.phase \in {None, "sent"} /\ load' \in LoadState
         /\ load'.phase # None => status' = "loading"
         /\ status' \in {"loading", "ready", "error"}
         /\ used' \in [presses : Nat, launches : Nat] /\ used'.presses = used.presses
         /\ UNCHANGED <<session, requests, attempts, bookmarks, asked, unsure>>
<1>1. load'.phase \in {None, "sent"} /\ load' \in LoadState
  BY SomeRows DEF launch, reload, load_failed, Reads, Loading, SatTypes, LoadState
<1>2. load'.phase # None => status' = "loading"
  BY DEF launch, reload, load_failed, Reads, Loading
<1>3. used' \in [presses : Nat, launches : Nat] /\ used'.presses = used.presses
  BY DEF launch, reload, load_failed, Reads, SatTypes
<1>4. /\ UNCHANGED <<session, requests, attempts, bookmarks, asked, unsure>>
      /\ status' \in {"loading", "ready", "error"}
  BY DEF launch, reload, load_failed, Reads
<1> QED
  BY <1>1, <1>2, <1>3, <1>4

-----------------------------------------------------------------------------
(* The invariant is kept.                                                  *)

\* The steps, by what they do.
LEMMA StepKinds ==
  ASSUME SatNext
  PROVE  \/ launch \/ reload \/ load_failed
         \/ list_session
         \/ loaded
         \/ \E q \in Questions : goTo(q)
         \/ \E value \in Answers : answer(value)
         \/ submit
         \/ toggleBookmark
         \/ \E r \in requests : submit_served(r)
         \/ \E r \in requests : bookmark_served(r) \/ refused(r)
         \/ \E r \in requests : answered(r)
         \/ \E r \in requests : given_up(r)
BY DEF SatNext

\* Every step keeps the types.
LEMMA TypesSteps ==
  ASSUME SatTypes, SeriesInv, VerdictInv, SatNext
  PROVE  SatTypes'
<1>1. CASE launch \/ reload \/ load_failed
  BY <1>1, ReadMoves DEF SatTypes, None
<1>2. CASE list_session
  <2>1. status = "loading"
    BY <1>2 DEF list_session, SatTypes, None
  <2> QED
    BY <1>2, <2>1, RowsRead DEF list_session, SatTypes, LoadState
<1>3. CASE loaded
  BY <1>3, LoadedGives DEF SatTypes, None
<1>4. CASE \/ \E q \in Questions : goTo(q)
           \/ \E value \in Answers : answer(value)
  BY <1>4, PageMoves DEF SatTypes, Elsewhere
<1>5. CASE submit
  <2>1. PICK q \in Questions, a \in Answers, i \in Nat, n \in Nat :
           /\ BoundTo(session', session, q, a, i)
           /\ asked' = [asked EXCEPT ![q] = [answer |-> a, series |-> n]]
           /\ used' \in [presses : Nat, launches : Nat]
           /\ \E r \in Submits : requests' = requests \cup {r} /\ NewSubmit(r, q, i, n)
           /\ UNCHANGED <<status, load, attempts, bookmarks, unsure>>
    BY <1>5, SubmitSends
  <2>2. requests' \subseteq Submits \cup StarPuts
    BY <2>1 DEF SatTypes
  <2>3. asked' \in [Questions -> [answer : Answers \cup {None}, series : Nat]]
    BY <2>1 DEF SatTypes
  <2> QED
    BY <2>1, <2>2, <2>3 DEF SatTypes, BoundTo
<1>6. CASE toggleBookmark
  <2>1. PICK q \in Questions, r \in StarPuts :
           /\ session' \in SatSessionState
           /\ session'.rows = session.rows /\ session'.current = session.current
           /\ requests' = requests \cup {r}
           /\ used' \in [presses : Nat, launches : Nat]
           /\ UNCHANGED <<status, load, attempts, bookmarks, asked>>
    BY <1>6, ToggleSends
  <2> QED
    BY <2>1 DEF SatTypes
<1>7. CASE \E r \in requests : submit_served(r)
  <2>1. PICK r \in requests, a \in [id : Nat, q : Questions, verdict : Verdicts, series : Nat], x \in Submits \cup StarPuts :
           /\ attempts' = attempts \cup {a} /\ Becomes(r, x)
           /\ UNCHANGED <<status, session, load, bookmarks, used, asked, unsure>>
    BY <1>7, SubmitIsServed
  <2> QED
    BY <2>1 DEF SatTypes, Becomes
<1>8. CASE \E r \in requests : bookmark_served(r) \/ refused(r)
  <2>1. PICK r \in requests, x \in Submits \cup StarPuts :
           /\ Becomes(r, x)
           /\ bookmarks' \in {bookmarks, bookmarks \cup {r.q}, bookmarks \ {r.q}}
           /\ UNCHANGED <<status, session, load, attempts, used, asked, unsure>>
    BY <1>8, StarIsServed
  <2>2. r.q \in Questions
    BY RequestKinds
  <2> QED
    BY <2>1, <2>2 DEF SatTypes, Becomes
<1>9. CASE \E r \in requests : answered(r)
  BY <1>9, AnswerApplied DEF SatTypes, RolledBack, ButForStars, Revealed
<1>10. CASE \E r \in requests : given_up(r)
  <2>1. PICK r \in requests, x \in Submits \cup StarPuts :
           /\ Becomes(r, x) /\ RolledBack(session', session, r)
           /\ UNCHANGED <<status, load, attempts, bookmarks, used, asked>>
    BY <1>10, GivenUp
  <2> QED
    BY <2>1 DEF SatTypes, Becomes, RolledBack, ButForStars
<1> QED
  BY <1>1, <1>2, <1>3, <1>4, <1>5, <1>6, <1>7, <1>8, <1>9, <1>10, StepKinds

\* A step that makes no id, binds none and stores no attempt leaves the series.
LEMMA SeriesKept ==
  ASSUME SatTypes, SatTypes', SeriesInv,
         session'.attemptBindings = session.attemptBindings, UNCHANGED <<asked, attempts>>,
         used'.presses >= used.presses,
         \A x \in requests' : x.kind = "submit" =>
           \E r \in requests : r.kind = "submit" /\ Alike(r, x)
  PROVE  SeriesInv'
<1>1. \A q \in Questions : Bound(q)' = Bound(q)
  BY DEF Bound
<1>2. ASSUME NEW x \in requests', x.kind = "submit"
      PROVE  \E r \in requests : r.kind = "submit" /\ x.id = r.id /\ x.series = r.series /\ x.q = r.q
  BY <1>2 DEF Alike
<1>3. \A q \in Questions, i \in Nat : MadeFor(i, q)' => MadeFor(i, q)
  BY <1>1, <1>2 DEF MadeFor
<1>4. used'.presses \in Nat /\ used.presses \in Nat
  BY DEF SatTypes
<1>5. \A q \in Questions, i \in Nat : MadeFor(i, q)' =>
       /\ i <= used'.presses
       /\ \A p \in Questions : MadeFor(i, p)' => p = q
  BY <1>3, <1>4 DEF SeriesInv
<1>6. \A q \in Questions : /\ asked'[q].answer = Bound(q)'.answer
                           /\ asked'[q].series = Bound(q)'.id
                           /\ Bound(q)'.answer # None => Bound(q)'.id # 0
  BY <1>1 DEF SeriesInv
<1>7. \A x \in requests' : x.kind = "submit" => x.series = x.id
  BY <1>2 DEF SeriesInv
<1> QED
  BY <1>5, <1>6, <1>7 DEF SeriesInv

\* A new session binds nothing; the ids of the old one are not made again.
LEMMA SeriesLoaded ==
  ASSUME SatTypes, SeriesInv, loaded
  PROVE  SeriesInv'
<1>1. /\ UNCHANGED <<requests, attempts, used>>
      /\ \A q \in Questions : /\ Bound(q)'.answer = None /\ Bound(q)'.id = 0
                              /\ asked'[q].answer = None /\ asked'[q].series = 0
  BY LoadedGives DEF Bound
<1>2. \A q \in Questions, i \in Nat : MadeFor(i, q)' => MadeFor(i, q)
  BY <1>1 DEF MadeFor
<1>3. \A q \in Questions, i \in Nat : MadeFor(i, q)' =>
       /\ i <= used'.presses
       /\ \A p \in Questions : MadeFor(i, p)' => p = q
  BY <1>1, <1>2 DEF SeriesInv
<1> QED
  BY <1>1, <1>3 DEF SeriesInv

\* A press goes on with the series of its question, or begins one.
LEMMA SeriesSubmit ==
  ASSUME SatTypes, SatTypes', SeriesInv, submit
  PROVE  SeriesInv'
<1>1. PICK q \in Questions, a \in Answers, i \in Nat, n \in Nat :
        /\ i = IF Bound(q).answer = a /\ Bound(q).id # 0 THEN Bound(q).id
               ELSE used.presses + 1
        /\ n = IF asked[q].answer = a THEN asked[q].series ELSE used.presses + 1
        /\ BoundTo(session', session, q, a, i)
        /\ asked' = [asked EXCEPT ![q] = [answer |-> a, series |-> n]]
        /\ used'.presses = used.presses + 1
        /\ \E r \in Submits : requests' = requests \cup {r} /\ NewSubmit(r, q, i, n)
        /\ UNCHANGED attempts
  BY SubmitSends
<1>2. used.presses \in Nat /\ a # None
  BY DEF SatTypes, Answers, None
<1>3. /\ asked[q].answer = Bound(q).answer /\ asked[q].series = Bound(q).id
      /\ Bound(q).answer # None => Bound(q).id # 0
  BY DEF SeriesInv
<1>4. i = n /\ i # 0
  BY <1>1, <1>2, <1>3
<1>5. MadeFor(i, q) \/ i = used.presses + 1
  BY <1>1, <1>2 DEF MadeFor
<1>6. \A p \in Questions : MadeFor(i, p) => p = q
  BY <1>2, <1>5 DEF SeriesInv
<1>7. /\ Bound(q)'.answer = a /\ Bound(q)'.id = i
      /\ \A p \in Questions : p # q => Bound(p)' = Bound(p)
  BY <1>1 DEF Bound, BoundTo
<1>8. ASSUME NEW p \in Questions, NEW j \in Nat, MadeFor(j, p)'
      PROVE  (j = i /\ p = q) \/ MadeFor(j, p)
  <2>1. \A x \in requests' : x \in requests \/ (x.q = q /\ x.id = i)
    BY <1>1 DEF NewSubmit
  <2> QED
    BY <1>1, <1>7, <1>8, <2>1 DEF MadeFor
<1>9. \A p \in Questions, j \in Nat : MadeFor(j, p)' =>
       /\ j <= used'.presses
       /\ \A o \in Questions : MadeFor(j, o)' => o = p
  <2> SUFFICES ASSUME NEW p \in Questions, NEW j \in Nat, MadeFor(j, p)'
               PROVE  /\ j <= used'.presses
                      /\ \A o \in Questions : MadeFor(j, o)' => o = p
    OBVIOUS
  <2>1. i <= used'.presses
    BY <1>1, <1>2, <1>5 DEF SeriesInv
  <2>2. j <= used'.presses
    BY <1>1, <1>2, <1>8, <2>1 DEF SeriesInv
  <2>3. \A o \in Questions : MadeFor(j, o)' => o = p
    BY <1>6, <1>8 DEF SeriesInv
  <2> QED
    BY <2>2, <2>3
<1>10. \A p \in Questions : /\ asked'[p].answer = Bound(p)'.answer
                            /\ asked'[p].series = Bound(p)'.id
                            /\ Bound(p)'.answer # None => Bound(p)'.id # 0
  <2>1. asked'[q].answer = a /\ asked'[q].series = n /\ \A p \in Questions : p # q => asked'[p] = asked[p]
    BY <1>1 DEF SatTypes
  <2> QED
    BY <1>4, <1>7, <2>1 DEF SeriesInv
<1>11. \A x \in requests' : x.kind = "submit" => x.series = x.id
  BY <1>1, <1>4 DEF SeriesInv, NewSubmit
<1> QED
  BY <1>1, <1>9, <1>10, <1>11 DEF SeriesInv

\* The attempt that is stored has the request's id, or is there already.
LEMMA SeriesServed ==
  ASSUME SatTypes, SatTypes', SeriesInv, NEW r \in requests, submit_served(r)
  PROVE  SeriesInv'
<1>1. PICK a \in [id : Nat, q : Questions, verdict : Verdicts, series : Nat], x \in Submits \cup StarPuts :
        /\ r.kind = "submit" /\ a.id = r.id /\ a.q = r.q /\ a.series = a.id
        /\ a \in attempts \/ \A b \in attempts : b.id # r.id
        /\ attempts' = attempts \cup {a}
        /\ Becomes(r, x)
        /\ UNCHANGED <<session, used, asked>>
  BY SubmitIsServed
<1>2. \A y \in requests' : y.kind = "submit" =>
        \E z \in requests : z.kind = "submit" /\ y.id = z.id /\ y.series = z.series /\ y.q = z.q
  BY <1>1 DEF Becomes, Alike
<1>3. \A q \in Questions : Bound(q)' = Bound(q)
  BY <1>1 DEF Bound
<1>4. \A q \in Questions, i \in Nat : MadeFor(i, q)' => MadeFor(i, q)
  BY <1>1, <1>2, <1>3 DEF MadeFor
<1>5. \A q \in Questions, i \in Nat : MadeFor(i, q)' =>
       /\ i <= used'.presses
       /\ \A p \in Questions : MadeFor(i, p)' => p = q
  BY <1>1, <1>4 DEF SeriesInv
<1>6. \A b, c \in attempts' : b.id = c.id => b = c
  BY <1>1 DEF SeriesInv
<1>7. \A b \in attempts' : b.series = b.id
  BY <1>1 DEF SeriesInv
<1>8. \A y \in requests' : y.kind = "submit" => y.series = y.id
  BY <1>2 DEF SeriesInv
<1>9. \A q \in Questions : /\ asked'[q].answer = Bound(q)'.answer
                           /\ asked'[q].series = Bound(q)'.id
                           /\ Bound(q)'.answer # None => Bound(q)'.id # 0
  BY <1>1, <1>3 DEF SeriesInv
<1> QED
  BY <1>5, <1>6, <1>7, <1>8, <1>9 DEF SeriesInv

\* Every step keeps the series.
LEMMA SeriesSteps ==
  ASSUME SatTypes, SatTypes', SeriesInv, VerdictInv, SatNext
  PROVE  SeriesInv'
<1> USE DEF Alike
<1>0. used.presses \in Nat
  BY DEF SatTypes
<1>1. CASE launch \/ reload \/ load_failed
  BY <1>0, <1>1, ReadMoves, SeriesKept
<1>2. CASE list_session
  BY <1>0, <1>2, SeriesKept DEF list_session
<1>3. CASE loaded
  BY <1>3, SeriesLoaded
<1>4. CASE \/ \E q \in Questions : goTo(q)
           \/ \E value \in Answers : answer(value)
  BY <1>0, <1>4, PageMoves, SeriesKept DEF Elsewhere
<1>5. CASE submit
  BY <1>5, SeriesSubmit
<1>6. CASE toggleBookmark
  <2>1. PICK r \in StarPuts :
           /\ r.kind = "star"
           /\ session'.attemptBindings = session.attemptBindings
           /\ requests' = requests \cup {r}
           /\ used'.presses = used.presses + 1
           /\ UNCHANGED <<attempts, asked>>
    BY <1>6, ToggleSends
  <2> QED
    BY <1>0, <2>1, SeriesKept
<1>7. CASE \E r \in requests : submit_served(r)
  BY <1>7, SeriesServed
<1>8. CASE \E r \in requests : bookmark_served(r) \/ refused(r)
  <2>1. PICK r \in requests, x \in Submits \cup StarPuts : Becomes(r, x) /\ UNCHANGED <<session, attempts, used, asked>>
    BY <1>8, StarIsServed
  <2> QED
    BY <1>0, <2>1, SeriesKept DEF Becomes
<1>9. CASE \E r \in requests : answered(r)
  <2>1. PICK r \in requests : requests' = requests \ {r} /\ UNCHANGED <<attempts, used, asked>>
          /\ session'.attemptBindings = session.attemptBindings
    BY <1>9, AnswerApplied DEF RolledBack, ButForStars, Revealed
  <2> QED
    BY <1>0, <2>1, SeriesKept
<1>10. CASE \E r \in requests : given_up(r)
  <2>1. PICK r \in requests, x \in Submits \cup StarPuts : Becomes(r, x) /\ UNCHANGED <<attempts, used, asked>>
          /\ session'.attemptBindings = session.attemptBindings
    BY <1>10, GivenUp DEF RolledBack, ButForStars
  <2> QED
    BY <1>0, <2>1, SeriesKept DEF Becomes
<1> QED
  BY <1>1, <1>2, <1>3, <1>4, <1>5, <1>6, <1>7, <1>8, <1>9, <1>10, StepKinds

\* Attempts are never taken back: a step that shows no new verdict keeps the
\* verdicts true.
LEMMA VerdictKept ==
  ASSUME VerdictInv, attempts \subseteq attempts',
         session'.reveals = session.reveals, session'.history = session.history,
         load' = load \/ load'.phase # "served",
         \A x \in requests' : x.kind = "submit" /\ x.state = "served" =>
           x \in requests \/ x.verdict \in StoredVerdicts(x.q)'
  PROVE  VerdictInv'
<1>1. \A q : StoredVerdicts(q) \subseteq StoredVerdicts(q)'
  BY DEF StoredVerdicts
<1>2. \A q \in Questions :
        /\ session'.reveals[q] # None => session'.reveals[q] \in session'.history[q]
        /\ session'.history[q] \subseteq StoredVerdicts(q)'
  BY <1>1 DEF VerdictInv
<1>3. \A x \in requests' : x.kind = "submit" /\ x.state = "served" =>
        x.verdict \in StoredVerdicts(x.q)'
  BY <1>1 DEF VerdictInv
<1>4. load'.phase = "served" =>
        \A q \in load'.source : load'.rows[q].ever \subseteq StoredVerdicts(q)'
  BY <1>1 DEF VerdictInv
<1> QED
  BY <1>2, <1>3, <1>4 DEF VerdictInv

\* Every step keeps the verdicts true.
LEMMA VerdictSteps ==
  ASSUME SatTypes, SeriesInv, VerdictInv, SatNext
  PROVE  VerdictInv'
<1>1. CASE launch \/ reload \/ load_failed
  <2>1. load'.phase # "served" /\ UNCHANGED <<session, requests, attempts>>
    BY <1>1, ReadMoves DEF None
  <2> QED
    BY <2>1, VerdictKept
<1>2. CASE list_session
  <2>1. /\ UNCHANGED <<session, requests, attempts>> /\ load'.source = load.source
        /\ \A q \in load.source : load'.rows[q].ever = StoredVerdicts(q)
    BY <1>2, RowsRead DEF list_session
  <2>2. \A q : StoredVerdicts(q)' = StoredVerdicts(q)
    BY <2>1 DEF StoredVerdicts
  <2> QED
    BY <2>1, <2>2 DEF VerdictInv
<1>3. CASE loaded
  <2>1. /\ UNCHANGED <<requests, attempts>> /\ load'.phase = None
        /\ load.phase = "served"
        /\ \A q \in Questions :
              /\ session'.reveals[q] = None
              /\ q \in load.source => session'.history[q] = load.rows[q].ever
              /\ q \notin load.source => session'.history[q] = {}
    BY <1>3, LoadedGives
  <2>2. \A q : StoredVerdicts(q)' = StoredVerdicts(q)
    BY <2>1 DEF StoredVerdicts
  <2> QED
    BY <2>1, <2>2 DEF VerdictInv, None
<1>4. CASE \/ \E q \in Questions : goTo(q)
           \/ \E value \in Answers : answer(value)
  BY <1>4, PageMoves, VerdictKept DEF Elsewhere
<1>5. CASE submit
  <2>1. PICK q, a, i, n, r :
          /\ BoundTo(session', session, q, a, i)
          /\ requests' = requests \cup {r} /\ NewSubmit(r, q, i, n)
          /\ UNCHANGED <<load, attempts>>
    BY <1>5, SubmitSends
  <2> QED
    BY <2>1, VerdictKept DEF BoundTo, NewSubmit
<1>6. CASE toggleBookmark
  <2>1. PICK r \in StarPuts :
           /\ r.kind = "star" /\ requests' = requests \cup {r}
           /\ session'.reveals = session.reveals /\ session'.history = session.history
           /\ UNCHANGED <<load, attempts>>
    BY <1>6, ToggleSends
  <2> QED
    BY <2>1, VerdictKept
<1>7. CASE \E r \in requests : submit_served(r)
  <2>1. PICK r \in requests, a \in [id : Nat, q : Questions, verdict : Verdicts, series : Nat], x \in Submits \cup StarPuts :
           /\ a.q = r.q /\ attempts' = attempts \cup {a}
           /\ Becomes(r, x) /\ x.verdict = a.verdict
           /\ UNCHANGED <<session, load>>
    BY <1>7, SubmitIsServed
  <2>2. x.q = r.q /\ x.verdict \in StoredVerdicts(x.q)'
    BY <2>1 DEF Becomes, Alike, StoredVerdicts
  <2> QED
    BY <2>1, <2>2, VerdictKept DEF Becomes
<1>8. CASE \E r \in requests : bookmark_served(r) \/ refused(r)
  <2>1. PICK r \in requests, x \in Submits \cup StarPuts :
          /\ Becomes(r, x) /\ (r.kind = "star" \/ x.state = "refused")
          /\ UNCHANGED <<session, load, attempts>>
    BY <1>8, StarIsServed
  <2> QED
    BY <2>1, VerdictKept DEF Becomes, Alike
<1>9. CASE \E r \in requests : answered(r)
  <2>1. PICK r \in requests :
           /\ requests' = requests \ {r} /\ UNCHANGED <<load, attempts>>
           /\ \/ session'.reveals = session.reveals /\ session'.history = session.history
              \/ /\ r.verdict \in StoredVerdicts(r.q)
                 /\ Revealed(session', session, r.q, r.verdict)
    BY <1>9, AnswerApplied DEF RolledBack, ButForStars
  <2>2. CASE session'.reveals = session.reveals /\ session'.history = session.history
    BY <2>1, <2>2, VerdictKept
  <2>3. CASE r.verdict \in StoredVerdicts(r.q) /\ Revealed(session', session, r.q, r.verdict)
    <3>1. \A q : StoredVerdicts(q)' = StoredVerdicts(q)
      BY <2>1 DEF StoredVerdicts
    <3>2. \A q \in Questions :
            /\ session'.reveals[q] # None => session'.reveals[q] \in session'.history[q]
            /\ session'.history[q] \subseteq StoredVerdicts(q)
      BY <2>3 DEF VerdictInv, Revealed
    <3> QED
      BY <2>1, <3>1, <3>2 DEF VerdictInv
  <2> QED
    BY <2>1, <2>2, <2>3
<1>10. CASE \E r \in requests : given_up(r)
  <2>1. PICK r \in requests, x \in Submits \cup StarPuts :
           /\ Becomes(r, x) /\ x.state = r.state /\ r.state \in {"sent", "served"}
           /\ r.state = "served" => requests' = requests \ {r}
           /\ RolledBack(session', session, r)
           /\ UNCHANGED <<load, attempts>>
    BY <1>10, GivenUp
  <2> QED
    BY <2>1, VerdictKept DEF Becomes, RolledBack, ButForStars
<1> QED
  BY <1>1, <1>2, <1>3, <1>4, <1>5, <1>6, <1>7, <1>8, <1>9, <1>10, StepKinds

\* A star that no step is about stays right.
LEMMA StarKept ==
  ASSUME NEW q, StarOK(q), Stars(q)' = Stars(q), q \in bookmarks' <=> q \in bookmarks,
         session'.rows = session.rows, q \in session'.bookmarked <=> q \in session.bookmarked,
         load' = load \/ load'.phase # "served"
  PROVE  StarOK(q)'
BY DEF StarOK

\* The star requests that a request's fate leaves alone.
LEMMA OtherStars ==
  ASSUME NEW r \in requests, NEW x, Becomes(r, x), NEW q, r.kind # "star" \/ r.q # q
  PROVE  Stars(q)' = Stars(q)
BY DEF Becomes, Alike, Stars

\* Every step keeps the stars.
LEMMA StarSteps ==
  ASSUME SatTypes, SeriesInv, VerdictInv, StarInv, SatNext
  PROVE  StarInv'
<1>1. CASE launch \/ reload \/ load_failed
  <2>1. load'.phase # "served" /\ UNCHANGED <<session, requests, bookmarks, unsure>>
    BY <1>1, ReadMoves DEF None
  <2>2. \A q : Stars(q)' = Stars(q)
    BY <2>1 DEF Stars
  <2> QED
    BY <2>1, <2>2, StarKept DEF StarInv
<1>2. CASE list_session
  <2>1. /\ UNCHANGED <<session, requests, bookmarks>> /\ load'.source = load.source
        /\ \A q \in load.source : load'.rows[q].bookmarked <=> q \in bookmarks
        /\ unsure' = unsure \cup {q \in Questions : \E r \in Stars(q) : r.state = "sent"}
    BY <1>2, RowsRead DEF list_session
  <2>2. \A q : Stars(q)' = Stars(q)
    BY <2>1 DEF Stars
  <2> QED
    BY <2>1, <2>2 DEF StarInv, StarOK
<1>3. CASE loaded
  <2>1. /\ UNCHANGED <<requests, bookmarks, unsure>> /\ load'.phase = None
        /\ load.phase = "served" /\ session'.rows = load.source
        /\ \A q \in Questions :
             q \in session'.bookmarked <=> q \in load.source /\ load.rows[q].bookmarked
    BY <1>3, LoadedGives
  <2>2. \A q : Stars(q)' = Stars(q)
    BY <2>1 DEF Stars
  <2>3. ASSUME NEW q \in Questions \ unsure PROVE StarOK(q)'
    <3>1. StarOK(q) /\ \A r \in Stars(q) : r.state \in States
      BY RequestKinds DEF StarInv, Stars
    <3> QED
      BY <2>1, <2>2, <3>1 DEF StarOK, States, None
  <2> QED
    BY <2>1, <2>3 DEF StarInv
<1>4. CASE \/ \E q \in Questions : goTo(q)
           \/ \E value \in Answers : answer(value)
  <2>1. Elsewhere(session', session) /\ UNCHANGED <<load, requests, bookmarks, unsure>>
    BY <1>4, PageMoves
  <2>2. \A q : Stars(q)' = Stars(q)
    BY <2>1 DEF Stars
  <2> QED
    BY <2>1, <2>2, StarKept DEF StarInv, Elsewhere
<1>5. CASE submit
  <2>1. PICK q, a, i, n, r :
          /\ BoundTo(session', session, q, a, i)
          /\ requests' = requests \cup {r} /\ NewSubmit(r, q, i, n)
          /\ UNCHANGED <<load, bookmarks, unsure>>
    BY <1>5, SubmitSends
  <2>2. \A p : Stars(p)' = Stars(p)
    BY <2>1 DEF Stars, NewSubmit
  <2> QED
    BY <2>1, <2>2, StarKept DEF StarInv, BoundTo
<1>6. CASE toggleBookmark
  <2>1. PICK q \in Questions, r \in StarPuts :
           /\ q \in session.rows /\ load.phase = None
           /\ r.kind = "star" /\ r.q = q /\ r.state = "sent" /\ r.awaited
           /\ r.value <=> q \notin session.bookmarked
           /\ session'.rows = session.rows
           /\ q \in session'.bookmarked <=> r.value
           /\ \A p \in Questions : p # q =>
                (p \in session'.bookmarked <=> p \in session.bookmarked)
           /\ requests' = requests \cup {r}
           /\ unsure' = IF Stars(q) = {} THEN unsure ELSE unsure \cup {q}
           /\ UNCHANGED <<load, bookmarks>>
    BY <1>6, ToggleSends
  <2>2. ASSUME NEW p \in Questions \ unsure', p # q PROVE StarOK(p)'
    <3>1. Stars(p)' = Stars(p) /\ p \notin unsure
      BY <2>1, <2>2 DEF Stars
    <3> QED
      BY <2>1, <2>2, <3>1, StarKept DEF StarInv
  <2>3. ASSUME q \notin unsure' PROVE StarOK(q)'
    <3>1. Stars(q) = {} /\ Stars(q)' = {r} /\ StarOK(q)
      BY <2>1, <2>3 DEF Stars, StarInv
    <3> QED
      BY <2>1, <3>1 DEF StarOK, None
  <2> QED
    BY <2>2, <2>3 DEF StarInv
<1>7. CASE \E r \in requests : submit_served(r)
  <2>1. PICK r \in requests, x \in Submits \cup StarPuts :
           /\ r.kind = "submit" /\ Becomes(r, x)
           /\ UNCHANGED <<session, load, bookmarks, unsure>>
    BY <1>7, SubmitIsServed
  <2>2. \A q : Stars(q)' = Stars(q)
    BY <2>1, OtherStars
  <2> QED
    BY <2>1, <2>2, StarKept DEF StarInv
<1>8. CASE \E r \in requests : bookmark_served(r) \/ refused(r)
  <2>1. PICK r \in requests, x \in Submits \cup StarPuts :
          /\ Becomes(r, x) /\ r.state = "sent" /\ x.awaited = r.awaited
          /\ r.awaited => x \in requests'
          /\ \/ /\ r.kind = "star" /\ x.state = "served"
                /\ bookmarks' = IF r.value THEN bookmarks \cup {r.q} ELSE bookmarks \ {r.q}
             \/ x.state = "refused" /\ UNCHANGED bookmarks
          /\ UNCHANGED <<session, load, unsure>>
    BY <1>8, StarIsServed
  <2>2. ASSUME NEW q \in Questions \ unsure, r.kind # "star" \/ r.q # q PROVE StarOK(q)'
    <3>1. Stars(q)' = Stars(q) /\ (q \in bookmarks' <=> q \in bookmarks)
      BY <2>1, <2>2, OtherStars
    <3> QED
      BY <2>1, <3>1, StarKept DEF StarInv
  <2>3. ASSUME NEW q \in Questions \ unsure, r.kind = "star", r.q = q PROVE StarOK(q)'
    <3>1. StarOK(q) /\ r \in Stars(q)
      BY <2>3 DEF StarInv, Stars
    <3>2. Stars(q) = {r} /\ r.awaited
      BY <3>1 DEF StarOK
    <3>3. Stars(q)' = {x} /\ x.value = r.value
      BY <2>1, <2>3, <3>2 DEF Becomes, Alike, Stars
    <3>4. x.state = "served" => (q \in bookmarks' <=> r.value)
      BY <2>1, <2>3
    <3>5. x.state # "served" => (q \in bookmarks' <=> ~r.value)
      BY <2>1, <3>1 DEF StarOK
    <3> QED
      BY <2>1, <3>1, <3>2, <3>3, <3>4, <3>5 DEF StarOK
  <2> QED
    BY <2>1, <2>2, <2>3 DEF StarInv
<1>9. CASE \E r \in requests : answered(r)
  <2>1. PICK r \in requests :
          /\ requests' = requests \ {r} /\ UNCHANGED <<load, bookmarks, unsure>>
          /\ \/ r.state = "refused" /\ RolledBack(session', session, r)
             \/ /\ r.state = "served" /\ session'.rows = session.rows
                /\ session'.bookmarked = session.bookmarked
    BY <1>9, AnswerApplied DEF Revealed
  <2>2. r.q \in Questions
    BY RequestKinds
  <2>3. ASSUME NEW q \in Questions \ unsure, r.kind # "star" \/ r.q # q PROVE StarOK(q)'
    <3>1. Stars(q)' = Stars(q)
      BY <2>1, <2>3 DEF Stars
    <3>2. session'.rows = session.rows /\ (q \in session'.bookmarked <=> q \in session.bookmarked)
      BY <2>1, <2>3, RequestKinds DEF RolledBack, ButForStars
    <3> QED
      BY <2>1, <3>1, <3>2, StarKept DEF StarInv
  <2>4. ASSUME NEW q \in Questions \ unsure, r.kind = "star", r.q = q PROVE StarOK(q)'
    <3>1. StarOK(q) /\ r \in Stars(q)
      BY <2>4 DEF StarInv, Stars
    <3>2. Stars(q)' = {}
      BY <2>1, <3>1 DEF StarOK, Stars
    <3>3. session'.rows = session.rows
      BY <2>1 DEF RolledBack, ButForStars
    <3>4. q \in session.rows => (q \in session'.bookmarked <=> q \in bookmarks)
      BY <2>1, <2>4, <3>1 DEF StarOK, RolledBack
    <3> QED
      BY <2>1, <3>1, <3>2, <3>3, <3>4 DEF StarOK
  <2> QED
    BY <2>1, <2>3, <2>4 DEF StarInv
<1>10. CASE \E r \in requests : given_up(r)
  <2>1. PICK r \in requests, x \in Submits \cup StarPuts :
          /\ Becomes(r, x) /\ RolledBack(session', session, r)
          /\ unsure' = IF r.kind = "star" THEN unsure \cup {r.q} ELSE unsure
          /\ UNCHANGED <<load, bookmarks>>
    BY <1>10, GivenUp
  <2>2. ASSUME NEW q \in Questions \ unsure' PROVE StarOK(q)'
    <3>1. q \notin unsure /\ (r.kind # "star" \/ r.q # q)
      BY <2>1, <2>2
    <3>2. session'.rows = session.rows /\ (q \in session'.bookmarked <=> q \in session.bookmarked)
      BY <2>1, <3>1, RequestKinds DEF RolledBack, ButForStars
    <3> QED
      BY <2>1, <3>1, <3>2, OtherStars, StarKept DEF StarInv
  <2> QED
    BY <2>2 DEF StarInv
<1> QED
  BY <1>1, <1>2, <1>3, <1>4, <1>5, <1>6, <1>7, <1>8, <1>9, <1>10, StepKinds

-----------------------------------------------------------------------------
(* The theorems.                                                           *)

\* At the start nothing is bound, shown or stored.
LEMMA InitHolds == SatInit => IInv
<1> SUFFICES ASSUME SatInit PROVE IInv
  OBVIOUS
<1>1. SatTypes
  BY TypesInit
<1>2. /\ requests = {} /\ attempts = {} /\ bookmarks = {} /\ load.phase = "sent"
      /\ session = createInitialSatSessionState(<<>>, None) /\ asked = Unasked
  BY DEF SatInit, Loading
<1>3. /\ session.rows = {} /\ \A q \in Questions :
           /\ session.reveals[q] = None /\ session.history[q] = {}
           /\ Bound(q) = [answer |-> None, id |-> 0]
           /\ asked[q] = [answer |-> None, series |-> 0]
  BY <1>2 DEF createInitialSatSessionState, Bound, Unasked
<1>4. SeriesInv
  BY <1>2, <1>3 DEF SeriesInv, MadeFor
<1>5. VerdictInv
  BY <1>2, <1>3 DEF VerdictInv
<1>6. StarInv
  BY <1>2, <1>3 DEF StarInv, StarOK, Stars
<1> QED
  BY <1>1, <1>4, <1>5, <1>6 DEF IInv

\* Every reachable state satisfies the invariant.
LEMMA Invariant == SatSpec => []IInv
<1>1. IInv /\ [SatNext]_sat => IInv'
  <2>1. ASSUME IInv, SatNext PROVE IInv'
    BY <2>1, TypesSteps, SeriesSteps, VerdictSteps, StarSteps DEF IInv
  <2>2. ASSUME IInv, UNCHANGED sat PROVE IInv'
    BY <2>2 DEF sat, IInv, SatTypes, SeriesInv, VerdictInv, StarInv, StarOK, Stars,
                MadeFor, Bound, StoredVerdicts
  <2> QED
    BY <2>1, <2>2
<1> QED
  BY <1>1, InitHolds, PTL DEF SatSpec

\* A press that is repeated, lost, late, refused or answered after another
\* session was begun is stored as one attempt (submit, service_attempts.py).
THEOREM PressStoredOnce == SatSpec => []NoDoubleAttempt
<1>1. IInv => NoDoubleAttempt
  BY DEF IInv, SeriesInv, NoDoubleAttempt
<1> QED
  BY <1>1, Invariant, PTL

\* Every verdict shown is that of a stored attempt at its question, and every
\* star is the server's unless its requests overlapped or were given up.
THEOREM PageStaysTrue == SatSpec => []PageIsTrue
<1>1. IInv => PageIsTrue
  <2> SUFFICES ASSUME IInv PROVE PageIsTrue
    OBVIOUS
  <2>1. \A q \in Questions :
          /\ session.reveals[q] # None =>
               session.reveals[q] \in StoredVerdicts(q) \cap session.history[q]
          /\ session.history[q] \subseteq StoredVerdicts(q)
    BY DEF IInv, VerdictInv
  <2>2. ASSUME NEW q \in session.rows \ unsure, ~(\E r \in Stars(q) : r.awaited)
        PROVE  q \in session.bookmarked <=> q \in bookmarks
    <3>1. q \in Questions \ unsure
      BY <2>2 DEF IInv, SatTypes, SatSessionState
    <3> QED
      BY <2>2, <3>1 DEF IInv, StarInv, StarOK
  <2> QED
    BY <2>1, <2>2 DEF PageIsTrue, StoredVerdicts
<1> QED
  BY <1>1, Invariant, PTL
=============================================================================
