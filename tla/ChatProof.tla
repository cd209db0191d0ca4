----------------------------- MODULE ChatProof ------------------------------
(***************************************************************************)
(* Proved of ChatClient for any messages, promises, turns and faults and   *)
(* whatever else happens in the instance: the types, that one stream is    *)
(* consumed at a time, and, where Retry is not pressed, that the agent     *)
(* hears no message more often than it was asked for.                      *)
(***************************************************************************)
EXTENDS ChatClient, TLAPS, WellFoundedInduction, FiniteSetTheorems

\* A set of natural numbers that is not empty has a least one.
LEMMA LeastNumber ==
  ASSUME NEW S, S \subseteq Nat, S # {}
  PROVE  \E x \in S : \A y \in S : x <= y
<1> DEFINE R == {p \in Nat \X Nat : p[1] < p[2]}
<1>1. IsWellFoundedOn(R, Nat)
  BY NatLessThanWellFounded DEF OpToRel
<1> HIDE DEF R
<1>2. PICK x \in S : \A y \in S : ~(<<y, x>> \in R)
  BY <1>1, WFMin
<1>3. ASSUME NEW y \in S, y < x
      PROVE  FALSE
  <2>1. <<y, x>> \in R
    BY <1>3 DEF R
  <2> QED
    BY <1>2, <2>1
<1> QED
  BY <1>3

\* Induction over the natural numbers, for a set.
LEMMA SetInduction ==
  ASSUME NEW G, 0 \in G, \A n \in Nat : n \in G => n + 1 \in G
  PROVE  \A n \in Nat : n \in G
<1> SUFFICES ASSUME Nat \ G # {} PROVE FALSE
  OBVIOUS
<1>1. PICK n \in Nat \ G : \A m \in Nat \ G : n <= m
  BY LeastNumber
<1>2. n # 0 /\ n - 1 \in Nat /\ n = (n - 1) + 1
  BY <1>1
<1>3. n - 1 \notin Nat \ G
  BY <1>1
<1> QED
  BY <1>1, <1>2, <1>3

\* f holds the parts of list up to each position that are in S.
IsParts(f, list, S, n) ==
  f = [k \in 0..n |-> IF k = 0 THEN <<>>
                      ELSE IF list[k] \in S THEN Append(f[k - 1], list[k]) ELSE f[k - 1]]

\* The recursive function that Only is built from exists.
LEMMA PartsExist ==
  ASSUME NEW list, NEW S
  PROVE  \A n \in Nat : \E f : IsParts(f, list, S, n)
<1> DEFINE G == {n \in Nat : \E f : IsParts(f, list, S, n)}
<1>1. 0 \in G
  <2>1. IsParts([k \in 0..0 |-> <<>>], list, S, 0)
    BY DEF IsParts
  <2> QED
    BY <2>1
<1>2. ASSUME NEW n \in Nat, n \in G PROVE n + 1 \in G
  <2>1. PICK f : IsParts(f, list, S, n)
    BY <1>2
  <2> DEFINE last == IF list[n + 1] \in S THEN Append(f[n], list[n + 1]) ELSE f[n]
             g == [k \in 0..(n + 1) |-> IF k = n + 1 THEN last ELSE f[k]]
             h == [k \in 0..(n + 1) |-> IF k = 0 THEN <<>>
                     ELSE IF list[k] \in S THEN Append(g[k - 1], list[k]) ELSE g[k - 1]]
  <2>2. ASSUME NEW k \in 0..(n + 1) PROVE g[k] = h[k]
    <3>1. CASE k = n + 1
      <4>1. k # 0 /\ k - 1 = n /\ n \in 0..(n + 1) /\ n # n + 1
        BY <3>1
      <4>2. g[k - 1] = f[n]
        BY <4>1
      <4> QED
        BY <3>1, <4>1, <4>2
    <3>2. CASE k # n + 1
      <4>1. k \in 0..n
        BY <3>2
      <4>2. f[k] = IF k = 0 THEN <<>>
                   ELSE IF list[k] \in S THEN Append(f[k - 1], list[k]) ELSE f[k - 1]
        BY <2>1, <4>1 DEF IsParts
      <4>3. k # 0 => k - 1 \in 0..(n + 1) /\ k - 1 # n + 1
        BY <4>1
      <4> QED
        BY <3>2, <4>2, <4>3
    <3> QED
      BY <3>1, <3>2
  <2>3. g = h
    BY <2>2
  <2>4. IsParts(g, list, S, n + 1)
    BY <2>3 DEF IsParts
  <2> QED
    BY <2>4
<1> HIDE DEF G
<1>3. \A n \in Nat : n \in G
  BY <1>1, <1>2, SetInduction
<1> QED
  BY <1>3 DEF G

\* What Only is, unfolded once.
LEMMA OnlyParts ==
  ASSUME NEW list, Len(list) \in Nat, NEW S
  PROVE  \E f : /\ Only(list, S) = f[Len(list)]
                /\ f[0] = <<>>
                /\ \A k \in 1..Len(list) :
                     f[k] = IF list[k] \in S THEN Append(f[k - 1], list[k]) ELSE f[k - 1]
<1> DEFINE f == CHOOSE g : IsParts(g, list, S, Len(list))
<1>1. Only(list, S) = f[Len(list)]
  BY DEF Only, IsParts
<1>2. IsParts(f, list, S, Len(list))
  BY PartsExist
<1> HIDE DEF f
<1>3. f[0] = <<>>
  BY <1>2 DEF IsParts
<1>4. \A k \in 1..Len(list) :
        f[k] = IF list[k] \in S THEN Append(f[k - 1], list[k]) ELSE f[k - 1]
  <2> SUFFICES ASSUME NEW k \in 1..Len(list)
               PROVE  f[k] = IF list[k] \in S THEN Append(f[k - 1], list[k]) ELSE f[k - 1]
    OBVIOUS
  <2>1. k \in 0..Len(list) /\ k # 0
    OBVIOUS
  <2>2. f[k] = IF k = 0 THEN <<>>
               ELSE IF list[k] \in S THEN Append(f[k - 1], list[k]) ELSE f[k - 1]
    BY <1>2, <2>1, Zenon DEF IsParts
  <2> QED
    BY <2>1, <2>2
<1> QED
  BY <1>1, <1>3, <1>4

\* u has the elements of list that are in S.
IsOnly(u, T, list, S) ==
  /\ u \in Seq(T)
  /\ \A i \in DOMAIN u : u[i] \in S /\ \E j \in DOMAIN list : list[j] = u[i]
  /\ \A j \in DOMAIN list : list[j] \in S => \E i \in DOMAIN u : u[i] = list[j]

\* Only keeps what is in S, and nothing else (pendingUserSegmentsOf, the
\* filters of the terminal and of the retry).
LEMMA OnlyIs ==
  ASSUME NEW T, NEW list \in Seq(T), NEW S
  PROVE  IsOnly(Only(list, S), T, list, S)
<1>1. PICK f : /\ Only(list, S) = f[Len(list)]
               /\ f[0] = <<>>
               /\ \A k \in 1..Len(list) :
                    f[k] = IF list[k] \in S THEN Append(f[k - 1], list[k]) ELSE f[k - 1]
  BY OnlyParts
<1> DEFINE G == {n \in Nat : n <= Len(list) =>
                   /\ f[n] \in Seq(T)
                   /\ \A i \in DOMAIN f[n] :
                        f[n][i] \in S /\ \E j \in 1..n : list[j] = f[n][i]
                   /\ \A j \in 1..n : list[j] \in S => \E i \in DOMAIN f[n] : f[n][i] = list[j]}
<1>2. 0 \in G
  <2>1. f[0] \in Seq(T) /\ DOMAIN f[0] = {}
    BY <1>1
  <2> QED
    BY <2>1
<1>3. ASSUME NEW n \in Nat, n \in G PROVE n + 1 \in G
  <2> SUFFICES ASSUME n + 1 <= Len(list)
               PROVE  /\ f[n + 1] \in Seq(T)
                      /\ \A i \in DOMAIN f[n + 1] :
                           f[n + 1][i] \in S /\ \E j \in 1..(n + 1) : list[j] = f[n + 1][i]
                      /\ \A j \in 1..(n + 1) : list[j] \in S =>
                           \E i \in DOMAIN f[n + 1] : f[n + 1][i] = list[j]
    OBVIOUS
  <2>1. /\ f[n] \in Seq(T)
        /\ \A i \in DOMAIN f[n] : f[n][i] \in S /\ \E j \in 1..n : list[j] = f[n][i]
        /\ \A j \in 1..n : list[j] \in S => \E i \in DOMAIN f[n] : f[n][i] = list[j]
    BY <1>3
  <2>2. f[n + 1] = IF list[n + 1] \in S THEN Append(f[n], list[n + 1]) ELSE f[n]
    BY <1>1
  <2>3. list[n + 1] \in T
    OBVIOUS
  <2> DEFINE a == f[n]
             b == f[n + 1]
             e == list[n + 1]
  <2>4. CASE e \in S
    <3>1. b = Append(a, e) /\ a \in Seq(T) /\ e \in T
      BY <2>1, <2>2, <2>3, <2>4
    <3> HIDE DEF a, b
    <3>2. /\ b \in Seq(T) /\ DOMAIN b = 1..(Len(a) + 1) /\ DOMAIN a = 1..Len(a)
          /\ \A i \in 1..Len(a) : b[i] = a[i]
          /\ b[Len(a) + 1] = e
          /\ Len(a) \in Nat
      <4> HIDE DEF e
      <4> QED
        BY <3>1
    <3>3. \A i \in DOMAIN b : b[i] \in S /\ \E j \in 1..(n + 1) : list[j] = b[i]
      <4> SUFFICES ASSUME NEW i \in DOMAIN b
                   PROVE  b[i] \in S /\ \E j \in 1..(n + 1) : list[j] = b[i]
        OBVIOUS
      <4>1. CASE i = Len(a) + 1
        BY <4>1, <3>2, <2>4
      <4>2. CASE i # Len(a) + 1
        <5>1. i \in DOMAIN a /\ b[i] = a[i]
          BY <4>2, <3>2
        <5>2. a[i] \in S /\ \E j \in 1..n : list[j] = a[i]
          BY <5>1, <2>1 DEF a
        <5> QED
          BY <5>1, <5>2
      <4> QED
        BY <4>1, <4>2
    <3>4. \A j \in 1..(n + 1) : list[j] \in S => \E i \in DOMAIN b : b[i] = list[j]
      <4> SUFFICES ASSUME NEW j \in 1..(n + 1), list[j] \in S
                   PROVE  \E i \in DOMAIN b : b[i] = list[j]
        OBVIOUS
      <4>1. CASE j = n + 1
        BY <4>1, <3>2
      <4>2. CASE j # n + 1
        <5>1. j \in 1..n
          BY <4>2
        <5>2. PICK i \in DOMAIN a : a[i] = list[j]
          BY <5>1, <2>1 DEF a
        <5> QED
          BY <5>2, <3>2
      <4> QED
        BY <4>1, <4>2
    <3> QED
      BY <3>2, <3>3, <3>4 DEF b
  <2>5. CASE e \notin S
    <3>1. f[n + 1] = f[n]
      BY <2>2, <2>5
    <3>2. \A j \in 1..(n + 1) : list[j] \in S => j \in 1..n
      BY <2>5
    <3> QED
      BY <2>1, <3>1, <3>2
  <2> QED
    BY <2>4, <2>5
<1> HIDE DEF G
<1>4. Len(list) \in G
  BY <1>2, <1>3, SetInduction
<1>5. /\ f[Len(list)] \in Seq(T)
      /\ \A i \in DOMAIN f[Len(list)] :
           f[Len(list)][i] \in S /\ \E j \in 1..Len(list) : list[j] = f[Len(list)][i]
      /\ \A j \in 1..Len(list) : list[j] \in S =>
           \E i \in DOMAIN f[Len(list)] : f[Len(list)][i] = list[j]
  BY <1>4 DEF G
<1>6. DOMAIN list = 1..Len(list)
  OBVIOUS
<1>7. Only(list, S) = f[Len(list)]
  BY <1>1
<1> DEFINE e == f[Len(list)]
<1>8. IsOnly(e, T, list, S)
  <2> HIDE DEF e
  <2>1. /\ e \in Seq(T)
        /\ \A i \in DOMAIN e : e[i] \in S /\ \E j \in 1..Len(list) : list[j] = e[i]
        /\ \A j \in 1..Len(list) : list[j] \in S => \E i \in DOMAIN e : e[i] = list[j]
    BY <1>5 DEF e
  <2>2. QED
    BY <1>6, <2>1, Zenon DEF IsOnly
<1> QED
  BY <1>7, <1>8

\* The types of what the page keeps, of the calls and of the server.
MaybeId == Ids \cup {None}
MaybeMsg == Msgs \cup {None}
UserBubbles == [kind : {"user"}, id : Ids, msg : MaybeMsg]
AnswerBubbles == [kind : {"assistant"}, id : Ids,
                  msg : {"streaming", "complete", "cancelled", "error"}]
Records == [turn : 1..MaxTurns, msg : MaybeMsg, st : {"complete", "cancelled", "error"}]
Reads == [st : {"sent", "answered"}, log : Seq(Records)]
Pendings == [msg : Msgs, replace : MaybeId, bubble : MaybeId]
Segments == [msg : Msgs, injected : BOOLEAN]
Events == [type : {"meta"}, msg : MaybeMsg, injected : BOOLEAN]
            \cup [type : {"user_message"}, msg : Msgs, injected : BOOLEAN]
            \cup [type : {"done"}, msg : {"complete", "cancelled", "error"}, injected : BOOLEAN]

Pages == [list : Seq(Bubbles), live : Callers \cup {None}, queue : Seq(Msgs),
          seen : SUBSET Msgs, pending : Pendings \cup {None}, composer : MaybeMsg,
          last : MaybeId, read : Reads \cup {None}, data : Seq(Records), hydrated : BOOLEAN,
          cancelInFlight : BOOLEAN, cancelCommitted : BOOLEAN]

Pcs == {"idle", "steer", "clear", "cancel", "stopped", "post", "stream", "recancel",
        "stop", "open", "over"}
Nets == {"none", "sent", "queued", "idle", "lost", "open", "refused", "conflict",
         "accepted", "cancelled", "inactive"}

Calls == [pc : Pcs, net : Nets, msg : MaybeMsg, replace : MaybeId, own : BOOLEAN,
          again : BOOLEAN, aborted : BOOLEAN, user : MaybeId, answer : MaybeId,
          meta : BOOLEAN, st : {"streaming", "complete", "cancelled", "error"},
          turn : 0..MaxTurns, pos : Nat, segs : Seq(Segments)]

States == [page : Pages, cursor : Nat, calls : [Callers -> Calls]]

TurnRecs == [msg : MaybeMsg, events : Seq(Events), steers : Seq(Msgs),
             cancel : BOOLEAN, ended : BOOLEAN, claimed : BOOLEAN]

\* A reader: of a stream, or about to be one.
Alive(k) == k.pc \in {"post", "stream", "open"} /\ ~k.aborted

\* A call, with the turns ts on the server.
CallOK(k, ts) ==
  /\ k.pc \in {"steer", "clear", "cancel", "stopped", "post", "recancel"} => k.msg \in Msgs
  /\ k.pc \in {"post", "stream"} => k.answer \in Ids
  /\ k.turn <= Len(ts)
  /\ k.pc \notin {"stream", "open"} => k.pos = 0
  /\ k.turn = 0 => k.pos = 0
  /\ k.turn # 0 => k.pos <= Len(ts[k.turn].events)
  /\ k.pc = "stream" \/ (k.pc \in {"post", "open"} /\ k.net = "open") => k.turn # 0

\* At most one call reads, or is about to, and has not been aborted.
OneReader(s) ==
  \A c, d \in Callers : Alive(s.calls[c]) /\ Alive(s.calls[d]) => c = d

\* Who is live is such a call.
LiveOK(s) == s.page.live # None => s.calls[s.page.live].pc \in {"post", "stream"}

\* A page that has no transcript yet has nothing under way.
Blank(s) ==
  ~s.page.hydrated => /\ s.page.live = None /\ s.page.queue = <<>> /\ s.page.pending = None
                      /\ \A c \in Callers : s.calls[c].pc \in {"idle", "over"}

\* The page, with the turns ts on the server,
ClientOK(s, ts) ==
  /\ s \in States
  /\ OneReader(s) /\ LiveOK(s)
  /\ \A c \in Callers : CallOK(s.calls[c], ts)
  /\ s.cursor > 0 => ts # <<>>
  /\ Range(s.page.queue) \subseteq s.page.seen

\* and with its transcript.
Ready(s, ts) == ClientOK(s, ts) /\ s.page.hydrated

\* The server.
ServerOK ==
  /\ log \in Seq(Records) /\ turns \in Seq(TurnRecs)
  /\ Len(turns) <= MaxTurns /\ Len(log) <= Len(turns)
  /\ Running => Len(log) < Len(turns)

\* The counters.
CountsOK == faults \in Nat /\ asked \in [Msgs -> Nat] /\ heard \in [Msgs -> Nat]

\* The inductive invariant.
TypeInv == ClientOK(Now, turns) /\ Blank(Now) /\ ServerOK /\ CountsOK
-----------------------------------------------------------------------------
\* The bubbles, as records.
LEMMA BubbleTypes == Bubbles = UserBubbles \cup AnswerBubbles
BY DEF Bubbles, UserBubbles, AnswerBubbles, userMessage, assistantMessage, MaybeMsg

\* The ids that the page makes up and those that the server gives.
LEMMA IdTypes ==
  /\ \A c \in Callers : Temp(c) \in Ids
  /\ \A k \in 1..MaxTurns : Backend(k) \in Ids
BY DEF Ids

\* A call that is not used, or is over.
LEMMA IdleType == Idle \in Calls /\ Over \in Calls
<1>1. 0 \in 0..MaxTurns /\ 0 \in Nat
  BY ClientAssumption
<1>2. <<>> \in Seq(Segments)
  OBVIOUS
<1>3. Idle \in Calls
  BY <1>1, <1>2 DEF Idle, Calls, Pcs, Nets, MaybeMsg, MaybeId
<1>4. [Idle EXCEPT !.pc = "over"] \in Calls
  BY <1>3 DEF Calls, Pcs
<1>5. QED
  BY <1>3, <1>4 DEF Over

\* The slot for a new call is a free one.
LEMMA SlotFree ==
  ASSUME NEW s, Free(s) # {}
  PROVE  Slot(s) \in Callers /\ s.calls[Slot(s)].pc = "idle"
<1>1. Free(s) \subseteq Nat
  BY ClientAssumption DEF Free, Callers
<1>2. \E c \in Free(s) : \A d \in Free(s) : c <= d
  BY <1>1, LeastNumber
<1>3. Slot(s) \in Free(s)
  BY <1>2 DEF Slot
<1>4. QED
  BY <1>3 DEF Free

\* The helpers on lists.
LEMMA ReconcileType ==
  ASSUME NEW list \in Seq(Bubbles), NEW old, NEW new \in Ids
  PROVE  reconcileMetaIds(list, old, new) \in Seq(Bubbles)
<1>1. \A i \in DOMAIN list : list[i] \in Bubbles /\ [list[i] EXCEPT !.id = new] \in Bubbles
  <2>1. ASSUME NEW b \in Bubbles PROVE [b EXCEPT !.id = new] \in Bubbles
    BY BubbleTypes DEF UserBubbles, AnswerBubbles
  <2>2. QED
    BY <2>1
<1>2. DOMAIN list = 1..Len(list) /\ Len(list) \in Nat
  OBVIOUS
<1>3. QED
  BY <1>1, <1>2 DEF reconcileMetaIds

\* upsertAssistantMessage keeps a list a list.
LEMMA UpsertType ==
  ASSUME NEW list \in Seq(Bubbles), NEW a \in Bubbles
  PROVE  upsertAssistantMessage(list, a) \in Seq(Bubbles)
<1>1. ASSUME NEW i PROVE [list EXCEPT ![i] = a] \in Seq(Bubbles)
  <2> DEFINE v == [list EXCEPT ![i] = a]
  <2>1. Len(list) \in Nat /\ list \in [1..Len(list) -> Bubbles]
    OBVIOUS
  <2>2. v \in [1..Len(list) -> Bubbles]
    BY <2>1
  <2>3. ASSUME NEW n \in Nat, NEW f \in [1..n -> Bubbles] PROVE f \in Seq(Bubbles)
    OBVIOUS
  <2>4. QED
    BY <2>1, <2>2, <2>3
<1>2. Append(list, a) \in Seq(Bubbles)
  OBVIOUS
<1>3. QED
  BY <1>1, <1>2 DEF upsertAssistantMessage

\* messagesFromTranscript makes a list.
LEMMA TranscriptType ==
  ASSUME NEW records \in Seq(Records)
  PROVE  messagesFromTranscript(records) \in Seq(Bubbles)
<1>1. Len(records) \in Nat
  OBVIOUS
<1>2. ASSUME NEW i \in 1..2 * Len(records)
      PROVE  (i + 1) \div 2 \in DOMAIN records
  BY <1>1
<1>3. ASSUME NEW r \in Records
      PROVE  /\ userMessage(Backend(r.turn), r.msg) \in Bubbles
             /\ assistantMessage(Backend(r.turn), r.st) \in Bubbles
  BY IdTypes, BubbleTypes DEF Records, userMessage, assistantMessage, UserBubbles, AnswerBubbles
<1>4. QED
  BY <1>1, <1>2, <1>3 DEF messagesFromTranscript

\* mergeUserSegment keeps the segments what they are.
LEMMA SegmentsType ==
  ASSUME NEW segs \in Seq(Segments), NEW m \in Msgs, NEW injected \in BOOLEAN
  PROVE  mergeUserSegment(segs, m, injected) \in Seq(Segments)
<1>1. [msg |-> m, injected |-> injected] \in Segments
  BY DEF Segments
<1>2. ASSUME NEW g \in Segments PROVE [g EXCEPT !.injected = @ \/ injected] \in Segments
  BY DEF Segments
<1>3. \A i \in DOMAIN segs : segs[i] \in Segments
                            /\ [segs[i] EXCEPT !.injected = @ \/ injected] \in Segments
  BY <1>2
<1>4. Len(segs) \in Nat /\ DOMAIN segs = 1..Len(segs)
  OBVIOUS
<1>5. \A at : [i \in DOMAIN segs |-> IF i \in at THEN [segs[i] EXCEPT !.injected = @ \/ injected]
                                     ELSE segs[i]] \in Seq(Segments)
  BY <1>3, <1>4
<1>6. Append(segs, [msg |-> m, injected |-> injected]) \in Seq(Segments)
  BY <1>1
<1>7. QED
  BY <1>5, <1>6, Zenon DEF mergeUserSegment
-----------------------------------------------------------------------------
(* The engine's helpers, on states. *)

\* What abort changes.
LEMMA AbortFields ==
  ASSUME NEW s \in States, NEW but
  PROVE  LET u == abort(s, but) IN
         /\ u \in States /\ u.page = s.page /\ u.cursor = s.cursor
         /\ \A x \in Callers :
              u.calls[x] = IF x # but /\ s.calls[x].pc \in {"post", "stream", "open"}
                           THEN [s.calls[x] EXCEPT !.aborted = TRUE] ELSE s.calls[x]
<1> DEFINE f == [x \in Callers |-> IF x # but /\ s.calls[x].pc \in {"post", "stream", "open"}
                                   THEN [s.calls[x] EXCEPT !.aborted = TRUE] ELSE s.calls[x]]
<1>1. abort(s, but) = [s EXCEPT !.calls = f]
  BY DEF abort
<1>2. ASSUME NEW k \in Calls PROVE [k EXCEPT !.aborted = TRUE] \in Calls
  BY DEF Calls
<1>3. f \in [Callers -> Calls]
  BY <1>2 DEF States
<1>4. \A x \in Callers : f[x] = IF x # but /\ s.calls[x].pc \in {"post", "stream", "open"}
                                THEN [s.calls[x] EXCEPT !.aborted = TRUE] ELSE s.calls[x]
  OBVIOUS
<1> HIDE DEF f
<1>5. QED
  BY <1>1, <1>3, <1>4 DEF States

\* What POSTing makes of a call.
Posted(k, c, user, again) ==
  [Idle EXCEPT !.pc = "post", !.net = "sent", !.msg = k.msg, !.replace = k.replace,
               !.own = k.own, !.again = again, !.user = user, !.answer = Temp(c)]

\* A call that POSTs.
LEMMA PostedType ==
  ASSUME NEW k \in Calls, NEW c \in Callers, NEW user \in MaybeId, NEW again \in BOOLEAN
  PROVE  LET p == Posted(k, c, user, again) IN
         /\ p \in Calls
         /\ p.pc = "post" /\ p.net = "sent" /\ p.msg = k.msg /\ p.replace = k.replace
         /\ p.own = k.own /\ p.again = again /\ p.user = user /\ p.answer = Temp(c)
         /\ ~p.aborted /\ ~p.meta /\ p.st = "streaming" /\ p.turn = 0 /\ p.pos = 0
         /\ p.segs = <<>>
<1>1. Temp(c) \in MaybeId
  BY IdTypes DEF MaybeId
<1>2. Posted(k, c, user, again) \in Calls
  BY <1>1, IdleType DEF Posted, Calls, Pcs, Nets
<1>3. QED
  BY <1>2, IdleType DEF Posted, Idle

\* What runTurn leaves: c is POSTing and live, the other readers are aborted.
Started(s, u, c, user, again) ==
  /\ u \in States /\ u.cursor = 0
  /\ u.page = [s.page EXCEPT !.live = c, !.cancelInFlight = FALSE, !.cancelCommitted = FALSE]
  /\ u.calls[c] = Posted(s.calls[c], c, user, again)
  /\ \A x \in Callers \ {c} : u.calls[x] = abort(s, c).calls[x]

\* What runTurn changes.
LEMMA RunTurnFields ==
  ASSUME NEW s \in States, NEW c \in Callers, NEW user \in MaybeId, NEW again \in BOOLEAN
  PROVE  Started(s, runTurn(s, c, user, again), c, user, again)
<1> DEFINE a == abort(s, c)
           p == Posted(s.calls[c], c, user, again)
           u == runTurn(s, c, user, again)
           g == [s.page EXCEPT !.live = c, !.cancelInFlight = FALSE, !.cancelCommitted = FALSE]
<1>1. a \in States /\ a.page = s.page
  BY AbortFields
<1>2. p \in Calls
  BY PostedType DEF States
<1>3. u = [[a EXCEPT !.page.live = c] EXCEPT !.cursor = 0, !.page.cancelInFlight = FALSE,
             !.page.cancelCommitted = FALSE, !.calls[c] = p]
  BY DEF runTurn, publishTurn, Posted
<1> HIDE DEF a, p, u
<1>4. ASSUME NEW t \in States, NEW k \in Calls
      PROVE  [t EXCEPT !.cursor = 0, !.page.cancelInFlight = FALSE,
                       !.page.cancelCommitted = FALSE, !.calls[c] = k]
             = [t EXCEPT !.cursor = 0, !.calls = [@ EXCEPT ![c] = k],
                         !.page = [@ EXCEPT !.cancelInFlight = FALSE, !.cancelCommitted = FALSE]]
  BY DEF States, Pages
<1>5. g \in Pages
  BY DEF States, Pages
<1> DEFINE b == [a EXCEPT !.page.live = c]
<1>6. b \in States /\ b.page = [s.page EXCEPT !.live = c] /\ b.calls = a.calls
  BY <1>1 DEF States, Pages
<1>7. g = [b.page EXCEPT !.cancelInFlight = FALSE, !.cancelCommitted = FALSE]
  BY <1>6 DEF States, Pages
<1>8. u = [b EXCEPT !.cursor = 0, !.page.cancelInFlight = FALSE,
                    !.page.cancelCommitted = FALSE, !.calls[c] = p]
  BY <1>3
<1> HIDE DEF b, g
<1>9. u = [b EXCEPT !.cursor = 0, !.calls = [@ EXCEPT ![c] = p], !.page = g]
  BY <1>2, <1>4, <1>6, <1>7, <1>8
<1>10. [b.calls EXCEPT ![c] = p] \in [Callers -> Calls] /\ b.calls \in [Callers -> Calls]
  BY <1>2, <1>6 DEF States
<1>11. u \in States
  BY <1>5, <1>6, <1>9, <1>10 DEF States
<1>12. u.page = g /\ u.cursor = 0 /\ u.calls[c] = p /\ \A x \in Callers \ {c} : u.calls[x] = a.calls[x]
  BY <1>6, <1>9, <1>10 DEF States
<1>13. QED
  BY <1>11, <1>12 DEF u, g, p, a, Started

\* A step that leaves the calls alone and lets nobody else be live.
LEMMA SameReaders ==
  ASSUME NEW s, NEW ts, Ready(s, ts), NEW t \in States, t.calls = s.calls,
         t.page.live \in {s.page.live, None}, t.page.hydrated, t.cursor \in {s.cursor, 0},
         Range(t.page.queue) \subseteq t.page.seen
  PROVE  Ready(t, ts)
BY DEF Ready, ClientOK, OneReader, LiveOK

\* A step of one call,
LEMMA OneCallType ==
  ASSUME NEW s \in States, NEW c \in Callers, NEW k \in Calls
  PROVE  LET t == [s EXCEPT !.calls[c] = k] IN
         /\ t \in States /\ t.page = s.page /\ t.cursor = s.cursor /\ t.calls[c] = k
         /\ \A x \in Callers \ {c} : t.calls[x] = s.calls[x]
BY DEF States

\* which becomes a reader only when it was one or nobody is.
LEMMA OneCallReady ==
  ASSUME NEW s, NEW ts, Ready(s, ts), NEW c \in Callers, NEW k \in Calls, CallOK(k, ts),
         Alive(k) => Alive(s.calls[c]) \/ (\A d \in Callers : ~Alive(s.calls[d])),
         s.page.live = c => k.pc \in {"post", "stream"}
  PROVE  Ready([s EXCEPT !.calls[c] = k], ts)
<1> DEFINE t == [s EXCEPT !.calls[c] = k]
<1>1. s \in States
  BY DEF Ready, ClientOK
<1>2. /\ t \in States /\ t.page = s.page /\ t.cursor = s.cursor /\ t.calls[c] = k
      /\ \A x \in Callers \ {c} : t.calls[x] = s.calls[x]
  BY <1>1, OneCallType
<1> HIDE DEF t
<1>3. OneReader(t)
  BY <1>2 DEF OneReader, Ready, ClientOK
<1>4. LiveOK(t)
  <2>1. s.page.live \in Callers \cup {None}
    BY <1>1 DEF States, Pages
  <2>2. QED
    BY <1>2, <2>1 DEF LiveOK, Ready, ClientOK
<1>5. \A x \in Callers : CallOK(t.calls[x], ts)
  BY <1>2 DEF Ready, ClientOK
<1>6. Ready(t, ts)
  BY <1>2, <1>3, <1>4, <1>5 DEF Ready, ClientOK
<1>7. QED
  BY <1>6 DEF t

\* A call that is not used asks nothing of the turns.
LEMMA IdleOK == \A ts \in Seq(TurnRecs) : CallOK(Idle, ts) /\ CallOK(Over, ts)
BY DEF CallOK, Idle, Over

\* abort keeps the invariant,
LEMMA AbortReady ==
  ASSUME NEW s, NEW ts, Ready(s, ts), NEW but
  PROVE  Ready(abort(s, but), ts)
<1> DEFINE u == abort(s, but)
<1>1. s \in States
  BY DEF Ready, ClientOK
<1>2. /\ u \in States /\ u.page = s.page /\ u.cursor = s.cursor
      /\ \A x \in Callers :
              u.calls[x] = IF x # but /\ s.calls[x].pc \in {"post", "stream", "open"}
                           THEN [s.calls[x] EXCEPT !.aborted = TRUE] ELSE s.calls[x]
  BY <1>1, AbortFields
<1> HIDE DEF u
<1>3. \A x \in Callers : s.calls[x] \in Calls /\ CallOK(s.calls[x], ts)
  BY <1>1 DEF Ready, ClientOK, States
<1>4. ASSUME NEW x \in Callers
      PROVE  /\ CallOK(u.calls[x], ts) /\ u.calls[x].pc = s.calls[x].pc
             /\ Alive(u.calls[x]) => Alive(s.calls[x])
  BY <1>2, <1>3 DEF CallOK, Alive, Calls
<1>5. OneReader(u)
  BY <1>4 DEF OneReader, Ready, ClientOK
<1>6. LiveOK(u)
  <2>1. s.page.live \in Callers \cup {None}
    BY <1>1 DEF States, Pages
  <2>2. QED
    BY <1>2, <1>4, <2>1 DEF LiveOK, Ready, ClientOK
<1>7. Ready(u, ts)
  BY <1>2, <1>4, <1>5, <1>6 DEF Ready, ClientOK
<1>8. QED
  BY <1>7 DEF u

\* and so does runTurn: it aborts the others before it reads.
LEMMA RunTurnReady ==
  ASSUME NEW s, NEW ts \in Seq(TurnRecs), Ready(s, ts), NEW c \in Callers,
         s.calls[c].msg \in Msgs, NEW user \in MaybeId, NEW again \in BOOLEAN
  PROVE  Ready(runTurn(s, c, user, again), ts)
<1> DEFINE a == abort(s, c)
           u == runTurn(s, c, user, again)
           p == Posted(s.calls[c], c, user, again)
<1>1. s \in States /\ s.calls[c] \in Calls
  BY DEF Ready, ClientOK, States
<1>2. /\ u \in States /\ u.cursor = 0
      /\ u.page = [s.page EXCEPT !.live = c, !.cancelInFlight = FALSE, !.cancelCommitted = FALSE]
      /\ u.calls[c] = p
      /\ \A x \in Callers \ {c} : u.calls[x] = a.calls[x]
  <2>1. Started(s, u, c, user, again)
    BY <1>1, RunTurnFields
  <2>2. QED
    BY <2>1 DEF Started
<1>3. Ready(a, ts)
  BY AbortReady
<1>4. \A x \in Callers \ {c} : ~Alive(a.calls[x])
  <2>1. \A x \in Callers :
              a.calls[x] = IF x # c /\ s.calls[x].pc \in {"post", "stream", "open"}
                           THEN [s.calls[x] EXCEPT !.aborted = TRUE] ELSE s.calls[x]
    BY <1>1, AbortFields
  <2> HIDE DEF a
  <2>2. \A x \in Callers : s.calls[x] \in Calls
    BY <1>1 DEF States
  <2>3. QED
    BY <2>1, <2>2 DEF Alive, Calls
<1>5. /\ p.pc = "post" /\ p.net = "sent" /\ p.msg = s.calls[c].msg
      /\ p.answer = Temp(c) /\ p.turn = 0 /\ p.pos = 0
  BY <1>1, PostedType
<1>6. /\ u.page.live = c /\ u.page.hydrated = s.page.hydrated
      /\ u.page.queue = s.page.queue /\ u.page.seen = s.page.seen
  BY <1>1, <1>2 DEF States, Pages
<1> HIDE DEF a, u, p
<1>7. \A x \in Callers : CallOK(u.calls[x], ts)
  <2>1. CallOK(p, ts)
    BY <1>5, IdTypes DEF CallOK
  <2>2. QED
    BY <1>2, <1>3, <2>1 DEF Ready, ClientOK
<1>8. OneReader(u)
  BY <1>2, <1>4 DEF OneReader
<1>9. LiveOK(u)
  BY <1>2, <1>5, <1>6 DEF LiveOK
<1>10. Ready(u, ts)
  BY <1>2, <1>6, <1>7, <1>8, <1>9 DEF Ready, ClientOK
<1>11. QED
  BY <1>10 DEF u

\* What startSend does before it POSTs.
SendUser(s, c) == IF s.calls[c].replace = None THEN Temp(c) ELSE s.calls[c].replace
\* Its list,
SendList(s, c) ==
  IF s.calls[c].replace = None
  THEN Append(s.page.list, userMessage(Temp(c), s.calls[c].msg)) ELSE s.page.list
\* and its page.
Bubbled(s, c) ==
  [s EXCEPT !.page = [@ EXCEPT !.list = SendList(s, c), !.last = SendUser(s, c)]]

\* startSend is a bubble and runTurn.
LEMMA BubbledFields ==
  ASSUME NEW s \in States, NEW c \in Callers
  PROVE  LET v == Bubbled(s, c) IN
         /\ v \in States /\ v.calls = s.calls /\ v.cursor = s.cursor
         /\ v.page = [s.page EXCEPT !.list = SendList(s, c), !.last = SendUser(s, c)]
         /\ SendUser(s, c) \in Ids /\ SendList(s, c) \in Seq(Bubbles)
         /\ startSend(s, c) = runTurn(v, c, SendUser(s, c), FALSE)
<1> DEFINE l == SendList(s, c)
           user == SendUser(s, c)
           v == Bubbled(s, c)
<1>1. s.calls[c] \in Calls /\ s.page.list \in Seq(Bubbles)
  BY DEF States, Pages
<1>2. user \in Ids
  BY <1>1, IdTypes DEF SendUser, Calls, MaybeId
<1>3. userMessage(Temp(c), s.calls[c].msg) \in Bubbles
  BY <1>1, IdTypes, BubbleTypes DEF userMessage, UserBubbles, Calls
<1>4. l \in Seq(Bubbles)
  BY <1>1, <1>3 DEF SendList
<1>5. startSend(s, c) = runTurn([s EXCEPT !.page.list = l, !.page.last = user], c, user, FALSE)
  BY DEF startSend, SendUser, SendList
<1> HIDE DEF l, user
<1>6. [s EXCEPT !.page.list = l, !.page.last = user]
      = [s EXCEPT !.page = [@ EXCEPT !.list = l, !.last = user]]
  BY DEF States, Pages
<1>7. v = [s EXCEPT !.page = [@ EXCEPT !.list = l, !.last = user]]
  BY DEF Bubbled, l, user
<1>8. [s.page EXCEPT !.list = l, !.last = user] \in Pages
  BY <1>2, <1>4 DEF States, Pages, MaybeId
<1>9. startSend(s, c) = runTurn(v, c, user, FALSE)
  BY <1>5, <1>6, <1>7
<1> HIDE DEF v
<1>10. /\ v \in States /\ v.calls = s.calls /\ v.cursor = s.cursor
       /\ v.page = [s.page EXCEPT !.list = l, !.last = user]
  BY <1>7, <1>8 DEF States
<1>11. QED
  BY <1>2, <1>4, <1>9, <1>10 DEF l, user, v

\* startSend keeps the invariant.
LEMMA StartSendReady ==
  ASSUME NEW s, NEW ts \in Seq(TurnRecs), Ready(s, ts), NEW c \in Callers,
         s.calls[c].msg \in Msgs
  PROVE  Ready(startSend(s, c), ts)
<1> DEFINE v == Bubbled(s, c)
           user == SendUser(s, c)
<1>1. s \in States
  BY DEF Ready, ClientOK
<1>2. /\ v \in States /\ v.calls = s.calls /\ v.cursor = s.cursor
      /\ v.page = [s.page EXCEPT !.list = SendList(s, c), !.last = SendUser(s, c)]
      /\ SendUser(s, c) \in Ids
      /\ startSend(s, c) = runTurn(v, c, SendUser(s, c), FALSE)
  BY <1>1, BubbledFields
<1> HIDE DEF v, user
<1>3. /\ v.page.live = s.page.live /\ v.page.hydrated = s.page.hydrated
      /\ v.page.queue = s.page.queue /\ v.page.seen = s.page.seen
  BY <1>1, <1>2 DEF States, Pages
<1>4. Ready(v, ts)
  BY <1>2, <1>3, SameReaders DEF Ready, ClientOK
<1>5. user \in MaybeId /\ v.calls[c].msg \in Msgs
  BY <1>2 DEF user, MaybeId
<1>6. Ready(runTurn(v, c, user, FALSE), ts)
  BY <1>4, <1>5, RunTurnReady
<1>7. QED
  BY <1>2, <1>6 DEF user

\* A failed send.
PendingOf(s, c, bubble) ==
  [msg |-> s.calls[c].msg, replace |-> s.calls[c].replace, bubble |-> bubble]

\* What setPendingSend changes.
LEMMA SetPendingFields ==
  ASSUME NEW s \in States, NEW c \in Callers, s.calls[c].msg \in Msgs, NEW bubble \in MaybeId
  PROVE  LET u == setPendingSend(s, c, bubble) IN
         /\ u \in States /\ u.calls = s.calls /\ u.cursor = s.cursor
         /\ u.page = [s.page EXCEPT !.pending = PendingOf(s, c, bubble)]
<1> DEFINE p == PendingOf(s, c, bubble)
           u == setPendingSend(s, c, bubble)
<1>1. s.calls[c] \in Calls
  BY DEF States
<1>2. p \in Pendings
  BY <1>1 DEF PendingOf, Pendings, Calls
<1>3. u = [s EXCEPT !.page.pending = p]
  BY DEF setPendingSend, PendingOf
<1> HIDE DEF p, u
<1>4. u = [s EXCEPT !.page = [@ EXCEPT !.pending = p]]
  BY <1>3 DEF States, Pages
<1>5. [s.page EXCEPT !.pending = p] \in Pages
  BY <1>2 DEF States, Pages
<1>6. u \in States /\ u.calls = s.calls /\ u.cursor = s.cursor
      /\ u.page = [s.page EXCEPT !.pending = p]
  BY <1>4, <1>5 DEF States
<1>7. QED
  BY <1>6 DEF u, p

\* The page after a send that failed,
FailPage(s, c, bubble) ==
  [s.page EXCEPT !.pending = PendingOf(s, c, bubble),
                 !.composer = IF s.calls[c].own THEN s.calls[c].msg ELSE @]

\* and all that Fail changes.
Failed(s, u, c, bubble) ==
  /\ u \in States /\ u.cursor = s.cursor
  /\ u.page = FailPage(s, c, bubble)
  /\ u.calls = [s.calls EXCEPT ![c] = Over]

\* Fail changes that.
LEMMA FailFields ==
  ASSUME NEW s \in States, NEW c \in Callers, s.calls[c].msg \in Msgs, NEW bubble \in MaybeId
  PROVE  Failed(s, Fail(s, c, bubble), c, bubble)
<1> DEFINE v == setPendingSend(s, c, bubble)
           m == IF s.calls[c].own THEN s.calls[c].msg ELSE s.page.composer
           u == Fail(s, c, bubble)
           g == FailPage(s, c, bubble)
<1>1. /\ v \in States /\ v.calls = s.calls /\ v.cursor = s.cursor
      /\ v.page = [s.page EXCEPT !.pending = PendingOf(s, c, bubble)]
  BY SetPendingFields
<1>2. v.page.composer = s.page.composer /\ m \in MaybeMsg
  BY <1>1 DEF States, Pages, MaybeMsg
<1>3. u = [v EXCEPT !.page.composer = IF s.calls[c].own THEN s.calls[c].msg ELSE @,
                    !.calls[c] = Over]
  BY DEF Fail
<1> HIDE DEF v, u
<1>4. u = [v EXCEPT !.page.composer = m, !.calls[c] = Over]
  BY <1>1, <1>2, <1>3
<1>5. g = [v.page EXCEPT !.composer = m]
  BY <1>1, <1>2 DEF FailPage, States, Pages
<1> HIDE DEF m, g
<1>6. u = [v EXCEPT !.page = g, !.calls = [@ EXCEPT ![c] = Over]]
  BY <1>1, <1>4, <1>5 DEF States, Pages
<1>7. g \in Pages
  BY <1>1, <1>2, <1>5 DEF States, Pages
<1>8. [s.calls EXCEPT ![c] = Over] \in [Callers -> Calls]
  BY IdleType DEF States
<1>9. u \in States /\ u.cursor = s.cursor /\ u.page = g /\ u.calls = [s.calls EXCEPT ![c] = Over]
  BY <1>1, <1>6, <1>7, <1>8 DEF States
<1>10. QED
  BY <1>9 DEF Failed, u, g

\* Fail keeps the invariant.
LEMMA FailReady ==
  ASSUME NEW s, NEW ts \in Seq(TurnRecs), Ready(s, ts), NEW c \in Callers,
         s.calls[c].msg \in Msgs, NEW bubble \in MaybeId, s.page.live # c
  PROVE  Ready(Fail(s, c, bubble), ts)
<1> DEFINE u == Fail(s, c, bubble)
           v == [s EXCEPT !.calls[c] = Over]
<1>1. s \in States
  BY DEF Ready, ClientOK
<1>2. Failed(s, u, c, bubble)
  BY <1>1, FailFields
<1>3. Over \in Calls /\ CallOK(Over, ts) /\ ~Alive(Over)
  BY IdleType, IdleOK DEF Alive, Over, Idle
<1>4. Ready(v, ts)
  BY <1>3, OneCallReady
<1>5. v.calls = u.calls /\ v.page = s.page /\ v.cursor = s.cursor
  BY <1>1, <1>2 DEF Failed, States
<1>6. /\ u.page.live = s.page.live /\ u.page.hydrated = s.page.hydrated
      /\ u.page.queue = s.page.queue /\ u.page.seen = s.page.seen
  BY <1>1, <1>2 DEF Failed, FailPage, States, Pages
<1> HIDE DEF u, v
<1>7. Ready(u, ts)
  BY <1>2, <1>4, <1>5, <1>6, SameReaders DEF Failed, Ready, ClientOK
<1>8. QED
  BY <1>7 DEF u

\* A message that enters the engine.
FreshCall(m, replace, own) == [Idle EXCEPT !.msg = m, !.replace = replace, !.own = own]
\* It waits when an answer is under way.
WaitingCall(m, replace, own) ==
  [FreshCall(m, replace, own) EXCEPT !.pc = IF replace = None THEN "steer" ELSE "cancel",
                                     !.net = "sent"]
\* It is on its way, and what was behind Retry is not any more.
Entered(s, m, replace, own) ==
  [s EXCEPT !.page = [@ EXCEPT !.pending = None],
            !.calls = [@ EXCEPT ![Slot(s)] = FreshCall(m, replace, own)]]

\* What can be said of such a call,
IsFresh(k, m, replace, own, pc, net) ==
  /\ k \in Calls /\ k.pc = pc /\ k.net = net
  /\ k.msg = m /\ k.replace = replace /\ k.own = own
  /\ k.turn = 0 /\ k.pos = 0 /\ ~k.aborted /\ ~k.again /\ k.segs = <<>>

\* and is true.
LEMMA FreshCallType ==
  ASSUME NEW m \in Msgs, NEW replace \in MaybeId, NEW own \in BOOLEAN
  PROVE  /\ IsFresh(FreshCall(m, replace, own), m, replace, own, "idle", "none")
         /\ IsFresh(WaitingCall(m, replace, own), m, replace, own,
                    IF replace = None THEN "steer" ELSE "cancel", "sent")
<1>1. FreshCall(m, replace, own) \in Calls
  BY IdleType DEF FreshCall, Calls, MaybeMsg
<1>2. WaitingCall(m, replace, own) \in Calls
  BY <1>1 DEF WaitingCall, Calls, Pcs, Nets
<1>3. QED
  BY <1>1, <1>2 DEF FreshCall, WaitingCall, Idle, IsFresh

\* submitMessage, in these terms.
LEMMA SubmitFields ==
  ASSUME NEW s \in States, NEW m \in Msgs, NEW replace \in MaybeId, NEW own \in BOOLEAN,
         Free(s) # {}
  PROVE  LET t == Entered(s, m, replace, own)
             c == Slot(s)
         IN /\ t \in States /\ t.page = [s.page EXCEPT !.pending = None]
            /\ t.cursor = s.cursor /\ t.calls = [s.calls EXCEPT ![c] = FreshCall(m, replace, own)]
            /\ submitMessage(s, m, replace, own) =
                 IF s.page.live = None THEN startSend(t, c)
                 ELSE [t EXCEPT !.calls[c] = WaitingCall(m, replace, own)]
<1> DEFINE c == Slot(s)
           k == FreshCall(m, replace, own)
           w == WaitingCall(m, replace, own)
           t == Entered(s, m, replace, own)
<1>1. c \in Callers
  BY SlotFree
<1>2. k \in Calls /\ w \in Calls
  BY FreshCallType DEF IsFresh
<1>3. t = [s EXCEPT !.page = [@ EXCEPT !.pending = None], !.calls = [@ EXCEPT ![c] = k]]
  BY DEF Entered
<1>4. submitMessage(s, m, replace, own) =
        LET v == [s EXCEPT !.page.pending = None, !.calls[c] = k]
        IN IF s.page.live = None THEN startSend(v, c)
           ELSE [v EXCEPT !.calls[c].pc = IF replace = None THEN "steer" ELSE "cancel",
                          !.calls[c].net = "sent"]
  BY DEF submitMessage, FreshCall
<1>5. w = [k EXCEPT !.pc = IF replace = None THEN "steer" ELSE "cancel", !.net = "sent"]
  BY DEF WaitingCall
<1> HIDE DEF c, k, w, t
<1>6. [s EXCEPT !.page.pending = None, !.calls[c] = k] = t
  BY <1>1, <1>2, <1>3 DEF States, Pages
<1>7. [s.page EXCEPT !.pending = None] \in Pages
  BY DEF States, Pages
<1>8. /\ t \in States /\ t.page = [s.page EXCEPT !.pending = None]
      /\ t.cursor = s.cursor /\ t.calls = [s.calls EXCEPT ![c] = k]
  BY <1>1, <1>2, <1>3, <1>7 DEF States
<1>9. t.calls[c] = k
  BY <1>1, <1>8 DEF States
<1>10. ASSUME NEW pc \in Pcs
       PROVE  [t EXCEPT !.calls[c].pc = pc, !.calls[c].net = "sent"]
              = [t EXCEPT !.calls[c] = [k EXCEPT !.pc = pc, !.net = "sent"]]
  BY <1>1, <1>2, <1>8, <1>9 DEF States, Calls
<1>11. (IF replace = None THEN "steer" ELSE "cancel") \in Pcs
  BY DEF Pcs
<1>12. QED
  BY <1>4, <1>5, <1>6, <1>8, <1>10, <1>11 DEF c, k, t, w

\* submitMessage keeps the invariant.
LEMMA SubmitReady ==
  ASSUME NEW s, NEW ts \in Seq(TurnRecs), Ready(s, ts), NEW m \in Msgs,
         NEW replace \in MaybeId, NEW own \in BOOLEAN, Free(s) # {}
  PROVE  Ready(submitMessage(s, m, replace, own), ts)
<1> DEFINE c == Slot(s)
           k == FreshCall(m, replace, own)
           w == WaitingCall(m, replace, own)
           t == Entered(s, m, replace, own)
           v == [s EXCEPT !.calls[c] = k]
<1>1. s \in States /\ c \in Callers /\ s.calls[c].pc = "idle"
  BY SlotFree DEF Ready, ClientOK
<1>2. /\ t \in States /\ t.page = [s.page EXCEPT !.pending = None]
      /\ t.cursor = s.cursor /\ t.calls = [s.calls EXCEPT ![c] = k]
      /\ submitMessage(s, m, replace, own) =
           IF s.page.live = None THEN startSend(t, c) ELSE [t EXCEPT !.calls[c] = w]
  BY <1>1, SubmitFields
<1>3. /\ IsFresh(k, m, replace, own, "idle", "none")
      /\ IsFresh(w, m, replace, own, IF replace = None THEN "steer" ELSE "cancel", "sent")
  BY FreshCallType
<1>5. s.page.live # c
  <2>1. s.page.live \in Callers \cup {None} /\ None \notin Callers
    BY <1>1, NoneAssumption DEF States, Pages
  <2>2. QED
    BY <1>1, <2>1 DEF Ready, ClientOK, LiveOK
<1> HIDE DEF c, k, w
<1>4. CallOK(k, ts) /\ ~Alive(k) /\ k.msg \in Msgs /\ CallOK(w, ts) /\ ~Alive(w)
  BY <1>3 DEF CallOK, Alive, IsFresh
<1>6. Ready(v, ts)
  BY <1>1, <1>3, <1>4, <1>5, OneCallReady DEF IsFresh
<1>7. v.calls = t.calls /\ v.page = s.page /\ v.cursor = s.cursor
  BY <1>1, <1>2 DEF States
<1>8. /\ t.page.live = s.page.live /\ t.page.hydrated = s.page.hydrated
      /\ t.page.queue = s.page.queue /\ t.page.seen = s.page.seen
  BY <1>1, <1>2 DEF States, Pages
<1> HIDE DEF t, v
<1>9. Ready(t, ts)
  BY <1>2, <1>6, <1>7, <1>8, SameReaders DEF Ready, ClientOK
<1>10. t.calls[c] = k
  BY <1>1, <1>2 DEF States
<1>11. Ready(startSend(t, c), ts)
  BY <1>1, <1>4, <1>9, <1>10, StartSendReady
<1>12. Ready([t EXCEPT !.calls[c] = w], ts)
  BY <1>1, <1>3, <1>4, <1>5, <1>8, <1>9, OneCallReady DEF IsFresh
<1>13. QED
  BY <1>2, <1>11, <1>12

\* The end of a call and of what is live.
Ended(s, c, list, queue, seen) ==
  [s EXCEPT !.page = [@ EXCEPT !.list = list, !.queue = queue, !.seen = seen, !.live = None],
            !.calls = [@ EXCEPT ![c] = Over]]

\* Its page,
EndedPage(s, list, queue, seen) ==
  [s.page EXCEPT !.list = list, !.queue = queue, !.seen = seen, !.live = None]

\* and all that changes.
IsEnded(s, u, c, list, queue, seen) ==
  /\ u \in States /\ u.cursor = s.cursor /\ u.calls = [s.calls EXCEPT ![c] = Over]
  /\ u.page = EndedPage(s, list, queue, seen)

\* The end of a call changes that,
LEMMA EndedFields ==
  ASSUME NEW s \in States, NEW c \in Callers, NEW list \in Seq(Bubbles),
         NEW queue \in Seq(Msgs), NEW seen \in SUBSET Msgs
  PROVE  IsEnded(s, Ended(s, c, list, queue, seen), c, list, queue, seen)
<1>1. [s.page EXCEPT !.list = list, !.queue = queue, !.seen = seen, !.live = None] \in Pages
  BY DEF States, Pages
<1>2. QED
  BY <1>1, IdleType DEF Ended, EndedPage, IsEnded, States

\* and keeps the invariant.
LEMMA EndedReady ==
  ASSUME NEW s, NEW ts \in Seq(TurnRecs), Ready(s, ts), NEW c \in Callers,
         NEW list \in Seq(Bubbles), NEW queue \in Seq(Msgs), NEW seen \in SUBSET Msgs,
         Range(queue) \subseteq seen
  PROVE  Ready(Ended(s, c, list, queue, seen), ts)
<1> DEFINE u == Ended(s, c, list, queue, seen)
           n == [s EXCEPT !.page = [@ EXCEPT !.live = None]]
           v == [n EXCEPT !.calls[c] = Over]
<1>1. s \in States
  BY DEF Ready, ClientOK
<1>2. /\ n \in States /\ n.calls = s.calls /\ n.cursor = s.cursor
      /\ n.page.live = None /\ n.page.queue = s.page.queue /\ n.page.seen = s.page.seen
      /\ n.page.hydrated = s.page.hydrated
  BY <1>1 DEF States, Pages
<1> HIDE DEF n
<1>3. Ready(n, ts)
  BY <1>2, SameReaders DEF Ready, ClientOK
<1>4. Over \in Calls /\ CallOK(Over, ts) /\ ~Alive(Over)
  BY IdleType, IdleOK DEF Alive, Over, Idle
<1>5. None # c
  BY NoneAssumption
<1>6. Ready(v, ts)
  BY <1>2, <1>3, <1>4, <1>5, OneCallReady
<1>7. v.calls = [s.calls EXCEPT ![c] = Over] /\ v.page = n.page /\ v.cursor = s.cursor
  BY <1>2 DEF States
<1>8. IsEnded(s, u, c, list, queue, seen)
  BY <1>1, EndedFields
<1>9. /\ u.page.live = None /\ u.page.hydrated = s.page.hydrated
      /\ u.page.queue = queue /\ u.page.seen = seen
  BY <1>1, <1>8 DEF States, Pages, IsEnded, EndedPage
<1> HIDE DEF u, v
<1>10. Ready(u, ts)
  BY <1>2, <1>6, <1>7, <1>8, <1>9, SameReaders DEF IsEnded, Ready, ClientOK
<1>11. QED
  BY <1>10 DEF u

\* What invalidateSession changes.
LEMMA InvalidateFields ==
  ASSUME NEW s \in States
  PROVE  LET u == invalidateSession(s) IN
         /\ u \in States /\ u.calls = s.calls /\ u.cursor = s.cursor
         /\ u.page = [s.page EXCEPT !.read = [st |-> "sent", log |-> <<>>]]
<1> DEFINE r == [st |-> "sent", log |-> <<>>]
           u == invalidateSession(s)
<1>1. r \in Reads
  <2>1. <<>> \in Seq(Records)
    OBVIOUS
  <2>2. QED
    BY <2>1 DEF Reads
<1>2. u = [s EXCEPT !.page.read = r]
  BY DEF invalidateSession
<1> HIDE DEF r
<1>3. [s EXCEPT !.page.read = r] = [s EXCEPT !.page = [@ EXCEPT !.read = r]]
  BY DEF States, Pages
<1>4. [s.page EXCEPT !.read = r] \in Pages
  BY <1>1 DEF States, Pages
<1>5. /\ u \in States /\ u.calls = s.calls /\ u.cursor = s.cursor
      /\ u.page = [s.page EXCEPT !.read = r]
  BY <1>2, <1>3, <1>4 DEF States
<1>6. QED
  BY <1>5 DEF r

\* invalidateSession keeps the invariant.
LEMMA InvalidateReady ==
  ASSUME NEW s, NEW ts, Ready(s, ts)
  PROVE  Ready(invalidateSession(s), ts)
<1> DEFINE u == invalidateSession(s)
<1>1. s \in States
  BY DEF Ready, ClientOK
<1>2. /\ u \in States /\ u.calls = s.calls /\ u.cursor = s.cursor
      /\ u.page = [s.page EXCEPT !.read = [st |-> "sent", log |-> <<>>]]
  BY <1>1, InvalidateFields
<1> HIDE DEF u
<1>3. /\ u.page.live = s.page.live /\ u.page.hydrated = s.page.hydrated
      /\ u.page.queue = s.page.queue /\ u.page.seen = s.page.seen
  BY <1>1, <1>2 DEF States, Pages
<1>4. Ready(u, ts)
  BY <1>2, <1>3, SameReaders DEF Ready, ClientOK
<1>5. QED
  BY <1>4 DEF u

\* s with the page g and the calls f.
Holding(s, g, f) == [s EXCEPT !.page = g, !.calls = f]

\* The ends of a call in the code are this end.
LEMMA EndedIs ==
  ASSUME NEW s \in States, NEW c \in Callers, NEW list \in Seq(Bubbles),
         NEW queue \in Seq(Msgs), NEW seen \in SUBSET Msgs
  PROVE  /\ Finally([s EXCEPT !.page.list = list, !.page.queue = queue, !.page.seen = seen,
                              !.calls[c] = Over])
            = Ended(s, c, list, queue, seen)
         /\ Finally([s EXCEPT !.page.list = list, !.calls[c] = Over])
            = Ended(s, c, list, s.page.queue, s.page.seen)
         /\ Finally([s EXCEPT !.calls[c] = Over])
            = Ended(s, c, s.page.list, s.page.queue, s.page.seen)
<1>0. /\ s.page.list \in Seq(Bubbles) /\ s.page.queue \in Seq(Msgs) /\ s.page.seen \in SUBSET Msgs
      /\ s.page \in Pages
  BY DEF States, Pages
<1>1. ASSUME NEW g \in Pages, NEW f \in [Callers -> Calls]
      PROVE  Finally(Holding(s, g, f)) = Holding(s, [g EXCEPT !.live = None], f)
  <2> DEFINE t == [s EXCEPT !.page = g, !.calls = f]
  <2>1. t \in States /\ t.page = g /\ t.calls = f /\ t.cursor = s.cursor
    BY DEF States
  <2> HIDE DEF t
  <2>2. Finally(t) = [t EXCEPT !.page = [@ EXCEPT !.live = None]]
    BY <2>1 DEF Finally, States, Pages
  <2>3. [g EXCEPT !.live = None] \in Pages
    BY DEF Pages
  <2>4. ASSUME NEW h PROVE [t EXCEPT !.page = h] = [s EXCEPT !.page = h, !.calls = f]
    BY <2>1 DEF t, States
  <2>5. QED
    BY <2>1, <2>2, <2>4 DEF Holding, t
<1> DEFINE a == [s EXCEPT !.page.list = list, !.page.queue = queue, !.page.seen = seen,
                          !.calls[c] = Over]
           g == [s.page EXCEPT !.list = list, !.queue = queue, !.seen = seen]
           b == [s EXCEPT !.page.list = list, !.calls[c] = Over]
           h == [s.page EXCEPT !.list = list]
           d == [s EXCEPT !.calls[c] = Over]
           f == [s.calls EXCEPT ![c] = Over]
<1>2. a = Holding(s, g, f)
  BY DEF Holding, States, Pages
<1>3. b = Holding(s, h, f)
  BY DEF Holding, States, Pages
<1>4. g \in Pages /\ h \in Pages
  BY DEF States, Pages
<1>5. EndedPage(s, list, queue, seen) = [g EXCEPT !.live = None]
  BY <1>0 DEF EndedPage, Pages
<1>6. EndedPage(s, list, s.page.queue, s.page.seen) = [h EXCEPT !.live = None]
  BY <1>0 DEF EndedPage, Pages
<1>7. EndedPage(s, s.page.list, s.page.queue, s.page.seen) = [s.page EXCEPT !.live = None]
  BY <1>0 DEF EndedPage, Pages
<1>8. \A l, q, n : Ended(s, c, l, q, n) = Holding(s, EndedPage(s, l, q, n), f)
  BY DEF Holding, Ended, EndedPage
<1>9. d = Holding(s, s.page, f) /\ f \in [Callers -> Calls]
  BY IdleType DEF Holding, States
<1> HIDE DEF a, b, d, f, g, h
<1>10. Finally(a) = Ended(s, c, list, queue, seen)
  BY <1>1, <1>2, <1>4, <1>5, <1>8, <1>9
<1>11. Finally(b) = Ended(s, c, list, s.page.queue, s.page.seen)
  BY <1>1, <1>3, <1>4, <1>6, <1>8, <1>9
<1>12. Finally(d) = Ended(s, c, s.page.list, s.page.queue, s.page.seen)
  <2>1. s.page \in Pages
    BY <1>0
  <2>2. Finally(Holding(s, s.page, f)) = Holding(s, [s.page EXCEPT !.live = None], f)
    BY <1>1, <1>9, <2>1
  <2>3. Finally(d) = Holding(s, EndedPage(s, s.page.list, s.page.queue, s.page.seen), f)
    BY <1>7, <1>9, <2>2
  <2>4. QED
    BY <1>8, <2>3
<1>13. QED
  BY <1>10, <1>11, <1>12 DEF a, b, d

\* The messages that the answer of c has not taken in and that are forwarded.
LateOf(s, c) ==
  LET rest == pendingUserSegmentsOf(s.calls[c].segs)
  IN Only(rest, {g \in Range(rest) : g.msg \notin s.page.seen})
\* Their texts, the list with the answer in it, and what has then been seen.
LateMsgs(s, c) == [i \in DOMAIN LateOf(s, c) |-> LateOf(s, c)[i].msg]
FinalList(s, c, st) == upsertAssistantMessage(s.page.list, assistantMessage(s.calls[c].answer, st))
SeenBy(s, c) == s.page.seen \cup Range(LateMsgs(s, c))

\* What is forwarded has not been taken in, and has not been seen before.
LEMMA LateType ==
  ASSUME NEW s \in States, NEW c \in Callers
  PROVE  /\ LateOf(s, c) \in Seq(Segments) /\ LateMsgs(s, c) \in Seq(Msgs)
         /\ Range(LateMsgs(s, c)) \subseteq Msgs
         /\ \A g \in Range(LateOf(s, c)) :
              g \in Range(s.calls[c].segs) /\ ~g.injected /\ g.msg \notin s.page.seen
         /\ \A g \in Range(s.calls[c].segs) :
              ~g.injected /\ g.msg \notin s.page.seen => g \in Range(LateOf(s, c))
         /\ Len(LateMsgs(s, c)) = Len(LateOf(s, c))
<1> DEFINE segs == s.calls[c].segs
           A == {g \in Range(segs) : ~g.injected}
           rest == Only(segs, A)
           B == {g \in Range(rest) : g.msg \notin s.page.seen}
           late == Only(rest, B)
<1>1. segs \in Seq(Segments)
  BY DEF States, Calls
<1>2. LateOf(s, c) = late
  BY DEF LateOf, pendingUserSegmentsOf
<1> HIDE DEF segs
<1>3. IsOnly(rest, Segments, segs, A)
  BY <1>1, OnlyIs
<1>4. Range(rest) = A
  <2> HIDE DEF rest
  <2>1. QED
    BY <1>3 DEF Range, IsOnly
<1> HIDE DEF rest
<1>5. IsOnly(late, Segments, rest, B)
  <2>1. rest \in Seq(Segments)
    BY <1>3 DEF IsOnly
  <2>2. QED
    BY <2>1, OnlyIs
<1>6. Range(late) = B
  <2> HIDE DEF late
  <2>1. QED
    BY <1>5 DEF Range, IsOnly
<1> HIDE DEF late
<1>7. \A g \in Segments : g.msg \in Msgs
  BY DEF Segments
<1>8. \A i \in DOMAIN late : late[i] \in Segments
  BY <1>5 DEF IsOnly
<1>9. LateMsgs(s, c) = [i \in DOMAIN late |-> late[i].msg]
  BY <1>2 DEF LateMsgs
<1>10. /\ LateMsgs(s, c) \in Seq(Msgs) /\ Len(LateMsgs(s, c)) = Len(late)
  <2>1. DOMAIN late = 1..Len(late) /\ Len(late) \in Nat
    BY <1>5 DEF IsOnly
  <2>2. QED
    BY <1>7, <1>8, <1>9, <2>1
<1>11. Range(LateMsgs(s, c)) \subseteq Msgs
  BY <1>10 DEF Range
<1>12. QED
  BY <1>2, <1>4, <1>5, <1>6, <1>10, <1>11 DEF A, B, segs, IsOnly

\* The end of an answer, in these terms.
LEMMA TerminalIs ==
  ASSUME NEW s \in States, NEW c \in Callers, s.calls[c].answer \in Ids
  PROVE  /\ Terminal(s, c) = invalidateSession(Ended(s, c, FinalList(s, c, s.calls[c].st),
                                          s.page.queue \o LateMsgs(s, c), SeenBy(s, c)))
         /\ FinalList(s, c, s.calls[c].st) \in Seq(Bubbles)
         /\ FinalList(s, c, "error") \in Seq(Bubbles)
         /\ s.page.queue \o LateMsgs(s, c) \in Seq(Msgs)
         /\ SeenBy(s, c) \in SUBSET Msgs
<1> DEFINE late == LateOf(s, c)
           l == FinalList(s, c, s.calls[c].st)
           q == s.page.queue \o LateMsgs(s, c)
           n == SeenBy(s, c)
<1>1. /\ s.page.list \in Seq(Bubbles) /\ s.page.queue \in Seq(Msgs) /\ s.page.seen \in SUBSET Msgs
      /\ s.calls[c].st \in {"streaming", "complete", "cancelled", "error"}
  BY DEF States, Pages, Calls
<1>2. \A st \in {"streaming", "complete", "cancelled", "error"} : FinalList(s, c, st) \in Seq(Bubbles)
  <2>1. \A st \in {"streaming", "complete", "cancelled", "error"} :
          assistantMessage(s.calls[c].answer, st) \in Bubbles
    BY BubbleTypes DEF assistantMessage, AnswerBubbles
  <2>2. QED
    BY <1>1, <2>1, UpsertType DEF FinalList
<1>3. q \in Seq(Msgs) /\ n \in SUBSET Msgs /\ l \in Seq(Bubbles)
  BY <1>1, <1>2, LateType DEF SeenBy
<1>4. {late[i].msg : i \in DOMAIN late} = Range(LateMsgs(s, c))
  BY DEF LateMsgs, Range
<1>5. Terminal(s, c) =
        invalidateSession(Finally(
          [s EXCEPT !.page.list = l, !.page.queue = @ \o LateMsgs(s, c),
                    !.page.seen = @ \cup {late[i].msg : i \in DOMAIN late}, !.calls[c] = Over]))
  <2>1. upsertAssistantMessage(s.page.list, assistantMessage(s.calls[c].answer, s.calls[c].st)) = l
    BY DEF FinalList
  <2>2. QED
    BY <2>1 DEF Terminal, LateOf, LateMsgs
<1> HIDE DEF l, late
<1>6. [s EXCEPT !.page.list = l, !.page.queue = @ \o LateMsgs(s, c),
                    !.page.seen = @ \cup {late[i].msg : i \in DOMAIN late}, !.calls[c] = Over]
      = [s EXCEPT !.page.list = l, !.page.queue = q, !.page.seen = n, !.calls[c] = Over]
  BY <1>4 DEF States, Pages, SeenBy
<1> HIDE DEF q, n
<1>7. Terminal(s, c) = invalidateSession(Ended(s, c, l, q, n))
  <2>1. Finally([s EXCEPT !.page.list = l, !.page.queue = q, !.page.seen = n, !.calls[c] = Over])
        = Ended(s, c, l, q, n)
    BY <1>3, EndedIs
  <2>2. QED
    BY <1>5, <1>6, <2>1
<1>8. QED
  BY <1>2, <1>3, <1>7 DEF l, q, n

\* Terminal keeps the invariant.
LEMMA TerminalReady ==
  ASSUME NEW s, NEW ts \in Seq(TurnRecs), Ready(s, ts), NEW c \in Callers,
         s.calls[c].answer \in Ids
  PROVE  Ready(Terminal(s, c), ts)
<1> DEFINE l == FinalList(s, c, s.calls[c].st)
           q == s.page.queue \o LateMsgs(s, c)
           n == SeenBy(s, c)
<1>1. s \in States /\ Range(s.page.queue) \subseteq s.page.seen /\ s.page.queue \in Seq(Msgs)
  BY DEF Ready, ClientOK, States, Pages
<1>2. /\ Terminal(s, c) = invalidateSession(Ended(s, c, l, q, n))
      /\ l \in Seq(Bubbles) /\ q \in Seq(Msgs) /\ n \in SUBSET Msgs
  BY <1>1, TerminalIs
<1>3. Range(q) \subseteq n
  <2>1. LateMsgs(s, c) \in Seq(Msgs)
    BY <1>1, LateType
  <2>2. QED
    BY <1>1, <2>1 DEF Range, SeenBy
<1> HIDE DEF l, q, n
<1>4. Ready(Ended(s, c, l, q, n), ts)
  BY <1>2, <1>3, EndedReady
<1>5. QED
  BY <1>2, <1>4, InvalidateReady

\* What Finally changes.
LEMMA FinallyFields ==
  ASSUME NEW s \in States
  PROVE  LET u == Finally(s) IN
         /\ u \in States /\ u.calls = s.calls /\ u.cursor = s.cursor
         /\ u.page = [s.page EXCEPT !.live = None]
<1>1. Finally(s) = [s EXCEPT !.page = [@ EXCEPT !.live = None]]
  BY DEF Finally, States, Pages
<1>2. [s.page EXCEPT !.live = None] \in Pages
  BY DEF States, Pages
<1>3. QED
  BY <1>1, <1>2 DEF States

\* Finally keeps the invariant.
LEMMA FinallyReady ==
  ASSUME NEW s, NEW ts, Ready(s, ts)
  PROVE  Ready(Finally(s), ts)
<1> DEFINE u == Finally(s)
<1>1. s \in States
  BY DEF Ready, ClientOK
<1>2. /\ u \in States /\ u.calls = s.calls /\ u.cursor = s.cursor
      /\ u.page = [s.page EXCEPT !.live = None]
  BY <1>1, FinallyFields
<1> HIDE DEF u
<1>3. /\ u.page.live = None /\ u.page.hydrated = s.page.hydrated
      /\ u.page.queue = s.page.queue /\ u.page.seen = s.page.seen
  BY <1>1, <1>2 DEF States, Pages
<1>4. Ready(u, ts)
  BY <1>2, <1>3, SameReaders DEF Ready, ClientOK
<1>5. QED
  BY <1>4 DEF u

\* What there is of a broken answer.
Partial(s, c) == Ended(s, c, FinalList(s, c, "error"), s.page.queue, s.page.seen)
\* A stream that broke off and had nobody to tell.
Dropped(s, c) == Ended(s, c, s.page.list, s.page.queue, s.page.seen)

\* The ends of a stream that breaks off, in these terms.
LEMMA BrokenIs ==
  ASSUME NEW s \in States, NEW c \in Callers, s.calls[c].answer \in Ids
  PROVE  Broken(s, c) =
           IF s.calls[c].meta
           THEN IF s.calls[c].replace = None THEN Partial(s, c) ELSE invalidateSession(Partial(s, c))
           ELSE IF s.calls[c].msg = None THEN Dropped(s, c)
           ELSE Fail(Finally(s), c, failedBubble(s, c))
<1> DEFINE l == FinalList(s, c, "error")
<1>1. l \in Seq(Bubbles)
  BY TerminalIs
<1>2. /\ s.page.list \in Seq(Bubbles) /\ s.page.queue \in Seq(Msgs) /\ s.page.seen \in SUBSET Msgs
  BY DEF States, Pages
<1> HIDE DEF l
<1>3. Finally([s EXCEPT !.page.list = l, !.calls[c] = Over]) = Ended(s, c, l, s.page.queue, s.page.seen)
  BY <1>1, <1>2, EndedIs
<1>4. Finally([s EXCEPT !.calls[c] = Over]) = Dropped(s, c)
  BY <1>2, EndedIs DEF Dropped
<1>5. Finally([s EXCEPT !.page.list = upsertAssistantMessage(@, assistantMessage(s.calls[c].answer, "error")),
                        !.calls[c] = Over]) = Partial(s, c)
  BY <1>3 DEF l, FinalList, Partial
<1>6. QED
  BY <1>4, <1>5 DEF Broken

\* Broken keeps the invariant.
LEMMA BrokenReady ==
  ASSUME NEW s, NEW ts \in Seq(TurnRecs), Ready(s, ts), NEW c \in Callers,
         s.calls[c].pc \in {"post", "stream"}
  PROVE  Ready(Broken(s, c), ts)
<1>1. s \in States /\ s.calls[c] \in Calls /\ s.calls[c].answer \in Ids
  BY DEF Ready, ClientOK, CallOK, States
<1>2. /\ s.page.list \in Seq(Bubbles) /\ s.page.queue \in Seq(Msgs) /\ s.page.seen \in SUBSET Msgs
      /\ Range(s.page.queue) \subseteq s.page.seen /\ s.page.last \in MaybeId
  BY <1>1 DEF States, Pages, Ready, ClientOK
<1>3. FinalList(s, c, "error") \in Seq(Bubbles)
  BY <1>1, TerminalIs
<1>4. Ready(Partial(s, c), ts)
  BY <1>2, <1>3, EndedReady DEF Partial
<1>5. Ready(Dropped(s, c), ts)
  BY <1>2, EndedReady DEF Dropped
<1>6. CASE s.calls[c].msg # None
  <2> DEFINE f == Finally(s)
  <2>1. f \in States /\ f.calls = s.calls /\ f.page = [s.page EXCEPT !.live = None]
    BY <1>1, FinallyFields
  <2>2. Ready(f, ts)
    BY FinallyReady
  <2>3. f.page.live = None
    BY <1>1, <2>1 DEF States, Pages
  <2>4. f.calls[c].msg \in Msgs
    BY <1>1, <1>6, <2>1 DEF Calls, MaybeMsg
  <2>5. failedBubble(s, c) \in MaybeId
    BY <1>2 DEF failedBubble, MaybeId
  <2>6. None # c
    BY NoneAssumption
  <2> HIDE DEF f
  <2>7. Ready(Fail(f, c, failedBubble(s, c)), ts)
    BY <2>2, <2>3, <2>4, <2>5, <2>6, FailReady
  <2>8. QED
    BY <1>1, <1>4, <1>6, <2>7, BrokenIs, InvalidateReady DEF f
<1>7. CASE s.calls[c].msg = None
  BY <1>1, <1>4, <1>5, <1>7, BrokenIs, InvalidateReady
<1>8. QED
  BY <1>6, <1>7

\* What a frame makes of the call and of the list.
ConsumedCall(k, e) ==
  CASE e.type = "meta" -> [k EXCEPT !.pos = @ + 1, !.meta = TRUE, !.user = Backend(k.turn),
                                    !.answer = Backend(k.turn)]
    [] e.type = "user_message" ->
         [k EXCEPT !.pos = @ + 1, !.segs = mergeUserSegment(@, e.msg, e.injected)]
    [] e.type = "done" -> [k EXCEPT !.pos = @ + 1, !.st = e.msg]

\* The list after a frame,
ConsumedList(list, k, e) ==
  IF e.type = "meta" /\ k.msg # None THEN reconcileMetaIds(list, k.user, Backend(k.turn)) ELSE list

\* and all that a frame changes.
IsConsumed(s, u, c, e) ==
  /\ u \in States
  /\ u.page = [s.page EXCEPT !.live = c, !.list = ConsumedList(@, s.calls[c], e)]
  /\ u.cursor = IF e.type = "done" THEN 0 ELSE s.calls[c].pos + 1
  /\ u.calls = [s.calls EXCEPT ![c] = ConsumedCall(@, e)]

\* What a frame leaves of the call.
LEMMA ConsumedCallType ==
  ASSUME NEW k \in Calls, k.turn # 0, NEW e \in Events
  PROVE  /\ ConsumedCall(k, e) \in Calls
         /\ LET w == ConsumedCall(k, e) IN
            /\ w.pc = k.pc /\ w.net = k.net /\ w.msg = k.msg /\ w.replace = k.replace
            /\ w.aborted = k.aborted /\ w.turn = k.turn /\ w.pos = k.pos + 1
            /\ w.own = k.own /\ w.again = k.again
            /\ w.answer = IF e.type = "meta" THEN Backend(k.turn) ELSE k.answer
<1>1. Backend(k.turn) \in Ids /\ k.pos + 1 \in Nat
  <2>1. k.turn \in 1..MaxTurns /\ k.pos \in Nat
    BY ClientAssumption DEF Calls
  <2>2. QED
    BY <2>1, IdTypes
<1>2. CASE e.type = "meta"
  <2>1. ConsumedCall(k, e) = [k EXCEPT !.pos = @ + 1, !.meta = TRUE, !.user = Backend(k.turn),
                                    !.answer = Backend(k.turn)]
    BY <1>2 DEF ConsumedCall
  <2> DEFINE id == Backend(k.turn)
  <2>2. ConsumedCall(k, e) = [k EXCEPT !.pos = k.pos + 1, !.meta = TRUE, !.user = id, !.answer = id]
    BY <2>1
  <2>3. id \in MaybeId
    BY <1>1 DEF MaybeId
  <2> HIDE DEF id
  <2>4. ConsumedCall(k, e) \in Calls
    BY <1>1, <2>2, <2>3 DEF Calls
  <2>5. ConsumedCall(k, e).answer = id
    BY <2>2 DEF Calls
  <2>6. QED
    BY <1>1, <1>2, <2>2, <2>4, <2>5 DEF Calls, id
<1>3. CASE e.type = "user_message"
  <2>1. ConsumedCall(k, e) = [k EXCEPT !.pos = @ + 1, !.segs = mergeUserSegment(@, e.msg, e.injected)]
    BY <1>3 DEF ConsumedCall
  <2>2. k.segs \in Seq(Segments) /\ e.msg \in Msgs /\ e.injected \in BOOLEAN
    BY <1>3 DEF Events, Calls
  <2>3. mergeUserSegment(k.segs, e.msg, e.injected) \in Seq(Segments)
    BY <2>2, SegmentsType
  <2> DEFINE g == mergeUserSegment(k.segs, e.msg, e.injected)
  <2>4. ConsumedCall(k, e) = [k EXCEPT !.pos = k.pos + 1, !.segs = g]
    BY <2>1 DEF Calls
  <2> HIDE DEF g
  <2>5. g \in Seq(Segments)
    BY <2>3 DEF g
  <2>6. QED
    BY <1>1, <1>3, <2>4, <2>5 DEF Calls
<1>4. CASE e.type = "done"
  <2>1. ConsumedCall(k, e) = [k EXCEPT !.pos = @ + 1, !.st = e.msg]
    BY <1>4 DEF ConsumedCall
  <2>2. e.msg \in {"complete", "cancelled", "error"}
    BY <1>4 DEF Events
  <2>3. QED
    BY <1>1, <1>4, <2>1, <2>2 DEF Calls
<1>5. QED
  BY <1>2, <1>3, <1>4 DEF Events

\* consumeEvent changes that.
LEMMA ConsumeIs ==
  ASSUME NEW s \in States, NEW c \in Callers, s.calls[c].turn # 0, NEW e \in Events
  PROVE  IsConsumed(s, consumeEvent(s, c, e), c, e)
<1> DEFINE k == s.calls[c]
           n == k.pos + 1
           id == Backend(k.turn)
           cur == IF e.type = "done" THEN 0 ELSE n
           p == [k EXCEPT !.pos = n]
           t == [publishTurn(s, c) EXCEPT !.calls[c].pos = n, !.cursor = cur]
           g == [s.page EXCEPT !.live = c]
           w == ConsumedCall(k, e)
           list == ConsumedList(s.page.list, k, e)
           h == [s.page EXCEPT !.live = c, !.list = ConsumedList(@, k, e)]
           u == consumeEvent(s, c, e)
<1>1. k \in Calls /\ n \in Nat /\ cur \in Nat /\ p \in Calls /\ w \in Calls
      /\ s.page.list \in Seq(Bubbles) /\ s.calls \in [Callers -> Calls]
  <2>1. k \in Calls
    BY DEF States
  <2>2. w \in Calls
    BY <2>1, ConsumedCallType
  <2>3. n \in Nat /\ p \in Calls
    BY <2>1 DEF Calls
  <2>4. QED
    BY <2>1, <2>2, <2>3 DEF States, Pages
<1>2. id \in Ids
  BY <1>1, IdTypes, ClientAssumption DEF Calls
<1>3. list \in Seq(Bubbles)
  BY <1>1, <1>2, ReconcileType DEF ConsumedList
<1>4. u = CASE e.type = "meta" ->
               [t EXCEPT !.calls[c] = [@ EXCEPT !.meta = TRUE, !.user = id, !.answer = id],
                      !.page.list = IF k.msg = None THEN @ ELSE reconcileMetaIds(@, k.user, id)]
          [] e.type = "user_message" ->
               [t EXCEPT !.calls[c].segs = mergeUserSegment(@, e.msg, e.injected)]
          [] e.type = "done" -> [t EXCEPT !.calls[c].st = e.msg]
  BY DEF consumeEvent
<1>5. t = [[s EXCEPT !.page.live = c] EXCEPT !.calls[c].pos = n, !.cursor = cur]
  BY DEF publishTurn
<1>6. /\ w = CASE e.type = "meta" -> [k EXCEPT !.pos = @ + 1, !.meta = TRUE, !.user = id, !.answer = id]
               [] e.type = "user_message" ->
                    [k EXCEPT !.pos = @ + 1, !.segs = mergeUserSegment(@, e.msg, e.injected)]
               [] e.type = "done" -> [k EXCEPT !.pos = @ + 1, !.st = e.msg]
      /\ list = IF e.type = "meta" /\ k.msg # None THEN reconcileMetaIds(s.page.list, k.user, id)
                ELSE s.page.list
  BY DEF ConsumedCall, ConsumedList
<1>7. n = k.pos + 1
  OBVIOUS
<1>8. p = [k EXCEPT !.pos = n]
  OBVIOUS
<1>9. h = [g EXCEPT !.list = list] /\ g \in Pages /\ g.list = s.page.list
  BY <1>3 DEF States, Pages
<1> HIDE DEF t, id, cur, w, u, list, h
<1>10. t \in States /\ t.page = g /\ t.calls = [s.calls EXCEPT ![c] = p] /\ t.cursor = cur
  <2> DEFINE b == [s EXCEPT !.page.live = c]
  <2>1. b \in States /\ b.page = g /\ b.calls = s.calls
    BY DEF States, Pages
  <2> HIDE DEF b, n, g, k
  <2>2. t = [b EXCEPT !.calls[c].pos = n, !.cursor = cur]
    BY <1>5 DEF b
  <2>3. t = [b EXCEPT !.calls = [@ EXCEPT ![c] = p], !.cursor = cur]
    BY <1>1, <1>8, <2>1, <2>2 DEF States, Calls, k
  <2>4. [s.calls EXCEPT ![c] = p] \in [Callers -> Calls]
    BY <1>1 DEF States
  <2>5. QED
    BY <1>1, <2>1, <2>3, <2>4 DEF States
<1>11. t.calls[c] = p
  BY <1>1, <1>10
<1>12. h \in Pages
  BY <1>3, <1>9 DEF Pages
<1>13. u = [t EXCEPT !.page = h, !.calls = [@ EXCEPT ![c] = w]]
  <2> HIDE DEF g, n, p
  <2>1. CASE e.type = "meta"
    <3>1. u = [t EXCEPT !.calls[c] = [@ EXCEPT !.meta = TRUE, !.user = id, !.answer = id],
                        !.page.list = IF k.msg = None THEN @ ELSE reconcileMetaIds(@, k.user, id)]
      BY <1>4, <2>1
    <3>2. w = [p EXCEPT !.meta = TRUE, !.user = id, !.answer = id]
      BY <1>1, <1>6, <1>7, <1>8, <2>1 DEF Calls
    <3>3. list = IF k.msg = None THEN s.page.list ELSE reconcileMetaIds(s.page.list, k.user, id)
      BY <1>6, <2>1
    <3>4. u = [t EXCEPT !.calls[c] = w, !.page.list = list]
      BY <1>9, <1>10, <1>11, <3>1, <3>2, <3>3
    <3>5. QED
      BY <1>1, <1>3, <1>9, <1>10, <3>4 DEF States, Pages
  <2>2. CASE e.type = "user_message"
    <3>1. u = [t EXCEPT !.calls[c].segs = mergeUserSegment(@, e.msg, e.injected)]
      BY <1>4, <2>2
    <3> DEFINE m == mergeUserSegment(k.segs, e.msg, e.injected)
    <3>2. w = [k EXCEPT !.pos = n, !.segs = m]
      BY <1>1, <1>6, <1>7, <2>2 DEF Calls
    <3>3. p.segs = k.segs
      BY <1>1, <1>8 DEF Calls
    <3>4. u = [t EXCEPT !.calls[c].segs = m]
      BY <1>10, <1>11, <3>1, <3>3
    <3> HIDE DEF m
    <3>5. w = [p EXCEPT !.segs = m]
      BY <1>1, <1>8, <3>2 DEF Calls
    <3>6. u = [t EXCEPT !.calls = [@ EXCEPT ![c] = w]]
      BY <1>1, <1>10, <1>11, <3>4, <3>5 DEF States, Calls
    <3>7. h = t.page
      BY <1>6, <1>9, <1>10, <2>2 DEF Pages
    <3>8. QED
      BY <1>10, <3>6, <3>7 DEF States
  <2>3. CASE e.type = "done"
    <3>1. u = [t EXCEPT !.calls[c].st = e.msg]
      BY <1>4, <2>3
    <3>2. w = [k EXCEPT !.pos = n, !.st = e.msg]
      BY <1>1, <1>6, <1>7, <2>3 DEF Calls
    <3>5. w = [p EXCEPT !.st = e.msg]
      BY <1>1, <1>8, <3>2 DEF Calls
    <3>6. u = [t EXCEPT !.calls = [@ EXCEPT ![c] = w]]
      BY <1>1, <1>10, <1>11, <3>1, <3>5 DEF States, Calls
    <3>7. h = t.page
      BY <1>6, <1>9, <1>10, <2>3 DEF Pages
    <3>8. QED
      BY <1>10, <3>6, <3>7 DEF States
  <2>4. QED
    BY <2>1, <2>2, <2>3 DEF Events
<1>14. [t.calls EXCEPT ![c] = w] = [s.calls EXCEPT ![c] = w] /\ [s.calls EXCEPT ![c] = w] \in [Callers -> Calls]
  BY <1>1, <1>10
<1>15. /\ u \in States /\ u.page = h /\ u.cursor = cur /\ u.calls = [s.calls EXCEPT ![c] = w]
  BY <1>1, <1>10, <1>12, <1>13, <1>14 DEF States
<1>16. QED
  BY <1>15 DEF IsConsumed, h, u, w, cur

\* consumeEvent keeps the invariant.
LEMMA ConsumeReady ==
  ASSUME NEW s, NEW ts \in Seq(TurnRecs), Ready(s, ts), NEW c \in Callers,
         s.calls[c].pc = "stream", ~s.calls[c].aborted,
         s.calls[c].pos < Len(ts[s.calls[c].turn].events),
         NEW e \in Events
  PROVE  Ready(consumeEvent(s, c, e), ts)
<1> DEFINE k == s.calls[c]
           w == ConsumedCall(k, e)
           u == consumeEvent(s, c, e)
           v == [s EXCEPT !.calls[c] = w]
<1>1. s \in States /\ k \in Calls /\ CallOK(k, ts) /\ k.turn # 0 /\ Alive(k)
  <2>1. s \in States /\ k \in Calls /\ CallOK(k, ts)
    BY DEF Ready, ClientOK, States
  <2>2. QED
    BY <2>1 DEF CallOK, Alive
<1>2. IsConsumed(s, u, c, e)
  BY <1>1, ConsumeIs
<1>3. /\ w \in Calls
      /\ w.pc = k.pc /\ w.net = k.net /\ w.msg = k.msg
      /\ w.aborted = k.aborted /\ w.turn = k.turn /\ w.pos = k.pos + 1
      /\ w.answer = IF e.type = "meta" THEN Backend(k.turn) ELSE k.answer
  BY <1>1, ConsumedCallType
<1>4. Backend(k.turn) \in Ids
  BY <1>1, IdTypes, ClientAssumption DEF Calls
<1> HIDE DEF w
<1>5. CallOK(w, ts) /\ Alive(w)
  BY <1>1, <1>3, <1>4 DEF CallOK, Alive, Calls
<1>6. Ready(v, ts)
  BY <1>1, <1>3, <1>5, OneCallReady
<1>7. v.calls = u.calls /\ v.page = s.page /\ v.cursor = s.cursor /\ v \in States
  BY <1>1, <1>2, <1>3 DEF IsConsumed, States, w
<1>8. /\ u.page.live = c /\ u.page.hydrated = s.page.hydrated
      /\ u.page.queue = s.page.queue /\ u.page.seen = s.page.seen
  BY <1>1, <1>2 DEF IsConsumed, States, Pages
<1>9. u.calls[c] = w
  BY <1>1, <1>2 DEF IsConsumed, States, w
<1>10. ts # <<>>
  BY <1>1 DEF CallOK, Calls
<1> HIDE DEF u, v
<1>11. Ready(u, ts)
  <2>1. LiveOK(u)
    BY <1>3, <1>8, <1>9 DEF LiveOK
  <2>2. OneReader(u)
    BY <1>6, <1>7 DEF OneReader, Ready, ClientOK
  <2>3. u \in States
    BY <1>2 DEF IsConsumed
  <2>4. QED
    BY <1>6, <1>7, <1>8, <1>10, <2>1, <2>2, <2>3 DEF Ready, ClientOK
<1>12. QED
  BY <1>11 DEF u
-----------------------------------------------------------------------------
(* The page's actions. *)

\* A step that sets the page, the cursor and the calls to those of u.
LEMMA SetIs ==
  ASSUME NEW u \in States, page' = u.page, cursor' = u.cursor, calls' = u.calls
  PROVE  Now' = u
BY DEF States, Now

\* It keeps the invariant when u does.
LEMMA SetReady ==
  ASSUME NEW u, Ready(u, turns'), Set(u), ServerOK', CountsOK'
  PROVE  TypeInv'
<1>1. u \in States
  BY DEF Ready, ClientOK
<1>2. Now' = u
  BY <1>1, SetIs DEF Set
<1>3. ClientOK(Now', turns')
  BY <1>2 DEF Ready
<1>4. Blank(Now')
  BY <1>2 DEF Blank, Ready
<1>5. QED
  BY <1>3, <1>4 DEF TypeInv

\* The page's steps leave the server alone.
LEMMA PageStep ==
  ASSUME TypeInv, NEW u, Ready(u, turns), Set(u), UNCHANGED <<log, turns, faults, asked, heard>>
  PROVE  TypeInv'
<1>1. ServerOK' /\ CountsOK'
  BY DEF TypeInv, ServerOK, CountsOK, Running, Claimed
<1>2. Ready(u, turns')
  OBVIOUS
<1>3. QED
  BY <1>1, <1>2, SetReady

\* Whatever is under way, the page has its transcript.
LEMMA BusyReady ==
  ASSUME TypeInv
  PROVE  /\ page.hydrated => Ready(Now, turns)
         /\ \A c \in Callers : calls[c].pc \notin {"idle", "over"} => Ready(Now, turns)
         /\ page.live # None => Ready(Now, turns)
         /\ page.queue # <<>> => Ready(Now, turns)
         /\ page.pending # None => Ready(Now, turns)
BY DEF TypeInv, Blank, Ready, Now

\* What the types say of the variables.
LEMMA NowIs ==
  ASSUME TypeInv
  PROVE  /\ Now \in States /\ Now.page = page /\ Now.cursor = cursor /\ Now.calls = calls
         /\ page \in Pages /\ calls \in [Callers -> Calls] /\ turns \in Seq(TurnRecs)
         /\ \A c \in Callers : CallOK(calls[c], turns)
         /\ page.live # None => page.live \in Callers /\ calls[page.live].pc \in {"post", "stream"}
BY DEF TypeInv, ClientOK, States, Now, ServerOK, LiveOK, Pages

\* The student's steps and the engine's keep the invariant.
LEMMA SubmitType ==
  ASSUME TypeInv, NEW m \in Msgs, Submit(m)
  PROVE  TypeInv'
<1> DEFINE s == [Now EXCEPT !.page.composer = None]
           u == submitMessage(s, m, None, TRUE)
<1>1. Ready(Now, turns)
  BY BusyReady DEF Submit
<1>2. /\ s \in States /\ s.calls = calls /\ s.cursor = cursor
      /\ s.page = [page EXCEPT !.composer = None]
  BY NowIs DEF States, Pages, MaybeMsg
<1>3. /\ s.page.live = page.live /\ s.page.hydrated = page.hydrated
      /\ s.page.queue = page.queue /\ s.page.seen = page.seen
  BY <1>2, NowIs DEF Pages
<1>4. Free(s) # {}
  BY <1>2, NowIs DEF Submit, Free
<1> HIDE DEF s
<1>5. Ready(s, turns)
  BY <1>1, <1>2, <1>3, NowIs, SameReaders DEF Ready, ClientOK
<1>6. Ready(u, turns)
  BY <1>4, <1>5, NowIs, SubmitReady DEF MaybeId
<1>7. CountsOK'
  BY DEF Submit, TypeInv, CountsOK
<1>8. ServerOK' /\ turns' = turns
  BY DEF Submit, TypeInv, ServerOK, Running, Claimed
<1>9. Set(u)
  BY DEF Submit, s
<1>10. QED
  BY <1>6, <1>7, <1>8, <1>9, SetReady

\* handleRegenerate keeps the invariant.
LEMMA RegenerateType ==
  ASSUME TypeInv, handleRegenerate
  PROVE  TypeInv'
<1>1. Ready(Now, turns) /\ Free(Now) # {}
  BY BusyReady DEF handleRegenerate
<1>2. PICK i, j \in DOMAIN page.list :
        /\ page.list[j] = userMessage(page.list[i].id, page.list[j].msg)
        /\ page.list[j].msg # None
        /\ Set(submitMessage(Now, page.list[j].msg, page.list[j].id, FALSE))
        /\ asked' = [asked EXCEPT ![page.list[j].msg] = @ + 1]
  BY DEF handleRegenerate
<1> DEFINE b == page.list[j]
           u == submitMessage(Now, b.msg, b.id, FALSE)
<1>3. b \in Bubbles
  BY NowIs DEF Pages
<1>4. b.kind = "user"
  BY <1>2 DEF userMessage
<1>5. b.msg \in Msgs /\ b.id \in MaybeId
  <2> HIDE DEF b
  <2>1. b \in UserBubbles
    BY <1>3, <1>4, BubbleTypes DEF AnswerBubbles
  <2>2. b.msg # None
    BY <1>2 DEF b
  <2>3. QED
    BY <2>1, <2>2 DEF UserBubbles, MaybeId, MaybeMsg
<1> HIDE DEF b
<1>6. Ready(u, turns)
  BY <1>1, <1>5, NowIs, SubmitReady
<1>7. asked' = [asked EXCEPT ![b.msg] = @ + 1] /\ Set(u)
  BY <1>2 DEF b
<1>8. CountsOK'
  BY <1>5, <1>7 DEF handleRegenerate, TypeInv, CountsOK
<1>9. ServerOK' /\ turns' = turns
  BY DEF handleRegenerate, TypeInv, ServerOK, Running, Claimed
<1>10. QED
  BY <1>6, <1>7, <1>8, <1>9, SetReady

\* The effect that forwards keeps it.
LEMMA AutoForwardType ==
  ASSUME TypeInv, AutoForward
  PROVE  TypeInv'
<1> DEFINE s == [Now EXCEPT !.page.queue = Tail(@)]
           m == Head(page.queue)
           u == submitMessage(s, m, None, FALSE)
<1>1. Ready(Now, turns) /\ page.queue # <<>> /\ page.queue \in Seq(Msgs)
  BY BusyReady, NowIs DEF AutoForward, Pages
<1>2. /\ s \in States /\ s.calls = calls /\ s.cursor = cursor
      /\ s.page = [page EXCEPT !.queue = Tail(page.queue)]
  <2>1. Tail(page.queue) \in Seq(Msgs)
    BY <1>1
  <2>2. QED
    BY <2>1, NowIs DEF States, Pages
<1>3. /\ s.page.live = page.live /\ s.page.hydrated = page.hydrated
      /\ s.page.queue = Tail(page.queue) /\ s.page.seen = page.seen
  BY <1>2, NowIs DEF Pages
<1>4. Free(s) # {}
  BY <1>2, NowIs DEF AutoForward, Free
<1>5. m \in Msgs /\ Range(Tail(page.queue)) \subseteq Range(page.queue)
  BY <1>1 DEF Range
<1> HIDE DEF s, m
<1>6. Ready(s, turns)
  BY <1>1, <1>2, <1>3, <1>5, NowIs, SameReaders DEF Ready, ClientOK
<1>7. Ready(u, turns)
  BY <1>4, <1>5, <1>6, NowIs, SubmitReady DEF MaybeId
<1>8. Set(u) /\ UNCHANGED <<log, turns, faults, asked, heard>>
  BY DEF AutoForward, s, m
<1>9. QED
  BY <1>7, <1>8, PageStep

\* retryLastSend keeps it: its filter leaves a list.
LEMMA RetryType ==
  ASSUME TypeInv, retryLastSend
  PROVE  TypeInv'
<1> DEFINE p == page.pending
           A == {b \in Range(page.list) : b.id # p.bubble}
           l == Only(page.list, A)
           s == [Now EXCEPT !.page.list = l]
           u == submitMessage(s, p.msg, p.replace, FALSE)
<1>1. Ready(Now, turns)
  BY BusyReady DEF retryLastSend
<1>2. p \in Pendings
  BY NowIs DEF retryLastSend, Pages
<1>3. l \in Seq(Bubbles)
  <2>1. page.list \in Seq(Bubbles)
    BY NowIs DEF Pages
  <2>2. QED
    BY <2>1, OnlyIs DEF IsOnly
<1>4. Set(u) /\ UNCHANGED <<log, turns, faults, asked, heard>>
  <2>1. [Now EXCEPT !.page.list = Only(@, {b \in Range(@) : b.id # p.bubble})] = s
    BY NowIs
  <2>2. QED
    BY <2>1 DEF retryLastSend
<1> HIDE DEF l
<1>5. /\ s \in States /\ s.calls = calls /\ s.cursor = cursor
      /\ s.page = [page EXCEPT !.list = l]
  BY <1>3, NowIs DEF States, Pages
<1>6. /\ s.page.live = page.live /\ s.page.hydrated = page.hydrated
      /\ s.page.queue = page.queue /\ s.page.seen = page.seen
  BY <1>5, NowIs DEF Pages
<1>7. Free(s) # {}
  BY <1>5, NowIs DEF retryLastSend, Free
<1> HIDE DEF s
<1>8. Ready(s, turns)
  BY <1>1, <1>5, <1>6, NowIs, SameReaders DEF Ready, ClientOK
<1>9. Ready(u, turns)
  BY <1>2, <1>7, <1>8, NowIs, SubmitReady DEF Pendings
<1>10. QED
  BY <1>4, <1>9, PageStep

\* A call that goes on.
LEMMA PcIs ==
  ASSUME NEW s \in States, NEW c \in Callers, NEW pc \in Pcs
  PROVE  /\ [s EXCEPT !.calls[c].pc = pc] = [s EXCEPT !.calls[c] = [s.calls[c] EXCEPT !.pc = pc]]
         /\ [s.calls[c] EXCEPT !.pc = pc] \in Calls
BY DEF States, Calls

\* A call that is not a reader takes another step of its own.
LEMMA PcReady ==
  ASSUME NEW s, NEW ts, Ready(s, ts), NEW c \in Callers, NEW pc \in Pcs,
         s.calls[c].pc \notin {"post", "stream", "open"},
         pc \in {"clear", "stopped"} => s.calls[c].msg \in Msgs,
         pc \notin {"steer", "cancel", "post", "recancel", "stream", "open"}
  PROVE  Ready([s EXCEPT !.calls[c].pc = pc], ts)
<1> DEFINE k == [s.calls[c] EXCEPT !.pc = pc]
<1>1. s \in States /\ s.calls[c] \in Calls /\ CallOK(s.calls[c], ts)
  BY DEF Ready, ClientOK, States
<1>2. k \in Calls /\ [s EXCEPT !.calls[c].pc = pc] = [s EXCEPT !.calls[c] = k]
  BY <1>1, PcIs
<1>3. CallOK(k, ts) /\ ~Alive(k)
  BY <1>1 DEF CallOK, Alive, Calls
<1>4. s.page.live # c
  <2>1. s.page.live \in Callers \cup {None} /\ None \notin Callers
    BY <1>1, NoneAssumption DEF States, Pages
  <2>2. QED
    BY <2>1 DEF Ready, ClientOK, LiveOK
<1> HIDE DEF k
<1>5. Ready([s EXCEPT !.calls[c] = k], ts)
  BY <1>2, <1>3, <1>4, OneCallReady
<1>6. QED
  BY <1>2, <1>5

\* A call that is not live may be over.
LEMMA OverReady ==
  ASSUME NEW s, NEW ts \in Seq(TurnRecs), Ready(s, ts), NEW c \in Callers, s.page.live # c
  PROVE  Ready([s EXCEPT !.calls[c] = Over], ts)
<1>1. Over \in Calls /\ CallOK(Over, ts) /\ ~Alive(Over)
  BY IdleType, IdleOK DEF Alive, Over, Idle
<1>2. QED
  BY <1>1, OneCallReady

\* Who does not read is not live.
LEMMA NotLive ==
  ASSUME TypeInv, NEW c \in Callers, calls[c].pc \notin {"post", "stream"}
  PROVE  page.live # c
BY NowIs, NoneAssumption DEF Pages

\* What the invariant says of a call.
LEMMA CallIs ==
  ASSUME TypeInv, NEW c \in Callers
  PROVE  /\ calls[c] \in Calls /\ CallOK(calls[c], turns)
         /\ calls[c].pc \in {"steer", "clear", "cancel", "stopped", "post", "recancel"}
              => calls[c].msg \in Msgs
BY NowIs DEF CallOK

\* An answered steer.
LEMMA SteerReturnsType ==
  ASSUME TypeInv, NEW c \in Callers, SteerReturns(c)
  PROVE  TypeInv'
<1>1. /\ Ready(Now, turns) /\ page.live # c /\ calls[c].msg \in Msgs
      /\ Now.page = page /\ Now.calls = calls /\ turns \in Seq(TurnRecs)
      /\ UNCHANGED <<log, turns, faults, asked, heard>>
  BY BusyReady, NotLive, CallIs, NowIs DEF SteerReturns
<1>2. CASE Set([Now EXCEPT !.calls[c] = Over])
  BY <1>1, <1>2, OverReady, PageStep
<1>3. CASE Set([Now EXCEPT !.calls[c].pc = "clear"])
  <2>1. Ready([Now EXCEPT !.calls[c].pc = "clear"], turns)
    BY <1>1, PcReady DEF SteerReturns, Pcs
  <2>2. QED
    BY <1>1, <1>3, <2>1, PageStep
<1>4. CASE Set(Fail(Now, c, None))
  <2>1. Ready(Fail(Now, c, None), turns)
    BY <1>1, FailReady DEF MaybeId
  <2>2. QED
    BY <1>1, <1>4, <2>1, PageStep
<1>5. QED
  BY <1>2, <1>3, <1>4 DEF SteerReturns

\* The wait for the screen to clear.
LEMMA AwaitType ==
  ASSUME TypeInv, NEW c \in Callers, awaitLiveClear(c)
  PROVE  TypeInv'
<1>1. /\ Ready(Now, turns) /\ page.live # c /\ calls[c].msg \in Msgs
      /\ Now.page = page /\ Now.calls = calls /\ turns \in Seq(TurnRecs)
      /\ UNCHANGED <<log, turns, faults, asked, heard>>
  BY BusyReady, NotLive, CallIs, NowIs DEF awaitLiveClear
<1>2. CASE Set(startSend(Now, c))
  <2>1. Ready(startSend(Now, c), turns)
    BY <1>1, StartSendReady
  <2>2. QED
    BY <1>1, <1>2, <2>1, PageStep
<1>3. CASE Set(Fail(Now, c, None))
  <2>1. Ready(Fail(Now, c, None), turns)
    BY <1>1, FailReady DEF MaybeId
  <2>2. QED
    BY <1>1, <1>3, <2>1, PageStep
<1>4. QED
  BY <1>2, <1>3 DEF awaitLiveClear

\* abort spares the call it is for.
LEMMA AbortIs ==
  ASSUME NEW s \in States, NEW c \in Callers
  PROVE  /\ abort(s, c) \in States /\ abort(s, c).page = s.page
         /\ abort(s, c).calls[c] = s.calls[c]
<1> DEFINE u == abort(s, c)
<1>1. /\ u \in States /\ u.page = s.page /\ u.cursor = s.cursor
         /\ \A x \in Callers :
              u.calls[x] = IF x # c /\ s.calls[x].pc \in {"post", "stream", "open"}
                           THEN [s.calls[x] EXCEPT !.aborted = TRUE] ELSE s.calls[x]
  BY AbortFields
<1>2. QED
  BY <1>1

\* The stop before an edit, and the wait after it.
LEMMA CancelType ==
  ASSUME TypeInv, NEW c \in Callers, cancelAndAwaitClear(c)
  PROVE  TypeInv'
<1>1. /\ Ready(Now, turns) /\ page.live # c /\ calls[c].msg \in Msgs
      /\ Now.page = page /\ Now.calls = calls /\ turns \in Seq(TurnRecs) /\ Now \in States
      /\ UNCHANGED <<log, turns, faults, asked, heard>>
      /\ calls[c].pc \in {"cancel", "stopped"}
  BY BusyReady, NotLive, CallIs, NowIs DEF cancelAndAwaitClear
<1>2. CASE calls[c].pc = "cancel" /\ calls[c].net \in {"cancelled", "lost"}
           /\ LET s == [Now EXCEPT !.calls[c].pc = "stopped"]
              IN Set(IF calls[c].net = "lost" THEN abort(s, c) ELSE s)
  <2> DEFINE s == [Now EXCEPT !.calls[c].pc = "stopped"]
  <2>1. Ready(s, turns)
    BY <1>1, PcReady DEF Pcs
  <2>2. Ready(abort(s, c), turns)
    BY <2>1, AbortReady
  <2> HIDE DEF s
  <2>3. Set(IF calls[c].net = "lost" THEN abort(s, c) ELSE s)
    BY <1>2 DEF s
  <2>4. QED
    BY <1>1, <2>1, <2>2, <2>3, PageStep
<1>3. CASE Set(startSend(Now, c))
  <2>1. Ready(startSend(Now, c), turns)
    BY <1>1, StartSendReady
  <2>2. QED
    BY <1>1, <1>3, <2>1, PageStep
<1>4. CASE Set(Fail(abort(Now, c), c, None))
  <2> DEFINE a == abort(Now, c)
  <2>1. Ready(a, turns) /\ a.page = page /\ a.calls[c] = calls[c]
    BY <1>1, AbortReady, AbortIs
  <2> HIDE DEF a
  <2>2. Ready(Fail(a, c, None), turns)
    BY <1>1, <2>1, FailReady DEF MaybeId
  <2>3. QED
    BY <1>1, <1>4, <2>2, PageStep DEF a
<1>5. QED
  BY <1>2, <1>3, <1>4 DEF cancelAndAwaitClear

\* setPendingSend, in these terms.
Pended(s, v, c, bubble) ==
  /\ v \in States /\ v.calls = s.calls /\ v.cursor = s.cursor
  /\ v.page = [s.page EXCEPT !.pending = PendingOf(s, c, bubble)]

\* It changes that.
LEMMA PendedIs ==
  ASSUME NEW s \in States, NEW c \in Callers, s.calls[c].msg \in Msgs, NEW bubble \in MaybeId
  PROVE  Pended(s, setPendingSend(s, c, bubble), c, bubble)
BY SetPendingFields DEF Pended

\* An answered POST: only `open' makes a reader of it, and it was one.
LEMMA PostReturnsType ==
  ASSUME TypeInv, NEW c \in Callers, PostReturns(c)
  PROVE  TypeInv'
<1>1. /\ Ready(Now, turns) /\ calls[c].msg \in Msgs /\ calls[c] \in Calls /\ CallOK(calls[c], turns)
      /\ Now.page = page /\ Now.calls = calls /\ turns \in Seq(TurnRecs) /\ Now \in States
      /\ UNCHANGED <<log, turns, faults, asked, heard>>
      /\ calls[c].pc = "post" /\ ~calls[c].aborted
  BY BusyReady, CallIs, NowIs DEF PostReturns
<1>2. CASE calls[c].net = "open" /\ Set([Now EXCEPT !.calls[c].pc = "stream"])
  <2> DEFINE k == [calls[c] EXCEPT !.pc = "stream"]
             u == [Now EXCEPT !.calls[c].pc = "stream"]
  <2>1. u = [Now EXCEPT !.calls[c] = k] /\ k \in Calls
    BY <1>1, PcIs DEF Pcs
  <2>2. CallOK(k, turns) /\ k.pc = "stream" /\ Alive(Now.calls[c])
    BY <1>1, <1>2 DEF CallOK, Calls, Alive
  <2> HIDE DEF k, u
  <2>3. Ready(u, turns)
    BY <1>1, <2>1, <2>2, OneCallReady
  <2>4. QED
    BY <1>1, <1>2, <2>3, PageStep DEF u
<1>3. CASE Set(Broken(Now, c))
  <2>1. Ready(Broken(Now, c), turns)
    BY <1>1, BrokenReady
  <2>2. QED
    BY <1>1, <1>3, <2>1, PageStep
<1>4. CASE Set([setPendingSend(Finally(Now), c, None) EXCEPT
                  !.calls[c] = [@ EXCEPT !.pc = "recancel", !.net = "sent"]])
  <2> DEFINE f == Finally(Now)
             v == setPendingSend(f, c, None)
             k == [calls[c] EXCEPT !.pc = "recancel", !.net = "sent"]
             u == [v EXCEPT !.calls[c] = [@ EXCEPT !.pc = "recancel", !.net = "sent"]]
  <2>1. /\ f \in States /\ f.calls = calls /\ f.cursor = cursor
        /\ f.page = [page EXCEPT !.live = None]
        /\ Ready(f, turns)
    BY <1>1, NowIs, FinallyFields, FinallyReady
  <2> HIDE DEF f
  <2>0. f.calls[c].msg \in Msgs /\ None \in MaybeId
    BY <1>1, <2>1 DEF MaybeId
  <2>2. /\ v \in States /\ v.calls = calls /\ v.cursor = cursor
        /\ v.page = [f.page EXCEPT !.pending = PendingOf(f, c, None)]
    <3>1. Pended(f, v, c, None)
      BY <2>0, <2>1, PendedIs
    <3>2. QED
      BY <2>1, <3>1 DEF Pended
  <2>3. /\ f.page.live = None /\ v.page.live = None /\ v.page.hydrated = f.page.hydrated
        /\ v.page.queue = f.page.queue /\ v.page.seen = f.page.seen
    BY <2>1, <2>2, NowIs DEF States, Pages
  <2> HIDE DEF v
  <2>4. Ready(v, turns)
    BY <2>1, <2>2, <2>3, SameReaders DEF Ready, ClientOK
  <2>5. CallOK(k, turns) /\ ~Alive(k) /\ k \in Calls
    BY <1>1 DEF CallOK, Calls, Alive, Pcs, Nets
  <2>6. u = [v EXCEPT !.calls[c] = k]
    BY <2>2
  <2>7. v.page.live # c
    BY <2>3, NoneAssumption
  <2> HIDE DEF k, u
  <2>8. Ready(u, turns)
    BY <2>4, <2>5, <2>6, <2>7, OneCallReady
  <2>9. QED
    BY <1>1, <1>4, <2>8, PageStep DEF u, v, f
<1>5. QED
  BY <1>2, <1>3, <1>4 DEF PostReturns

\* The second POST after a conflict.
LEMMA ConflictRetryType ==
  ASSUME TypeInv, NEW c \in Callers, ConflictRetry(c)
  PROVE  TypeInv'
<1>1. /\ Ready(Now, turns) /\ page.live # c /\ calls[c].msg \in Msgs /\ calls[c] \in Calls
      /\ Now.page = page /\ Now.calls = calls /\ turns \in Seq(TurnRecs) /\ Now \in States
      /\ page \in Pages /\ Now.cursor = cursor
      /\ UNCHANGED <<log, turns, faults, asked, heard>>
  BY BusyReady, NotLive, CallIs, NowIs DEF ConflictRetry
<1>2. page.last \in MaybeId /\ calls[c].replace \in MaybeId
  BY <1>1 DEF Pages, Calls
<1>3. CASE Set(runTurn([Now EXCEPT !.page.pending = None], c,
                       IF calls[c].replace = None THEN page.last ELSE calls[c].replace, TRUE))
  <2> DEFINE s == [Now EXCEPT !.page.pending = None]
             user == IF calls[c].replace = None THEN page.last ELSE calls[c].replace
  <2>1. /\ s \in States /\ s.calls = calls /\ s.cursor = cursor
        /\ s.page = [page EXCEPT !.pending = None]
    BY <1>1 DEF States, Pages
  <2> HIDE DEF s
  <2>2. /\ s.page.live = page.live /\ s.page.hydrated = page.hydrated
        /\ s.page.queue = page.queue /\ s.page.seen = page.seen
    BY <1>1, <2>1 DEF Pages
  <2>3. user \in MaybeId
    BY <1>2
  <2> HIDE DEF user
  <2>4. Ready(s, turns)
    BY <1>1, <2>1, <2>2, SameReaders DEF Ready, ClientOK
  <2>5. Ready(runTurn(s, c, user, TRUE), turns)
    BY <1>1, <2>1, <2>3, <2>4, RunTurnReady
  <2>6. QED
    BY <1>1, <1>3, <2>5, PageStep DEF s, user
<1>4. CASE Set(Fail(Now, c, failedBubble(Now, c)))
  <2>1. failedBubble(Now, c) \in MaybeId
    BY <1>1, <1>2 DEF failedBubble, MaybeId
  <2>2. Ready(Fail(Now, c, failedBubble(Now, c)), turns)
    BY <1>1, <2>1, FailReady
  <2>3. QED
    BY <1>1, <1>4, <2>2, PageStep
<1>5. QED
  BY <1>3, <1>4 DEF ConflictRetry

\* The same calls under another page.
LEMMA SameClient ==
  ASSUME NEW s, NEW ts, ClientOK(s, ts), NEW t \in States, t.calls = s.calls,
         t.page.live # None => s.calls[t.page.live].pc \in {"post", "stream"},
         t.page.hydrated, t.cursor \in {s.cursor, 0}, Range(t.page.queue) \subseteq t.page.seen
  PROVE  Ready(t, ts)
BY DEF Ready, ClientOK, OneReader, LiveOK

\* A frame, or the end of the stream.
LEMMA ConsumeType ==
  ASSUME TypeInv, NEW c \in Callers, consumeStream(c)
  PROVE  TypeInv'
<1>1. /\ Ready(Now, turns) /\ calls[c] \in Calls /\ CallOK(calls[c], turns)
      /\ Now.page = page /\ Now.calls = calls /\ turns \in Seq(TurnRecs) /\ Now \in States
      /\ UNCHANGED <<log, turns, faults, asked, heard>>
      /\ calls[c].pc = "stream" /\ ~calls[c].aborted
  BY BusyReady, CallIs, NowIs DEF consumeStream
<1> DEFINE k == calls[c].turn
           p == calls[c].pos
<1>2. k \in 1..Len(turns) /\ p \in Nat /\ p <= Len(turns[k].events) /\ turns[k] \in TurnRecs
      /\ calls[c].answer \in Ids
  <2>1. k # 0 /\ k <= Len(turns) /\ k \in 0..MaxTurns /\ p \in Nat
        /\ p <= Len(turns[k].events) /\ calls[c].answer \in Ids
    BY <1>1 DEF CallOK, Calls
  <2>2. QED
    BY <1>1, <2>1
<1>3. CASE p < Len(turns[k].events) /\ Set(consumeEvent(Now, c, turns[k].events[p + 1]))
  <2> DEFINE e == turns[k].events[p + 1]
  <2>1. turns[k].events \in Seq(Events)
    BY <1>2 DEF TurnRecs
  <2>2. e \in Events
    BY <1>2, <1>3, <2>1
  <2> HIDE DEF e
  <2>3. Ready(consumeEvent(Now, c, e), turns)
    BY <1>1, <1>3, <2>2, ConsumeReady
  <2>4. Set(consumeEvent(Now, c, e))
    BY <1>3 DEF e
  <2>5. QED
    BY <1>1, <2>3, <2>4, PageStep
<1>4. CASE Set(Broken([Now EXCEPT !.cursor = 0], c))
  <2> DEFINE s == [Now EXCEPT !.cursor = 0]
  <2>1. s \in States /\ s.calls = calls /\ s.page = page /\ s.cursor = 0
    BY <1>1 DEF States
  <2> HIDE DEF s
  <2>2. s.page.live \in {Now.page.live, None} /\ s.page.hydrated
        /\ Range(s.page.queue) \subseteq s.page.seen
    BY <1>1, <2>1 DEF Ready, ClientOK
  <2>3. Ready(s, turns)
    BY <1>1, <2>1, <2>2, SameReaders
  <2>4. Ready(Broken(s, c), turns)
    BY <1>1, <2>1, <2>3, BrokenReady
  <2>5. Set(Broken(s, c))
    BY <1>4 DEF s
  <2>6. QED
    BY <1>1, <2>4, <2>5, PageStep
<1>5. CASE Set(Terminal(Now, c))
  <2>1. Ready(Terminal(Now, c), turns)
    BY <1>1, <1>2, TerminalReady
  <2>2. QED
    BY <1>1, <1>5, <2>1, PageStep
<1>6. QED
  BY <1>3, <1>4, <1>5 DEF consumeStream

\* An aborted fetch.
LEMMA AbortedType ==
  ASSUME TypeInv, NEW c \in Callers, Aborted(c)
  PROVE  TypeInv'
<1>1. /\ Ready(Now, turns) /\ calls[c] \in Calls /\ CallOK(calls[c], turns)
      /\ Now.page = page /\ Now.calls = calls /\ turns \in Seq(TurnRecs) /\ Now \in States
      /\ UNCHANGED <<log, turns, faults, asked, heard>>
      /\ calls[c].pc \in {"post", "stream", "open"}
  BY BusyReady, CallIs, NowIs DEF Aborted
<1>2. CASE calls[c].pc = "open" /\ Set([Now EXCEPT !.calls[c] = Over])
  <2>1. page.live # c
    BY <1>2, NotLive
  <2>2. Ready([Now EXCEPT !.calls[c] = Over], turns)
    BY <1>1, <2>1, OverReady
  <2>3. QED
    BY <1>1, <1>2, <2>2, PageStep
<1>3. CASE calls[c].pc # "open" /\ Set(Broken(Now, c))
  <2>1. Ready(Broken(Now, c), turns)
    BY <1>1, <1>3, BrokenReady
  <2>2. QED
    BY <1>1, <1>3, <2>1, PageStep
<1>4. QED
  BY <1>2, <1>3 DEF Aborted

\* A call that asks for something and reads nothing yet.
Asking(pc) == [Idle EXCEPT !.pc = pc, !.net = "sent"]

\* It has no turn.
LEMMA AskingType ==
  ASSUME NEW pc \in {"stop", "open"}, NEW ts \in Seq(TurnRecs)
  PROVE  Asking(pc) \in Calls /\ CallOK(Asking(pc), ts) /\ Asking(pc).pc = pc
<1>1. Idle \in Calls /\ CallOK(Idle, ts)
  BY IdleType, IdleOK
<1>2. Asking(pc) \in Calls
  BY <1>1 DEF Asking, Calls, Pcs, Nets
<1>3. /\ Asking(pc).pc = pc /\ Asking(pc).net = "sent" /\ Asking(pc).turn = 0
      /\ Asking(pc).pos = 0
  BY DEF Asking, Idle
<1>4. CallOK(Asking(pc), ts)
  <2>1. Len(ts) \in Nat
    OBVIOUS
  <2>2. QED
    BY <1>3, <2>1 DEF CallOK
<1>5. QED
  BY <1>2, <1>3, <1>4

\* Stop is pressed.
LEMMA StopType ==
  ASSUME TypeInv, stopGenerating
  PROVE  TypeInv'
<1> DEFINE c == Slot(Now)
           k == Asking("stop")
           v == [Now EXCEPT !.page.cancelInFlight = TRUE]
           u == [Now EXCEPT !.page.cancelInFlight = TRUE, !.calls[c] = k]
<1>1. /\ Ready(Now, turns)
      /\ Now.page = page /\ Now.calls = calls /\ turns \in Seq(TurnRecs) /\ Now \in States
      /\ UNCHANGED <<log, turns, faults, asked, heard>>
      /\ page \in Pages
  BY BusyReady, NowIs DEF stopGenerating, isSubmitting
<1>2. c \in Callers /\ calls[c].pc = "idle" /\ page.live # c
  <2>1. c \in Callers /\ calls[c].pc = "idle"
    BY <1>1, SlotFree DEF stopGenerating
  <2> HIDE DEF c
  <2>2. QED
    BY <2>1, NotLive
<1>3. k \in Calls /\ CallOK(k, turns) /\ ~Alive(k)
  BY <1>1, AskingType DEF Alive
<1>4. v \in States /\ v.calls = calls /\ v.page.live = page.live /\ v.cursor = Now.cursor
      /\ v.page.hydrated = page.hydrated /\ v.page.queue = page.queue
      /\ v.page.seen = page.seen
  BY <1>1 DEF States, Pages
<1>5. u = [v EXCEPT !.calls[c] = k] /\ Set(u)
  BY <1>1 DEF stopGenerating, States, Asking
<1> HIDE DEF c, k, v
<1>6. Ready(v, turns)
  BY <1>1, <1>4, SameReaders DEF Ready, ClientOK
<1> DEFINE w == [v EXCEPT !.calls[c] = k]
<1>7. Ready(w, turns)
  BY <1>2, <1>3, <1>4, <1>6, OneCallReady
<1>8. Set(w)
  BY <1>5
<1> HIDE DEF w
<1>9. QED
  BY <1>1, <1>7, <1>8, PageStep

\* Stop is answered.
LEMMA StopReturnsType ==
  ASSUME TypeInv, NEW c \in Callers, StopReturns(c)
  PROVE  TypeInv'
<1> DEFINE v == [Now EXCEPT !.page.cancelInFlight = FALSE]
           s == [Now EXCEPT !.page.cancelInFlight = FALSE, !.calls[c] = Over]
           w == [s EXCEPT !.page.cancelCommitted = TRUE]
<1>1. /\ Ready(Now, turns) /\ page.live # c
      /\ Now.page = page /\ Now.calls = calls /\ turns \in Seq(TurnRecs) /\ Now \in States
      /\ UNCHANGED <<log, turns, faults, asked, heard>>
      /\ page \in Pages
  BY BusyReady, NotLive, NowIs DEF StopReturns
<1>2. v \in States /\ v.calls = calls /\ v.page.live = page.live /\ v.cursor = Now.cursor
      /\ v.page.hydrated = page.hydrated /\ v.page.queue = page.queue
      /\ v.page.seen = page.seen
  BY <1>1 DEF States, Pages
<1>3. s = [v EXCEPT !.calls[c] = Over]
  BY <1>1 DEF States
<1>4. Set(IF calls[c].net = "lost" THEN abort(s, c) ELSE w)
  BY DEF StopReturns
<1> HIDE DEF v
<1>5. Ready(v, turns)
  BY <1>1, <1>2, SameReaders DEF Ready, ClientOK
<1>6. Ready(s, turns)
  <2>1. Ready([v EXCEPT !.calls[c] = Over], turns)
    BY <1>1, <1>2, <1>5, OverReady
  <2>2. QED
    BY <1>3, <2>1, Zenon
<1> HIDE DEF s
<1>7. Ready(abort(s, c), turns)
  BY <1>6, AbortReady
<1>8. /\ w \in States /\ w.calls = s.calls /\ w.page.live = s.page.live /\ w.cursor = s.cursor
      /\ w.page.hydrated = s.page.hydrated /\ w.page.queue = s.page.queue
      /\ w.page.seen = s.page.seen
  <2>1. s \in States
    BY <1>6 DEF Ready, ClientOK
  <2>2. QED
    BY <2>1 DEF States, Pages
<1> HIDE DEF w
<1>9. Ready(w, turns)
  BY <1>6, <1>8, SameReaders DEF Ready, ClientOK
<1>10. QED
  BY <1>1, <1>4, <1>7, <1>9, PageStep

\* The transcript comes in: the first one starts an attach, when nobody reads.
LEMMA HydrateType ==
  ASSUME TypeInv, Hydrate
  PROVE  TypeInv'
<1> DEFINE got == page.read.log
           msgs == IF page.hydrated /\ got = page.data THEN page.list
                   ELSE messagesFromTranscript(got)
           s == [Now EXCEPT !.page.read = None, !.page.hydrated = TRUE, !.page.data = got,
                            !.page.list = msgs]
           c == Slot(Now)
           k == Asking("open")
           u == [s EXCEPT !.calls[c] = k]
<1>1. /\ ClientOK(Now, turns) /\ Blank(Now)
      /\ Now.page = page /\ Now.calls = calls /\ turns \in Seq(TurnRecs) /\ Now \in States
      /\ UNCHANGED <<log, turns, faults, asked, heard>>
      /\ page \in Pages
  BY NowIs DEF Hydrate, TypeInv
<1>2. got \in Seq(Records) /\ msgs \in Seq(Bubbles)
  <2>1. page.read \in Reads /\ page.list \in Seq(Bubbles)
    BY <1>1 DEF Pages, Hydrate
  <2>2. got \in Seq(Records)
    BY <2>1 DEF Reads
  <2>3. messagesFromTranscript(got) \in Seq(Bubbles)
    BY <2>2, TranscriptType
  <2>4. QED
    BY <2>1, <2>2, <2>3
<1>3. Set(IF page.hydrated THEN s ELSE u) /\ (page.hydrated \/ Free(Now) # {})
  BY DEF Hydrate, Asking
<1> HIDE DEF msgs, got
<1>4. /\ s \in States /\ s.calls = calls /\ s.cursor = Now.cursor
      /\ s.page = [page EXCEPT !.read = None, !.hydrated = TRUE, !.data = got, !.list = msgs]
  <2> DEFINE g == [page EXCEPT !.read = None, !.hydrated = TRUE, !.data = got, !.list = msgs]
  <2>1. g \in Pages
    BY <1>1, <1>2 DEF Pages
  <2>2. s = [Now EXCEPT !.page = g]
    BY <1>1 DEF States, Pages
  <2> HIDE DEF g, s
  <2>3. s \in States /\ s.calls = calls /\ s.cursor = Now.cursor /\ s.page = g
    BY <1>1, <2>1, <2>2 DEF States
  <2>4. QED
    BY <2>3 DEF g
<1> HIDE DEF s
<1>5. /\ s.page.live = page.live /\ s.page.hydrated /\ s.page.queue = page.queue
      /\ s.page.seen = page.seen
  BY <1>1, <1>4 DEF Pages
<1>6. Ready(s, turns)
  <2>1. s.page.live # None => Now.calls[s.page.live].pc \in {"post", "stream"}
    BY <1>1, <1>5 DEF ClientOK, LiveOK
  <2>2. Range(s.page.queue) \subseteq s.page.seen
    BY <1>1, <1>5 DEF ClientOK
  <2>3. QED
    BY <1>1, <1>4, <1>5, <2>1, <2>2, SameClient
<1>7. CASE page.hydrated
  BY <1>1, <1>3, <1>6, <1>7, PageStep
<1>8. CASE ~page.hydrated
  <2>1. c \in Callers
    BY <1>3, <1>8, SlotFree
  <2>2. k \in Calls /\ CallOK(k, turns) /\ k.pc = "open"
    BY <1>1, AskingType
  <2>3. /\ page.live = None
        /\ \A d \in Callers : ~Alive(calls[d])
    BY <1>1, <1>8 DEF Blank, Alive
  <2>4. s.page.live # c
    BY <1>5, <2>1, <2>3, NoneAssumption
  <2>5. Set(u)
    BY <1>3, <1>8
  <2> HIDE DEF c, k
  <2>6. Ready(u, turns)
    BY <1>4, <1>6, <2>1, <2>2, <2>3, <2>4, OneCallReady
  <2> HIDE DEF u
  <2>7. QED
    BY <1>1, <2>5, <2>6, PageStep
<1>9. QED
  BY <1>7, <1>8

\* A reader may be live.
LEMMA LiveReady ==
  ASSUME NEW s, NEW ts, Ready(s, ts), NEW c \in Callers, s.calls[c].pc \in {"post", "stream"},
         NEW t \in States, t.calls = s.calls, t.page.live = c, t.page.hydrated,
         t.cursor = s.cursor, t.page.queue = s.page.queue, t.page.seen = s.page.seen
  PROVE  Ready(t, ts)
BY DEF Ready, ClientOK, OneReader, LiveOK

\* The attach is answered: it reads, and had been a reader before.
LEMMA AttachType ==
  ASSUME TypeInv, NEW c \in Callers, attachActiveTurn(c)
  PROVE  TypeInv'
<1> DEFINE tail == IF page.list = <<>> THEN None ELSE Last(page.list)
           seed == IF tail # None /\ tail.kind = "assistant" THEN tail.id ELSE Temp(c)
<1>1. /\ Ready(Now, turns) /\ calls[c] \in Calls /\ CallOK(calls[c], turns) /\ page.live # c
      /\ Now.page = page /\ Now.calls = calls /\ turns \in Seq(TurnRecs) /\ Now \in States
      /\ UNCHANGED <<log, turns, faults, asked, heard>>
      /\ page \in Pages /\ calls[c].pc = "open" /\ ~calls[c].aborted
  BY BusyReady, CallIs, NotLive, NowIs DEF attachActiveTurn
<1>2. CASE Set([Now EXCEPT !.calls[c] = Over, !.cursor = 0])
  <2> DEFINE s == [Now EXCEPT !.calls[c] = Over]
             u == [Now EXCEPT !.calls[c] = Over, !.cursor = 0]
  <2>1. Ready(s, turns)
    BY <1>1, OverReady
  <2>2. s \in States
    BY <2>1 DEF Ready, ClientOK
  <2>3. u \in States /\ u.calls = s.calls /\ u.page = s.page /\ u.cursor = 0
    BY <2>2 DEF States
  <2> HIDE DEF s, u
  <2>4. Ready(u, turns)
    BY <2>1, <2>3, SameReaders DEF Ready, ClientOK
  <2>5. Set(u)
    BY <1>2 DEF u
  <2>6. QED
    BY <1>1, <2>4, <2>5, PageStep
<1>3. CASE /\ calls[c].net = "open"
           /\ Set(publishTurn([Now EXCEPT
                    !.page.cancelInFlight = FALSE, !.page.cancelCommitted = FALSE,
                    !.calls[c] = [@ EXCEPT !.pc = "stream", !.answer = seed]], c))
  <2> DEFINE k == [calls[c] EXCEPT !.pc = "stream", !.answer = seed]
             g == [page EXCEPT !.cancelInFlight = FALSE, !.cancelCommitted = FALSE, !.live = c]
             s == [Now EXCEPT !.calls[c] = k]
             u == [s EXCEPT !.page = g]
  <2>1. seed \in Ids
    <3>1. CASE page.list = <<>>
      BY <3>1, IdTypes
    <3>2. CASE page.list # <<>>
      <4>1. page.list \in Seq(Bubbles)
        BY <1>1 DEF Pages
      <4>2. Last(page.list) \in Bubbles
        BY <3>2, <4>1 DEF Last
      <4>3. Last(page.list).id \in Ids
        BY <4>2, BubbleTypes DEF UserBubbles, AnswerBubbles
      <4>4. QED
        BY <3>2, <4>3, IdTypes
    <3>3. QED
      BY <3>1, <3>2
  <2>2. Set(u)
    BY <1>1, <1>3 DEF publishTurn, States, Pages
  <2> HIDE DEF seed
  <2>3. k \in Calls /\ CallOK(k, turns) /\ Alive(Now.calls[c]) /\ k.pc = "stream"
    <3>1. k \in Calls /\ k.pc = "stream" /\ k.turn = calls[c].turn /\ k.pos = calls[c].pos
          /\ k.answer = seed /\ k.msg = calls[c].msg
      BY <1>1, <2>1, IdTypes DEF Calls, Pcs, MaybeId
    <3>2. Alive(Now.calls[c])
      BY <1>1 DEF Alive
    <3> HIDE DEF k
    <3>3. CallOK(k, turns)
      BY <1>1, <1>3, <2>1, <3>1 DEF CallOK
    <3>4. QED
      BY <3>1, <3>2, <3>3
  <2> HIDE DEF k
  <2>4. Ready(s, turns)
    BY <1>1, <2>3, OneCallReady
  <2>5. s \in States /\ s.page = page /\ s.cursor = Now.cursor /\ s.calls[c] = k
    BY <1>1, <2>3, OneCallType
  <2>6. g \in Pages /\ g.live = c /\ g.hydrated = page.hydrated /\ g.queue = page.queue
        /\ g.seen = page.seen
    BY <1>1 DEF Pages
  <2> HIDE DEF s, g
  <2>7. u \in States /\ u.page = g /\ u.cursor = s.cursor /\ u.calls = s.calls
    BY <2>5, <2>6 DEF States
  <2> HIDE DEF u
  <2>8. Ready(u, turns)
    BY <1>1, <2>3, <2>4, <2>5, <2>6, <2>7, LiveReady DEF Ready
  <2>9. QED
    BY <1>1, <2>2, <2>8, PageStep
<1>4. QED
  BY <1>2, <1>3 DEF attachActiveTurn

\* A page that has just been loaded.
LEMMA FreshType == Fresh \in Pages
<1>1. <<>> \in Seq(Bubbles) /\ <<>> \in Seq(Msgs) /\ <<>> \in Seq(Records)
  OBVIOUS
<1>2. QED
  BY <1>1 DEF Fresh, Pages, MaybeMsg, MaybeId, Reads

\* The page is loaded anew.
LEMMA ReloadType ==
  ASSUME TypeInv, Reload
  PROVE  TypeInv'
<1>1. /\ ClientOK(Now, turns) /\ ServerOK /\ CountsOK
      /\ Now.page = page /\ Now.calls = calls /\ Now.cursor = cursor
      /\ turns \in Seq(TurnRecs) /\ Now \in States
      /\ UNCHANGED <<log, turns, faults, asked, heard, cursor>>
      /\ page' = Fresh
      /\ calls' = [c \in Callers |-> IF calls[c].pc = "idle" THEN Idle ELSE Over]
  BY NowIs DEF Reload, TypeInv
<1> DEFINE u == [Now EXCEPT !.page = page', !.calls = calls']
<1>2. \A c \in Callers : calls'[c] \in {Idle, Over}
  BY <1>1
<1>3. calls' \in [Callers -> Calls] /\ page' \in Pages
  BY <1>1, IdleType, FreshType
<1>4. u \in States /\ u.page = page' /\ u.calls = calls' /\ u.cursor = cursor'
  BY <1>1, <1>3 DEF States
<1>5. Now' = u
  BY <1>4, SetIs
<1> HIDE DEF u
<1>6. Idle.pc = "idle" /\ Over.pc = "over"
  BY DEF Idle, Over
<1>7. /\ page'.live = None /\ page'.queue = <<>> /\ page'.pending = None /\ page'.seen = {}
  BY <1>1 DEF Fresh
<1>8. \A c \in Callers : ~Alive(u.calls[c]) /\ CallOK(u.calls[c], turns)
  BY <1>1, <1>2, <1>4, <1>6, IdleOK DEF Alive
<1>9. ClientOK(u, turns)
  <2>1. OneReader(u) /\ LiveOK(u)
    BY <1>4, <1>7, <1>8 DEF OneReader, LiveOK
  <2>2. u.cursor > 0 => turns # <<>>
    BY <1>1, <1>4 DEF ClientOK
  <2>3. Range(u.page.queue) \subseteq u.page.seen
    BY <1>4, <1>7 DEF Range
  <2>4. QED
    BY <1>4, <1>8, <2>1, <2>2, <2>3 DEF ClientOK
<1>10. Blank(u)
  BY <1>2, <1>4, <1>6, <1>7 DEF Blank
<1>11. ServerOK' /\ CountsOK'
  BY <1>1 DEF ServerOK, CountsOK, Running, Claimed
<1>12. QED
  BY <1>1, <1>5, <1>9, <1>10, <1>11 DEF TypeInv
-----------------------------------------------------------------------------
(* The server's steps.                                                     *)

\* The turns us have gone on from ts: none and no event of theirs is gone.
Grown(ts, us) ==
  /\ us \in Seq(TurnRecs) /\ Len(ts) <= Len(us)
  /\ \A k \in 1..Len(ts) : Len(ts[k].events) <= Len(us[k].events)

\* The events of a turn.
LEMMA EventCount == \A r \in TurnRecs : r.events \in Seq(Events) /\ Len(r.events) \in Nat
<1>1. \A r \in TurnRecs : r.events \in Seq(Events)
  BY DEF TurnRecs
<1>2. QED
  BY <1>1

\* A call stays what it is while the turns go on.
LEMMA GrownCall ==
  ASSUME NEW k \in Calls, NEW ts \in Seq(TurnRecs), NEW us, Grown(ts, us), CallOK(k, ts)
  PROVE  CallOK(k, us)
<1>1. /\ Len(ts) \in Nat /\ Len(us) \in Nat /\ Len(ts) <= Len(us)
      /\ k.turn \in Nat /\ k.turn <= Len(ts) /\ k.turn <= Len(us)
  BY ClientAssumption DEF Grown, CallOK, Calls
<1>2. k.turn # 0 => k.pos <= Len(us[k.turn].events)
  <2> SUFFICES ASSUME k.turn # 0 PROVE k.pos <= Len(us[k.turn].events)
    OBVIOUS
  <2>1. k.turn \in 1..Len(ts) /\ k.turn \in 1..Len(us)
    BY <1>1
  <2>2. ts[k.turn] \in TurnRecs /\ us[k.turn] \in TurnRecs
    BY <2>1 DEF Grown
  <2>3. Len(ts[k.turn].events) \in Nat /\ Len(us[k.turn].events) \in Nat /\ k.pos \in Nat
    <3>1. k.pos \in Nat
      BY DEF Calls
    <3>2. QED
      BY <2>2, <3>1, EventCount
  <2>4. Len(ts[k.turn].events) <= Len(us[k.turn].events)
    BY <2>1 DEF Grown
  <2>5. k.pos <= Len(ts[k.turn].events)
    BY DEF CallOK
  <2>6. QED
    BY <2>3, <2>4, <2>5
<1>3. QED
  BY <1>1, <1>2 DEF CallOK

\* A step of the server or of the network: it leaves the calls where they are.
LEMMA ServerStep ==
  ASSUME TypeInv, calls' \in [Callers -> Calls],
         \A d \in Callers : /\ calls'[d].pc = calls[d].pc /\ calls'[d].aborted = calls[d].aborted
                            /\ CallOK(calls'[d], turns'),
         Grown(turns, turns'),
         page'.live = page.live, page'.queue = page.queue, page'.seen = page.seen,
         page'.hydrated = page.hydrated, page'.pending = page.pending, page' \in Pages,
         cursor' = cursor, ServerOK', CountsOK'
  PROVE  TypeInv'
<1>1. /\ ClientOK(Now, turns) /\ Blank(Now)
      /\ Now.page = page /\ Now.calls = calls /\ Now.cursor = cursor
      /\ turns \in Seq(TurnRecs) /\ Now \in States /\ calls \in [Callers -> Calls]
  BY NowIs DEF TypeInv
<1> DEFINE u == [Now EXCEPT !.page = page', !.calls = calls']
<1>3. u \in States /\ u.page = page' /\ u.calls = calls' /\ u.cursor = cursor'
  BY <1>1 DEF States
<1>4. Now' = u
  BY <1>3, SetIs
<1> HIDE DEF u
<1>5. \A d \in Callers : u.calls[d].pc = calls[d].pc /\ u.calls[d].aborted = calls[d].aborted
  BY <1>1, <1>3
<1>6. \A d \in Callers : CallOK(u.calls[d], turns')
  BY <1>3
<1>7. OneReader(u)
  BY <1>1, <1>5 DEF OneReader, ClientOK, Alive
<1>8. LiveOK(u)
  <2>1. page.live \in Callers \cup {None}
    BY <1>1 DEF States, Pages
  <2>2. QED
    BY <1>1, <1>3, <1>5, <2>1 DEF LiveOK, ClientOK
<1>9. u.cursor > 0 => turns' # <<>>
  <2> SUFFICES ASSUME cursor > 0 PROVE turns' # <<>>
    BY <1>3
  <2>1. turns # <<>>
    BY <1>1 DEF ClientOK
  <2>2. Len(turns) > 0 /\ Len(turns') >= Len(turns)
    BY <1>1, <2>1 DEF Grown
  <2>3. QED
    BY <2>2 DEF Grown
<1>10. ClientOK(u, turns')
  BY <1>1, <1>3, <1>6, <1>7, <1>8, <1>9 DEF ClientOK
<1>11. Blank(u)
  BY <1>1, <1>3, <1>5 DEF Blank
<1>12. QED
  BY <1>4, <1>10, <1>11 DEF TypeInv

\* It answers one call,
LEMMA AnswerStep ==
  ASSUME TypeInv, NEW c \in Callers, NEW k \in Calls,
         calls' = [calls EXCEPT ![c] = k], k.pc = calls[c].pc, k.aborted = calls[c].aborted,
         Grown(turns, turns'), CallOK(k, turns'), page' = page, cursor' = cursor,
         ServerOK', CountsOK'
  PROVE  TypeInv'
<1>1. turns \in Seq(TurnRecs) /\ calls \in [Callers -> Calls] /\ page \in Pages
      /\ \A d \in Callers : CallOK(calls[d], turns)
  BY NowIs
<1>2. calls' \in [Callers -> Calls]
  BY <1>1
<1>3. ASSUME NEW d \in Callers
      PROVE  /\ calls'[d].pc = calls[d].pc /\ calls'[d].aborted = calls[d].aborted
             /\ CallOK(calls'[d], turns')
  <2>1. CASE d = c
    BY <1>1, <2>1
  <2>2. CASE d # c
    <3>1. calls'[d] = calls[d] /\ calls[d] \in Calls /\ CallOK(calls[d], turns)
      BY <1>1, <2>2
    <3>2. QED
      BY <1>1, <3>1, GrownCall
  <2>3. QED
    BY <2>1, <2>2
<1>4. QED
  BY <1>1, <1>2, <1>3, ServerStep

\* or none.
LEMMA QuietStep ==
  ASSUME TypeInv, Grown(turns, turns'), UNCHANGED <<page, cursor, calls>>, ServerOK', CountsOK'
  PROVE  TypeInv'
<1>1. turns \in Seq(TurnRecs) /\ calls \in [Callers -> Calls] /\ page \in Pages
      /\ \A d \in Callers : CallOK(calls[d], turns)
  BY NowIs
<1>2. \A d \in Callers : CallOK(calls[d], turns')
  BY <1>1, GrownCall
<1>3. QED
  BY <1>1, <1>2, ServerStep

\* Turns that stay have gone on.
LEMMA SameTurns ==
  ASSUME TypeInv, turns' = turns
  PROVE  Grown(turns, turns')
<1>1. turns \in Seq(TurnRecs)
  BY NowIs
<1>2. \A k \in 1..Len(turns) : Len(turns[k].events) \in Nat
  <2> SUFFICES ASSUME NEW k \in 1..Len(turns) PROVE Len(turns[k].events) \in Nat
    OBVIOUS
  <2>1. turns[k] \in TurnRecs
    BY <1>1
  <2>2. QED
    BY <2>1, EventCount
<1>3. QED
  BY <1>1, <1>2 DEF Grown

\* The last turn goes on.
LEMMA LastGrows ==
  ASSUME NEW ts \in Seq(TurnRecs), ts # <<>>, NEW r \in TurnRecs,
         Len(Last(ts).events) <= Len(r.events)
  PROVE  LET us == [ts EXCEPT ![Len(ts)] = r] IN
         Grown(ts, us) /\ Len(us) = Len(ts) /\ Last(us) = r /\ us # <<>>
<1> DEFINE n == Len(ts)
           us == [ts EXCEPT ![n] = r]
<1>1. n \in Nat \ {0}
  OBVIOUS
<1>2. us \in Seq(TurnRecs) /\ Len(us) = n /\ us[n] = r
      /\ \A k \in 1..n : k # n => us[k] = ts[k]
  BY <1>1
<1>3. \A k \in 1..n : Len(ts[k].events) <= Len(us[k].events)
  <2> SUFFICES ASSUME NEW k \in 1..n PROVE Len(ts[k].events) <= Len(us[k].events)
    OBVIOUS
  <2>1. ts[k] \in TurnRecs
    OBVIOUS
  <2>2. Len(ts[k].events) \in Nat
    BY <2>1, EventCount
  <2> HIDE DEF us, n
  <2>3. QED
    BY <1>2, <2>2 DEF Last, n
<1> HIDE DEF us
<1>4. Grown(ts, us)
  BY <1>1, <1>2, <1>3 DEF Grown
<1>5. Last(us) = r /\ us # <<>>
  BY <1>1, <1>2 DEF Last
<1>6. QED
  BY <1>2, <1>4, <1>5 DEF us

\* A new turn.
LEMMA AppendGrows ==
  ASSUME NEW ts \in Seq(TurnRecs), NEW r \in TurnRecs
  PROVE  LET us == Append(ts, r) IN
         Grown(ts, us) /\ Len(us) = Len(ts) + 1 /\ Last(us) = r /\ us # <<>>
<1> DEFINE us == Append(ts, r)
           n == Len(ts)
<1>1. n \in Nat
  OBVIOUS
<1>2. us \in Seq(TurnRecs) /\ Len(us) = n + 1 /\ us[n + 1] = r /\ \A k \in 1..n : us[k] = ts[k]
  BY <1>1
<1> HIDE DEF us
<1>3. \A k \in 1..n : Len(ts[k].events) <= Len(us[k].events)
  <2> SUFFICES ASSUME NEW k \in 1..n PROVE Len(ts[k].events) <= Len(us[k].events)
    OBVIOUS
  <2>1. ts[k] \in TurnRecs
    OBVIOUS
  <2>2. Len(ts[k].events) \in Nat
    BY <2>1, EventCount
  <2>3. QED
    BY <1>2, <2>2
<1>4. Grown(ts, us)
  BY <1>1, <1>2, <1>3 DEF Grown
<1>5. Last(us) = r /\ us # <<>>
  BY <1>1, <1>2 DEF Last
<1>6. QED
  BY <1>2, <1>4, <1>5 DEF us

\* A sequence of one element.
LEMMA OneElement ==
  ASSUME NEW S, NEW x \in S
  PROVE  <<x>> \in Seq(S) /\ <<>> \in Seq(S)
OBVIOUS

\* What a step of the server makes of a turn, and of a call.
Steered(t, steers, events) == [t EXCEPT !.steers = steers, !.events = events]
\* It has ended, has been told to stop, or lets go of the chat.
Done(t, events) == [t EXCEPT !.ended = TRUE, !.events = events]
Told(t) == [t EXCEPT !.cancel = TRUE]
LetGo(t) == [t EXCEPT !.claimed = FALSE]

\* A steer is queued, or the queue is taken in.
LEMMA SteeredIs ==
  ASSUME NEW t \in TurnRecs, NEW steers \in Seq(Msgs), NEW events \in Seq(Events)
  PROVE  /\ Steered(t, steers, events) \in TurnRecs /\ Steered(t, steers, events).events = events
         /\ Steered(t, steers, events).claimed = t.claimed
         /\ Steered(t, steers, events).ended = t.ended
BY DEF TurnRecs, Steered

\* The answer has ended.
LEMMA DoneIs ==
  ASSUME NEW t \in TurnRecs, NEW events \in Seq(Events)
  PROVE  Done(t, events) \in TurnRecs /\ Done(t, events).events = events /\ Done(t, events).ended
BY DEF TurnRecs, Done

\* The turn is told to stop, or lets go.
LEMMA ToldIs ==
  ASSUME NEW t \in TurnRecs
  PROVE  /\ Told(t) \in TurnRecs /\ Told(t).events = t.events
         /\ Told(t).claimed = t.claimed /\ Told(t).ended = t.ended
         /\ LetGo(t) \in TurnRecs /\ LetGo(t).events = t.events /\ ~LetGo(t).claimed
BY DEF TurnRecs, Told, LetGo

\* The call has been answered, and with a stream from a position.
Answered(k, net, n) == [k EXCEPT !.net = net, !.turn = n]
Opened(k, net, n, pos) == [k EXCEPT !.net = net, !.turn = n, !.pos = pos]

\* Both are calls.
LEMMA CallTurn ==
  ASSUME NEW k \in Calls, NEW net \in Nets, NEW n \in 0..MaxTurns, NEW pos \in Nat
  PROVE  /\ LET w == Answered(k, net, n) IN
            /\ w \in Calls /\ w.pc = k.pc /\ w.aborted = k.aborted /\ w.pos = k.pos
            /\ w.turn = n /\ w.msg = k.msg /\ w.answer = k.answer /\ w.net = net
         /\ LET w == Opened(k, net, n, pos) IN
            /\ w \in Calls /\ w.pc = k.pc /\ w.aborted = k.aborted /\ w.pos = pos
            /\ w.turn = n /\ w.msg = k.msg /\ w.answer = k.answer /\ w.net = net
BY DEF Calls, Answered, Opened

\* An answer other than a stream: the call waits for no more.
LEMMA NetIs ==
  ASSUME TypeInv, NEW c \in Callers, NEW net \in Nets \ {"open"}, Grown(turns, turns')
  PROVE  LET k == [calls[c] EXCEPT !.net = net] IN
         /\ k \in Calls /\ k.pc = calls[c].pc /\ k.aborted = calls[c].aborted
         /\ CallOK(k, turns')
         /\ [calls EXCEPT ![c].net = net] = [calls EXCEPT ![c] = k]
<1> DEFINE k == [calls[c] EXCEPT !.net = net]
<1>1. /\ calls[c] \in Calls /\ CallOK(calls[c], turns) /\ calls \in [Callers -> Calls]
      /\ turns \in Seq(TurnRecs)
  BY CallIs, NowIs
<1>2. k \in Calls /\ k.pc = calls[c].pc /\ k.aborted = calls[c].aborted
  BY <1>1 DEF Calls
<1>3. CallOK(k, turns)
  BY <1>1 DEF CallOK, Calls
<1>4. [calls EXCEPT ![c].net = net] = [calls EXCEPT ![c] = k]
  BY <1>1
<1> HIDE DEF k
<1>5. CallOK(k, turns')
  BY <1>1, <1>2, <1>3, GrownCall
<1>6. QED
  BY <1>2, <1>4, <1>5 DEF k

\* The last turn is one.
LEMMA LastIs ==
  ASSUME TypeInv, turns # <<>>
  PROVE  /\ Last(turns) \in TurnRecs /\ Last(turns) = turns[Len(turns)]
         /\ Len(turns) \in 1..MaxTurns /\ Len(turns) \in 1..Len(turns)
         /\ Len(Last(turns).events) \in Nat
<1>1. turns \in Seq(TurnRecs) /\ Len(turns) <= MaxTurns
  BY DEF TypeInv, ServerOK
<1>2. Len(turns) \in 1..Len(turns) /\ Len(turns) \in 1..MaxTurns
  BY <1>1, ClientAssumption
<1>3. Last(turns) = turns[Len(turns)] /\ Last(turns) \in TurnRecs
  BY <1>1, <1>2 DEF Last
<1>4. QED
  BY <1>2, <1>3, EventCount

\* The last turn goes on and the transcript stays.
LEMMA LastStep ==
  ASSUME TypeInv, turns # <<>>, NEW r \in TurnRecs,
         Len(Last(turns).events) <= Len(r.events), log' = log,
         r.claimed /\ ~r.ended => Running,
         turns' = [turns EXCEPT ![Len(turns)] = r]
  PROVE  Grown(turns, turns') /\ ServerOK'
<1>1. /\ turns \in Seq(TurnRecs) /\ log \in Seq(Records) /\ Len(turns) <= MaxTurns
      /\ Len(log) <= Len(turns) /\ (Running => Len(log) < Len(turns))
  BY DEF TypeInv, ServerOK
<1>2. Grown(turns, turns') /\ Len(turns') = Len(turns) /\ Last(turns') = r /\ turns' # <<>>
  BY <1>1, LastGrows
<1>3. turns' \in Seq(TurnRecs)
  BY <1>2 DEF Grown
<1>4. Running' => Running
  BY <1>2 DEF Running, Claimed
<1>5. QED
  BY <1>1, <1>2, <1>3, <1>4 DEF ServerOK

\* A turn begins, on a transcript that may be cut.
LEMMA BegunStep ==
  ASSUME TypeInv, NEW m \in MaybeMsg, NEW replace, Begun(m, replace), Len(turns) < MaxTurns
  PROVE  Grown(turns, turns') /\ ServerOK' /\ Len(turns') = Len(turns) + 1
<1> DEFINE from == {i \in DOMAIN log : replace = Backend(log[i].turn)}
           keep == IF from = {} THEN Len(log) ELSE (CHOOSE i \in from : TRUE) - 1
           r == [msg |-> m, events |-> <<Event("meta", m, FALSE)>>,
                 steers |-> <<>>, cancel |-> FALSE, ended |-> FALSE, claimed |-> TRUE]
<1>1. /\ turns \in Seq(TurnRecs) /\ log \in Seq(Records) /\ Len(turns) <= MaxTurns
      /\ Len(log) <= Len(turns) /\ Len(turns) \in Nat /\ Len(log) \in Nat /\ MaxTurns \in Nat
      /\ DOMAIN log = 1..Len(log)
  BY ClientAssumption DEF TypeInv, ServerOK
<1>2. turns' = Append(turns, r) /\ log' = SubSeq(log, 1, keep)
  BY DEF Begun
<1>3. keep \in 0..Len(log)
  <2>1. CASE from = {}
    BY <1>1, <2>1
  <2>2. CASE from # {}
    <3>1. (CHOOSE i \in from : TRUE) \in 1..Len(log)
      BY <1>1, <2>2
    <3>2. QED
      BY <1>1, <2>2, <3>1
  <2>3. QED
    BY <2>1, <2>2
<1>4. r \in TurnRecs
  <2>1. Event("meta", m, FALSE) \in Events
    BY DEF Event, Events
  <2>2. <<Event("meta", m, FALSE)>> \in Seq(Events) /\ <<>> \in Seq(Msgs)
    <3> DEFINE e == Event("meta", m, FALSE)
    <3> HIDE DEF e
    <3>1. e \in Events
      BY <2>1 DEF e
    <3>2. <<e>> \in Seq(Events) /\ <<>> \in Seq(Msgs)
      BY <3>1, OneElement
    <3>3. QED
      BY <3>2 DEF e
  <2>3. QED
    BY <2>2 DEF TurnRecs
<1> HIDE DEF keep, r, from
<1>5. Grown(turns, turns') /\ Len(turns') = Len(turns) + 1
  BY <1>1, <1>2, <1>4, AppendGrows
<1>6. log' \in Seq(Records) /\ Len(log') = keep
  <2>1. \A i \in 1..keep : log[i] \in Records
    BY <1>1, <1>3
  <2>2. QED
    BY <1>1, <1>2, <1>3, <2>1
<1>7. QED
  BY <1>1, <1>3, <1>5, <1>6 DEF ServerOK, Grown

\* The server stays as it is.
LEMMA SameServer ==
  ASSUME TypeInv, log' = log, turns' = turns
  PROVE  Grown(turns, turns') /\ ServerOK'
BY SameTurns DEF TypeInv, ServerOK, Running, Claimed

\* The counters stay counters.
LEMMA CountsStay ==
  ASSUME TypeInv
  PROVE  /\ UNCHANGED <<faults, asked, heard>> => CountsOK'
         /\ \A m \in Msgs : heard' = [heard EXCEPT ![m] = @ + 1] /\ UNCHANGED <<faults, asked>>
              => CountsOK'
<1>1. CountsOK
  BY DEF TypeInv
<1>2. UNCHANGED <<faults, asked, heard>> => CountsOK'
  BY <1>1 DEF CountsOK
<1>3. ASSUME NEW m \in Msgs, heard' = [heard EXCEPT ![m] = @ + 1], UNCHANGED <<faults, asked>>
      PROVE  CountsOK'
  BY <1>1, <1>3 DEF CountsOK
<1>4. QED
  BY <1>2, <1>3

\* The server's steps keep the invariant.
LEMMA PostType ==
  ASSUME TypeInv, NEW c \in Callers, ServePost(c)
  PROVE  TypeInv'
<1>1. /\ calls[c] \in Calls /\ CallOK(calls[c], turns) /\ calls[c].msg \in Msgs
      /\ calls[c].pc = "post" /\ UNCHANGED <<page, cursor, faults, asked>>
      /\ calls \in [Callers -> Calls] /\ turns \in Seq(TurnRecs)
  BY CallIs, NowIs DEF ServePost
<1>2. CASE /\ calls' = [calls EXCEPT ![c].net = IF Claimed THEN "conflict" ELSE "refused"]
           /\ UNCHANGED <<log, turns, heard>>
  <2> DEFINE net == IF Claimed THEN "conflict" ELSE "refused"
             k == [calls[c] EXCEPT !.net = net]
  <2>1. Grown(turns, turns') /\ ServerOK' /\ CountsOK'
    BY <1>1, <1>2, SameServer, CountsStay
  <2>2. net \in Nets \ {"open"} /\ calls' = [calls EXCEPT ![c].net = net]
    BY <1>2 DEF Nets
  <2> HIDE DEF net
  <2>3. /\ k \in Calls /\ k.pc = calls[c].pc /\ k.aborted = calls[c].aborted
        /\ CallOK(k, turns')
        /\ calls' = [calls EXCEPT ![c] = k]
    BY <2>1, <2>2, NetIs
  <2> HIDE DEF k
  <2>4. QED
    BY <1>1, <2>1, <2>3, AnswerStep
<1>3. CASE /\ Len(turns) < MaxTurns /\ Begun(calls[c].msg, calls[c].replace)
           /\ calls' = [calls EXCEPT ![c].net = "open", ![c].turn = Len(turns) + 1]
           /\ heard' = [heard EXCEPT ![calls[c].msg] = @ + 1]
  <2> DEFINE k == [calls[c] EXCEPT !.net = "open", !.turn = Len(turns) + 1]
  <2>1. Grown(turns, turns') /\ ServerOK' /\ Len(turns') = Len(turns) + 1
    BY <1>1, <1>3, BegunStep DEF MaybeMsg
  <2>2. CountsOK'
    BY <1>1, <1>3, CountsStay
  <2>3. Len(turns) \in Nat /\ Len(turns) + 1 \in 0..MaxTurns
    BY <1>1, <1>3, ClientAssumption
  <2>4. k \in Calls /\ k.pc = "post" /\ k.aborted = calls[c].aborted /\ k.pos = 0
        /\ k.turn = Len(turns) + 1 /\ k.msg = calls[c].msg /\ k.answer = calls[c].answer
    BY <1>1, <2>3 DEF Calls, Nets, CallOK
  <2>5. Len(turns'[Len(turns) + 1].events) \in Nat
    <3>1. turns'[Len(turns) + 1] \in TurnRecs
      BY <2>1, <2>3 DEF Grown
    <3>2. QED
      BY <3>1, EventCount
  <2>6. calls' = [calls EXCEPT ![c] = k]
    BY <1>1, <1>3
  <2> HIDE DEF k
  <2>7. CallOK(k, turns')
    BY <1>1, <2>1, <2>3, <2>4, <2>5 DEF CallOK
  <2>8. QED
    BY <1>1, <2>1, <2>2, <2>4, <2>6, <2>7, AnswerStep
<1>4. QED
  BY <1>2, <1>3 DEF ServePost

\* POST /steer.
LEMMA SteerType ==
  ASSUME TypeInv, NEW c \in Callers, ServeSteer(c)
  PROVE  TypeInv'
<1>1. /\ calls[c].msg \in Msgs /\ UNCHANGED <<log, page, cursor, faults, asked, heard>>
  BY CallIs DEF ServeSteer
<1>2. CASE /\ Running /\ calls' = [calls EXCEPT ![c].net = "queued"]
           /\ turns' = [turns EXCEPT
                ![Len(turns)].steers = Append(@, calls[c].msg),
                ![Len(turns)].events = Append(@, Event("user_message", calls[c].msg, FALSE))]
  <2> DEFINE t == Last(turns)
             e == Event("user_message", calls[c].msg, FALSE)
             r == Steered(t, Append(t.steers, calls[c].msg), Append(t.events, e))
             k == [calls[c] EXCEPT !.net = "queued"]
  <2>1. /\ turns # <<>> /\ t \in TurnRecs /\ t = turns[Len(turns)] /\ turns \in Seq(TurnRecs)
        /\ Len(turns) \in 1..Len(turns) /\ Len(t.events) \in Nat
    BY <1>2, LastIs, NowIs DEF Running, Claimed
  <2>2. e \in Events
    BY <1>1 DEF Event, Events
  <2>3. turns' = [turns EXCEPT ![Len(turns)] = r]
    BY <1>2, <2>1 DEF TurnRecs, Steered
  <2> HIDE DEF t, e
  <2>4. /\ Append(t.steers, calls[c].msg) \in Seq(Msgs) /\ Append(t.events, e) \in Seq(Events)
        /\ Len(Append(t.events, e)) = Len(t.events) + 1
    <3>1. t.steers \in Seq(Msgs) /\ t.events \in Seq(Events)
      BY <2>1 DEF TurnRecs
    <3>2. QED
      BY <1>1, <2>2, <3>1
  <2>5. r \in TurnRecs /\ r.events = Append(t.events, e) /\ Len(t.events) <= Len(r.events)
    <3>1. t \in TurnRecs
      BY <2>1
    <3>2. r \in TurnRecs /\ r.events = Append(t.events, e)
      <4> DEFINE steers == Append(t.steers, calls[c].msg)
                 events == Append(t.events, e)
      <4>1. steers \in Seq(Msgs) /\ events \in Seq(Events) /\ r = Steered(t, steers, events)
        BY <2>4
      <4> HIDE DEF steers, events, r
      <4>2. r \in TurnRecs /\ r.events = events
        BY <3>1, <4>1, SteeredIs
      <4>3. QED
        BY <4>2 DEF events
    <3>3. Len(r.events) = Len(t.events) + 1
      BY <2>4, <3>2
    <3>4. QED
      BY <2>1, <3>2, <3>3
  <2> HIDE DEF r
  <2>6. Grown(turns, turns') /\ ServerOK'
    BY <1>1, <1>2, <2>1, <2>3, <2>5, LastStep DEF t
  <2>7. CountsOK'
    BY <1>1, CountsStay
  <2>8. /\ k \in Calls /\ k.pc = calls[c].pc /\ k.aborted = calls[c].aborted
        /\ CallOK(k, turns')
        /\ calls' = [calls EXCEPT ![c] = k]
    BY <1>2, <2>6, NetIs DEF Nets
  <2> HIDE DEF k
  <2>9. QED
    BY <1>1, <2>6, <2>7, <2>8, AnswerStep
<1>3. CASE calls' = [calls EXCEPT ![c].net = "idle"] /\ turns' = turns
  <2> DEFINE k == [calls[c] EXCEPT !.net = "idle"]
  <2>1. Grown(turns, turns') /\ ServerOK' /\ CountsOK'
    BY <1>1, <1>3, SameServer, CountsStay
  <2>2. /\ k \in Calls /\ k.pc = calls[c].pc /\ k.aborted = calls[c].aborted
        /\ CallOK(k, turns')
        /\ calls' = [calls EXCEPT ![c] = k]
    BY <1>3, <2>1, NetIs DEF Nets
  <2> HIDE DEF k
  <2>3. QED
    BY <1>1, <2>1, <2>2, AnswerStep
<1>4. QED
  BY <1>2, <1>3 DEF ServeSteer

\* POST /cancel.
LEMMA ServeCancelType ==
  ASSUME TypeInv, NEW c \in Callers, ServeCancel(c)
  PROVE  TypeInv'
<1>1. /\ UNCHANGED <<log, page, cursor, faults, asked, heard>>
      /\ calls[c] \in Calls /\ CallOK(calls[c], turns) /\ calls \in [Callers -> Calls]
      /\ calls[c].pc \in {"cancel", "recancel", "stop"} /\ turns \in Seq(TurnRecs)
      /\ CountsOK'
  BY CallIs, NowIs, CountsStay DEF ServeCancel
<1>2. CASE /\ Running /\ turns' = [turns EXCEPT ![Len(turns)].cancel = TRUE]
           /\ calls' = [calls EXCEPT ![c].net = "accepted", ![c].turn = Len(turns)]
  <2> DEFINE t == Last(turns)
             r == Told(t)
             k == Answered(calls[c], "accepted", Len(turns))
  <2>1. /\ turns # <<>> /\ t \in TurnRecs /\ t = turns[Len(turns)]
        /\ Len(turns) \in 1..Len(turns) /\ Len(turns) \in 1..MaxTurns /\ Len(t.events) \in Nat
    BY <1>2, LastIs DEF Running, Claimed
  <2>2. turns' = [turns EXCEPT ![Len(turns)] = r]
    BY <1>1, <1>2, <2>1 DEF Told
  <2>3. r \in TurnRecs /\ Len(t.events) <= Len(r.events)
    BY <2>1, ToldIs
  <2> HIDE DEF r
  <2>4. Grown(turns, turns') /\ ServerOK'
    BY <1>1, <1>2, <2>1, <2>2, <2>3, LastStep
  <2>5. k \in Calls /\ k.pc = calls[c].pc /\ k.aborted = calls[c].aborted /\ k.pos = 0
        /\ k.turn = Len(turns) /\ k.msg = calls[c].msg
    <3>1. "accepted" \in Nets /\ Len(turns) \in 0..MaxTurns /\ 0 \in Nat
      BY <2>1 DEF Nets
    <3>2. calls[c].pos = 0
      BY <1>1 DEF CallOK
    <3>3. QED
      BY <1>1, <3>1, <3>2, CallTurn
  <2>6. calls' = [calls EXCEPT ![c] = k]
    BY <1>1, <1>2 DEF Answered
  <2> HIDE DEF k
  <2>7. CallOK(k, turns')
    <3>1. Len(turns) <= Len(turns') /\ turns' \in Seq(TurnRecs) /\ Len(turns) \in 1..Len(turns')
      BY <2>1, <2>4 DEF Grown
    <3>2. turns'[Len(turns)] \in TurnRecs
      BY <3>1
    <3>3. Len(turns'[Len(turns)].events) \in Nat
      BY <3>2, EventCount
    <3>4. QED
      BY <1>1, <2>1, <2>5, <3>1, <3>3 DEF CallOK
  <2>8. QED
    BY <1>1, <2>4, <2>5, <2>6, <2>7, AnswerStep
<1>3. CASE calls' = [calls EXCEPT ![c].net = "cancelled"] /\ turns' = turns
  <2> DEFINE k == [calls[c] EXCEPT !.net = "cancelled"]
  <2>1. Grown(turns, turns') /\ ServerOK'
    BY <1>1, <1>3, SameServer
  <2>2. /\ k \in Calls /\ k.pc = calls[c].pc /\ k.aborted = calls[c].aborted
        /\ CallOK(k, turns')
        /\ calls' = [calls EXCEPT ![c] = k]
    BY <1>3, <2>1, NetIs DEF Nets
  <2> HIDE DEF k
  <2>3. QED
    BY <1>1, <2>1, <2>2, AnswerStep
<1>4. QED
  BY <1>2, <1>3 DEF ServeCancel

\* GET /stream: from the cursor, or from the beginning.
LEMMA ServeAttachType ==
  ASSUME TypeInv, NEW c \in Callers, ServeAttach(c)
  PROVE  TypeInv'
<1>1. /\ UNCHANGED <<log, turns, page, cursor, faults, asked, heard>>
      /\ calls[c] \in Calls /\ CallOK(calls[c], turns) /\ calls \in [Callers -> Calls]
      /\ calls[c].pc = "open" /\ turns \in Seq(TurnRecs) /\ cursor \in Nat
      /\ CountsOK' /\ Grown(turns, turns') /\ ServerOK'
  BY CallIs, NowIs, CountsStay, SameServer DEF ServeAttach, States
<1>2. CASE Claimed
  <2> DEFINE pos == IF cursor <= Len(Last(turns).events) THEN cursor ELSE 0
             k == Opened(calls[c], "open", Len(turns), pos)
  <2>1. /\ Last(turns) = turns[Len(turns)] /\ Len(Last(turns).events) \in Nat
        /\ Len(turns) \in 1..Len(turns) /\ Len(turns) \in 1..MaxTurns
    BY <1>2, LastIs DEF Claimed
  <2>2. pos \in Nat /\ pos <= Len(Last(turns).events)
    BY <1>1, <2>1
  <2>3. calls' = [calls EXCEPT ![c] = k]
    BY <1>1, <1>2 DEF ServeAttach, Opened
  <2> HIDE DEF pos
  <2>4. k \in Calls /\ k.pc = "open" /\ k.aborted = calls[c].aborted /\ k.pos = pos
        /\ k.turn = Len(turns) /\ k.msg = calls[c].msg
    <3>1. "open" \in Nets /\ Len(turns) \in 0..MaxTurns
      BY <2>1 DEF Nets
    <3>2. QED
      BY <1>1, <2>2, <3>1, CallTurn
  <2> HIDE DEF k
  <2>5. CallOK(k, turns')
    BY <1>1, <2>1, <2>2, <2>4 DEF CallOK
  <2>6. QED
    BY <1>1, <2>3, <2>4, <2>5, AnswerStep
<1>3. CASE ~Claimed
  <2> DEFINE k == [calls[c] EXCEPT !.net = "inactive"]
  <2>1. calls' = [calls EXCEPT ![c] = k]
    BY <1>1, <1>3 DEF ServeAttach
  <2>2. /\ k \in Calls /\ k.pc = calls[c].pc /\ k.aborted = calls[c].aborted
        /\ CallOK(k, turns')
    BY <1>1, NetIs DEF Nets
  <2> HIDE DEF k
  <2>3. QED
    BY <1>1, <2>1, <2>2, AnswerStep
<1>4. QED
  BY <1>2, <1>3

\* GET of the transcript.
LEMMA ReadType ==
  ASSUME TypeInv, ServeRead
  PROVE  TypeInv'
<1>1. /\ page \in Pages /\ log \in Seq(Records)
      /\ calls \in [Callers -> Calls] /\ \A d \in Callers : CallOK(calls[d], turns)
      /\ UNCHANGED <<log, turns, cursor, calls, faults, asked, heard>>
      /\ page' = [page EXCEPT !.read = [st |-> "answered", log |-> log]]
      /\ CountsOK' /\ Grown(turns, turns') /\ ServerOK'
  BY NowIs, CountsStay, SameServer DEF ServeRead, TypeInv, ServerOK
<1>2. [st |-> "answered", log |-> log] \in Reads
  BY <1>1 DEF Reads
<1>3. /\ page' \in Pages /\ page'.live = page.live /\ page'.queue = page.queue
      /\ page'.seen = page.seen /\ page'.hydrated = page.hydrated /\ page'.pending = page.pending
  BY <1>1, <1>2 DEF Pages
<1>4. QED
  BY <1>1, <1>3, ServerStep

\* The agent takes the steers in.
LEMMA InjectType ==
  ASSUME TypeInv, Inject
  PROVE  TypeInv'
<1> DEFINE t == Last(turns)
           got == t.steers
           new == [i \in DOMAIN got |-> Event("user_message", got[i], TRUE)]
           r == Steered(t, <<>>, t.events \o new)
<1>1. /\ turns # <<>> /\ t \in TurnRecs /\ t = turns[Len(turns)] /\ turns \in Seq(TurnRecs)
      /\ Len(turns) \in 1..Len(turns) /\ Len(t.events) \in Nat
      /\ Running /\ UNCHANGED <<log, page, cursor, calls, faults, asked>>
      /\ turns' = [turns EXCEPT ![Len(turns)].steers = <<>>,
                                ![Len(turns)].events = @ \o new]
      /\ heard' = [m \in Msgs |-> heard[m] + Cardinality({i \in DOMAIN got : got[i] = m})]
  BY LastIs, NowIs DEF Running, Claimed, Inject
<1>2. got \in Seq(Msgs) /\ t.events \in Seq(Events)
  BY <1>1 DEF TurnRecs
<1>3. turns' = [turns EXCEPT ![Len(turns)] = r]
  <2> HIDE DEF new, got
  <2>1. QED
    BY <1>1 DEF TurnRecs, Steered
<1> HIDE DEF got
<1>4. new \in Seq(Events)
  <2>1. \A i \in 1..Len(got) : Event("user_message", got[i], TRUE) \in Events
    <3> SUFFICES ASSUME NEW i \in 1..Len(got) PROVE Event("user_message", got[i], TRUE) \in Events
      OBVIOUS
    <3>1. got[i] \in Msgs
      BY <1>2
    <3> DEFINE g == got[i]
    <3> HIDE DEF g
    <3>2. Event("user_message", g, TRUE) \in Events
      BY <3>1 DEF Event, Events, g
    <3>3. QED
      BY <3>2 DEF g
  <2>2. DOMAIN got = 1..Len(got) /\ Len(got) \in Nat
    BY <1>2
  <2>3. new \in [1..Len(got) -> Events]
    <3> DEFINE f(i) == Event("user_message", got[i], TRUE)
    <3>1. \A i \in 1..Len(got) : f(i) \in Events
      BY <2>1
    <3>2. new = [i \in 1..Len(got) |-> f(i)]
      BY <2>2
    <3> HIDE DEF f, new
    <3>3. QED
      BY <3>1, <3>2
  <2> HIDE DEF new
  <2>4. QED
    BY <2>2, <2>3
<1> HIDE DEF new, t
<1>5. t.events \o new \in Seq(Events) /\ Len(t.events \o new) = Len(t.events) + Len(new)
      /\ Len(new) \in Nat /\ <<>> \in Seq(Msgs)
  BY <1>2, <1>4
<1>6. r \in TurnRecs /\ r.events = t.events \o new /\ Len(t.events) <= Len(r.events)
  <2>1. t \in TurnRecs
    BY <1>1
  <2>2. r \in TurnRecs /\ r.events = t.events \o new
    <3> DEFINE events == t.events \o new
               steers == <<>>
    <3>1. steers \in Seq(Msgs) /\ events \in Seq(Events) /\ r = Steered(t, steers, events)
      BY <1>5
    <3> HIDE DEF steers, events, r
    <3>2. r \in TurnRecs /\ r.events = events
      BY <2>1, <3>1, SteeredIs
    <3>3. QED
      BY <3>2 DEF events
  <2>3. Len(r.events) = Len(t.events) + Len(new)
    BY <1>5, <2>2
  <2>4. QED
    BY <1>1, <1>5, <2>2, <2>3
<1> HIDE DEF r
<1>7. Grown(turns, turns') /\ ServerOK'
  BY <1>1, <1>3, <1>6, LastStep DEF t
<1>8. CountsOK'
  <2>1. \A m \in Msgs : Cardinality({i \in DOMAIN got : got[i] = m}) \in Nat
    <3> SUFFICES ASSUME NEW m \in Msgs PROVE Cardinality({i \in DOMAIN got : got[i] = m}) \in Nat
      OBVIOUS
    <3>1. IsFiniteSet(1..Len(got)) /\ DOMAIN got = 1..Len(got)
      BY <1>2, FS_Interval
    <3>2. IsFiniteSet({i \in DOMAIN got : got[i] = m})
      BY <3>1, FS_Subset
    <3>3. QED
      BY <3>2, FS_CardinalityType
  <2>2. faults \in Nat /\ asked \in [Msgs -> Nat] /\ heard \in [Msgs -> Nat]
    BY DEF TypeInv, CountsOK
  <2>3. heard' \in [Msgs -> Nat]
    <3> DEFINE n(m) == Cardinality({i \in DOMAIN got : got[i] = m})
    <3>1. \A m \in Msgs : n(m) \in Nat /\ heard[m] \in Nat
      BY <2>1, <2>2
    <3>2. heard' = [m \in Msgs |-> heard[m] + n(m)]
      BY <1>1
    <3> HIDE DEF n
    <3>3. \A m \in Msgs : heard[m] + n(m) \in Nat
      BY <3>1
    <3>4. QED
      BY <3>2, <3>3
  <2>4. QED
    BY <1>1, <2>2, <2>3 DEF CountsOK
<1>9. QED
  BY <1>1, <1>7, <1>8, QuietStep

\* A turn ends well or not, with its record or without.
EndStep(st) ==
  /\ Running
  /\ turns' = [turns EXCEPT ![Len(turns)].ended = TRUE,
                            ![Len(turns)].events = Append(@, Event("done", st, FALSE))]
  /\ log' \in {Append(log, [turn |-> Len(turns), msg |-> Last(turns).msg, st |-> st]), log}
  /\ faults' \in {faults, faults + 1}
  /\ UNCHANGED <<page, cursor, calls, asked, heard>>

Statuses == {"complete", "cancelled", "error"}

\* The two ways it does.
LEMMA EndsAre ==
  ASSUME TurnEnds \/ TurnFails
  PROVE  \E st \in Statuses : EndStep(st)
<1>1. CASE TurnEnds
  <2> DEFINE st == IF Last(turns).cancel THEN "cancelled" ELSE "complete"
  <2>1. EndStep(st)
    BY <1>1 DEF TurnEnds, Ends, Recording, EndStep
  <2>2. st \in Statuses
    BY DEF Statuses
  <2> QED
    BY <2>1, <2>2
<1>2. CASE TurnFails
  <2>1. CASE Ends("error") /\ Recording("error")
    BY <1>2, <2>1 DEF TurnFails, Ends, Recording, EndStep, Statuses
  <2>2. CASE Ends(IF Last(turns).cancel THEN "cancelled" ELSE "error") /\ UNCHANGED log
    <3> DEFINE st == IF Last(turns).cancel THEN "cancelled" ELSE "error"
    <3>1. EndStep(st)
      BY <1>2, <2>2 DEF TurnFails, Ends, EndStep
    <3>2. st \in Statuses
      BY DEF Statuses
    <3> QED
      BY <3>1, <3>2
  <2> QED
    BY <1>2, <2>1, <2>2 DEF TurnFails
<1> QED
  BY <1>1, <1>2

\* The answer ends.
LEMMA EndsType ==
  ASSUME TypeInv, TurnEnds \/ TurnFails
  PROVE  TypeInv'
<1> DEFINE t == Last(turns)
<1>0. PICK st \in Statuses : EndStep(st)
  BY EndsAre
<1>a. st \in {"complete", "cancelled", "error"}
  BY DEF Statuses
<1> DEFINE e == Event("done", st, FALSE)
           events == Append(t.events, e)
           r == Done(t, events)
           rec == [turn |-> Len(turns), msg |-> t.msg, st |-> st]
<1>1. /\ turns # <<>> /\ t \in TurnRecs /\ t = turns[Len(turns)] /\ turns \in Seq(TurnRecs)
      /\ Len(turns) \in 1..Len(turns) /\ Len(turns) \in 1..MaxTurns /\ Len(t.events) \in Nat
      /\ Running /\ UNCHANGED <<page, cursor, calls, asked, heard>>
      /\ log' \in {Append(log, rec), log} /\ faults' \in {faults, faults + 1}
  BY <1>0, LastIs, NowIs DEF Running, Claimed, EndStep
<1>2. /\ log \in Seq(Records) /\ Len(turns) <= MaxTurns /\ Len(log) < Len(turns)
      /\ CountsOK'
  BY <1>1 DEF TypeInv, ServerOK, CountsOK
<1>3. turns' = [turns EXCEPT ![Len(turns)] = r]
  <2>1. turns' = [turns EXCEPT ![Len(turns)].ended = TRUE, ![Len(turns)].events = Append(@, e)]
    BY <1>0 DEF EndStep
  <2> HIDE DEF e
  <2>2. QED
    BY <1>1, <2>1 DEF TurnRecs, Done
<1>4. e \in Events
  BY <1>a DEF Event, Events
<1> HIDE DEF e
<1>5. events \in Seq(Events) /\ Len(events) = Len(t.events) + 1
  <2>1. t.events \in Seq(Events)
    BY <1>1, EventCount
  <2> HIDE DEF t
  <2>2. QED
    BY <1>4, <2>1
<1> HIDE DEF events
<1>6. r \in TurnRecs /\ r.events = events /\ r.ended
  <2> HIDE DEF t
  <2>1. QED
    BY <1>1, <1>5, DoneIs
<1> HIDE DEF r
<1>7. Grown(turns, turns') /\ Len(turns') = Len(turns) /\ Last(turns') = r
  <2>1. Len(Last(turns).events) <= Len(r.events)
    BY <1>1, <1>5, <1>6
  <2>2. QED
    BY <1>1, <1>3, <1>6, <2>1, LastGrows
<1>8. rec \in Records
  <2>1. t.msg \in MaybeMsg
    BY <1>1 DEF TurnRecs
  <2>2. QED
    BY <1>1, <1>a, <2>1 DEF Records
<1> HIDE DEF rec
<1>9. log' \in Seq(Records) /\ Len(log') \in {Len(log), Len(log) + 1}
  BY <1>1, <1>2, <1>8
<1>10. ServerOK'
  <2>1. ~Running'
    BY <1>6, <1>7 DEF Running
  <2>2. Len(log) \in Nat /\ Len(turns) \in Nat
    BY <1>1, <1>2
  <2>3. Len(log') <= Len(turns')
    BY <1>2, <1>7, <1>9, <2>2
  <2>4. QED
    BY <1>2, <1>7, <1>9, <2>1, <2>3 DEF ServerOK, Grown
<1>11. QED
  BY <1>1, <1>2, <1>7, <1>10, QuietStep

\* The turn lets go of the chat.
LEMMA ReleasesType ==
  ASSUME TypeInv, TurnReleases
  PROVE  TypeInv'
<1> DEFINE t == Last(turns)
           r == LetGo(t)
<1>1. /\ turns # <<>> /\ t \in TurnRecs /\ t = turns[Len(turns)] /\ turns \in Seq(TurnRecs)
      /\ Len(turns) \in 1..Len(turns) /\ Len(t.events) \in Nat
      /\ UNCHANGED <<log, page, cursor, calls, faults, asked, heard>>
  BY LastIs, NowIs DEF Claimed, TurnReleases
<1>2. turns' = [turns EXCEPT ![Len(turns)] = r]
  <2>1. turns' = [turns EXCEPT ![Len(turns)].claimed = FALSE]
    BY DEF TurnReleases
  <2>2. QED
    BY <1>1, <2>1 DEF LetGo
<1>3. r \in TurnRecs /\ r.events = t.events /\ ~r.claimed
  BY <1>1, ToldIs
<1> HIDE DEF r
<1>4. Grown(turns, turns') /\ ServerOK'
  <2>1. Len(Last(turns).events) <= Len(r.events) /\ log' = log
    BY <1>1, <1>3
  <2>2. r.claimed /\ ~r.ended => Running
    BY <1>3
  <2> HIDE DEF t
  <2>3. QED
    BY <1>1, <1>2, <1>3, <2>1, <2>2, LastStep
<1>5. CountsOK'
  BY <1>1, CountsStay
<1>6. QED
  BY <1>1, <1>4, <1>5, QuietStep

\* So do another tab's,
LEMMA OtherTabType ==
  ASSUME TypeInv, OtherTab
  PROVE  TypeInv'
<1>1. Grown(turns, turns') /\ ServerOK'
  BY BegunStep DEF OtherTab, MaybeMsg
<1>2. CountsOK' /\ UNCHANGED <<page, cursor, calls>>
  BY CountsStay DEF OtherTab
<1>3. QED
  BY <1>1, <1>2, QuietStep

\* and the network's.
LEMMA LoseType ==
  ASSUME TypeInv, NEW c \in Callers, Lose(c)
  PROVE  TypeInv'
<1>1. /\ UNCHANGED <<log, turns, asked, heard>> /\ faults' = faults + 1
      /\ Grown(turns, turns') /\ ServerOK' /\ turns \in Seq(TurnRecs)
  BY SameServer, NowIs DEF Lose
<1>2. CountsOK'
  BY <1>1 DEF TypeInv, CountsOK
<1>3. CASE calls' = [calls EXCEPT ![c].net = "lost"] /\ UNCHANGED <<page, cursor>>
  <2> DEFINE k == [calls[c] EXCEPT !.net = "lost"]
  <2>1. /\ k \in Calls /\ k.pc = calls[c].pc /\ k.aborted = calls[c].aborted
        /\ CallOK(k, turns')
        /\ calls' = [calls EXCEPT ![c] = k]
    BY <1>1, <1>3, NetIs DEF Nets
  <2> HIDE DEF k
  <2>2. QED
    BY <1>1, <1>2, <1>3, <2>1, AnswerStep
<1>4. CASE calls[c].pc = "stream" /\ Set(Broken(Now, c))
  <2>1. Ready(Now, turns) /\ Now.calls = calls
    BY <1>4, BusyReady, NowIs
  <2>2. Ready(Broken(Now, c), turns)
    BY <1>1, <1>4, <2>1, BrokenReady
  <2>3. Ready(Broken(Now, c), turns')
    BY <1>1, <2>2
  <2> DEFINE u == Broken(Now, c)
  <2> HIDE DEF u
  <2>4. Ready(u, turns') /\ Set(u)
    BY <1>4, <2>3 DEF u
  <2>5. QED
    BY <1>1, <1>2, <2>4, SetReady
<1>5. QED
  BY <1>3, <1>4 DEF Lose

\* The invariant holds at first
LEMMA InitType ==
  ASSUME Init
  PROVE  TypeInv
<1>1. page \in Pages /\ calls \in [Callers -> Calls] /\ cursor \in Nat
  BY FreshType, IdleType DEF Init
<1>2. Now \in States /\ Now.page = page /\ Now.cursor = cursor /\ Now.calls = calls
  BY <1>1 DEF Now, States
<1>3. \A c \in Callers : calls[c] = Idle /\ calls[c].pc = "idle"
  BY DEF Init, Idle
<1>4. page.live = None /\ page.queue = <<>> /\ page.pending = None /\ turns = <<>> /\ log = <<>>
      /\ page.seen = {} /\ cursor = 0
  BY DEF Init, Fresh
<1>5. <<>> \in Seq(TurnRecs) /\ <<>> \in Seq(Records)
  OBVIOUS
<1>6. \A c \in Callers : CallOK(calls[c], turns)
  BY <1>3, <1>4, <1>5, IdleOK
<1>7. OneReader(Now) /\ LiveOK(Now) /\ Blank(Now)
  BY <1>2, <1>3, <1>4 DEF OneReader, LiveOK, Blank, Alive
<1>8. ClientOK(Now, turns)
  BY <1>2, <1>4, <1>6, <1>7 DEF ClientOK, Range
<1>9. ServerOK
  BY <1>4, <1>5, ClientAssumption DEF ServerOK, Running, Claimed
<1>10. CountsOK
  BY DEF Init, CountsOK
<1>11. QED
  BY <1>7, <1>8, <1>9, <1>10 DEF TypeInv

\* and in every step.
LEMMA StepType ==
  ASSUME TypeInv, [Next]_vars
  PROVE  TypeInv'
<1>1. CASE Student
  BY <1>1, SubmitType, RegenerateType, RetryType, StopType, ReloadType DEF Student
<1>2. CASE Client
  BY <1>2, SteerReturnsType, AwaitType, CancelType, PostReturnsType, ConflictRetryType,
     ConsumeType, AbortedType, AttachType, StopReturnsType, AutoForwardType, HydrateType
     DEF Client
<1>3. CASE Server
  BY <1>3, PostType, SteerType, ServeCancelType, ServeAttachType, ReadType, InjectType,
     EndsType, ReleasesType DEF Server
<1>4. CASE OtherTab \/ \E c \in Callers : Lose(c)
  BY <1>4, OtherTabType, LoseType
<1>5. CASE UNCHANGED vars
  <2>1. UNCHANGED <<log, turns, page, cursor, calls, faults, asked, heard>>
    BY <1>5 DEF vars
  <2>2. Grown(turns, turns') /\ ServerOK' /\ CountsOK'
    BY <2>1, SameServer, CountsStay
  <2>3. QED
    BY <2>1, <2>2, QuietStep
<1>6. QED
  BY <1>1, <1>2, <1>3, <1>4, <1>5 DEF Next

\* Whatever the student does and however the server and the network take it,
\* the page's state keeps its types: the engine never consumes a stream of a
\* turn that is not there or beyond its end, who is live is a call that reads
\* or is about to, and what is forwarded has been noted as seen.
THEOREM ChatTypes == Spec => []TypeOK
<1>1. Init => TypeInv
  BY InitType
<1>2. TypeInv /\ [Next]_vars => TypeInv'
  BY StepType
<1>3. TypeInv => TypeOK
  <2> SUFFICES ASSUME TypeInv PROVE TypeOK
    OBVIOUS
  <2>1. /\ page \in Pages /\ turns \in Seq(TurnRecs)
        /\ \A c \in Callers : calls[c] \in Calls /\ CallOK(calls[c], turns)
        /\ page.live # None => page.live \in Callers /\ calls[page.live].pc \in {"post", "stream"}
        /\ Now.page = page /\ Now.cursor = cursor
    BY NowIs
  <2>2. Range(page.list) \subseteq Bubbles
    BY <2>1 DEF Pages, Range
  <2>3. Range(page.queue) \subseteq page.seen /\ page.seen \subseteq Msgs
        /\ page.composer \in Msgs \cup {None} /\ page.last \in Ids \cup {None}
    BY <2>1 DEF TypeInv, ClientOK, Pages, MaybeMsg, MaybeId
  <2>4. ASSUME NEW c \in Callers
        PROVE  /\ calls[c].pc \in {"idle", "steer", "clear", "cancel", "stopped", "post",
                                   "stream", "recancel", "stop", "open", "over"}
               /\ calls[c].turn \in 0..Len(turns)
               /\ calls[c].pc = "stream" =>
                    calls[c].pos <= Len(turns[calls[c].turn].events)
    BY <2>1, ClientAssumption DEF Calls, Pcs, CallOK
  <2>5. Len(turns) <= MaxTurns /\ Len(log) <= Len(turns) /\ (cursor > 0 => turns # <<>>)
    BY <2>1 DEF TypeInv, ServerOK, ClientOK
  <2>6. QED
    BY <2>1, <2>2, <2>3, <2>4, <2>5 DEF TypeOK
<1>4. QED
  BY <1>1, <1>2, <1>3, PTL DEF Spec

\* Two answers never write the list at the same time: a call that is about to
\* read a stream has aborted every other that does.
THEOREM OneReaderOnly == Spec => []OneConsumer
<1>1. Init => TypeInv
  BY InitType
<1>2. TypeInv /\ [Next]_vars => TypeInv'
  BY StepType
<1>3. TypeInv => OneConsumer
  <2> SUFFICES ASSUME TypeInv, NEW c \in Callers, NEW d \in Callers,
                      {calls[c].pc, calls[d].pc} \subseteq {"post", "stream"},
                      ~calls[c].aborted, ~calls[d].aborted
               PROVE  c = d
    BY DEF OneConsumer
  <2>1. OneReader(Now) /\ Now.calls = calls
    BY NowIs DEF TypeInv, ClientOK
  <2>2. QED
    BY <2>1 DEF OneReader, Alive
<1>4. QED
  BY <1>1, <1>2, <1>3, PTL DEF Spec
-----------------------------------------------------------------------------
(* What the agent hears of a message.                                      *)

\* The call still carries its message: no turn and no steer has it yet.
Carries(k) ==
  \/ k.pc \in {"clear", "cancel", "stopped", "recancel"}
  \/ k.pc = "steer" /\ k.net \in {"sent", "idle"}
  \/ k.pc = "post" /\ k.net \in {"sent", "conflict"}

\* The calls that carry m.
Carriers(s, m) == {c \in Callers : Carries(s.calls[c]) /\ s.calls[c].msg = m}

\* Turn k is read by a call that counts,
ReadBy(s, k) == \E c \in Callers : Alive(s.calls[c]) /\ s.calls[c].turn = k

\* or runs: what it was steered with may yet be forwarded or taken in.
Open(s, ts, k) == ts[k].claimed \/ ReadBy(s, k)

\* The steers of m in turns that are open.
OpenSteers(s, ts, m) ==
  {p \in (1..Len(ts)) \X Nat : /\ p[2] \in DOMAIN ts[p[1]].steers
                               /\ ts[p[1]].steers[p[2]] = m /\ Open(s, ts, p[1])}

\* m in the forward queue.
Queued(s, m) == IF m \in Range(s.page.queue) THEN 1 ELSE 0

\* How often the agent may yet hear m.
Owed(s, ts, m) ==
  Cardinality(Carriers(s, m)) + Queued(s, m) + Cardinality(OpenSteers(s, ts, m))

\* The event of message m, taken in by the turn (b) or not.
IsUser(e, m, b) == e.type = "user_message" /\ e.msg = m /\ e.injected = b

\* The events before pos show m and not yet that the turn took it in.
Waits(evs, pos, m) ==
  \E n \in 1..pos : IsUser(evs[n], m, FALSE) /\ \A j \in n..pos : ~IsUser(evs[j], m, TRUE)

\* A message has one entry.
OnePerMsg(list) == \A i, j \in DOMAIN list : list[i].msg = list[j].msg => i = j

\* A segment that is not injected waits, by the events the call has read.
SegOK(k, ts) ==
  /\ k.pc # "stream" => k.segs = <<>>
  /\ OnePerMsg(k.segs)
  /\ \A i \in DOMAIN k.segs :
       ~k.segs[i].injected => Waits(ts[k.turn].events, k.pos, k.segs[i].msg)

\* So it is for every call.
SegsInv(s, ts) == \A c \in Callers : SegOK(s.calls[c], ts)

\* A steer that the events show is one of the turn's, or was taken in later.
Heeded(t) ==
  \A i \in DOMAIN t.events : \A m \in Msgs :
    IsUser(t.events[i], m, FALSE) =>
       m \in Range(t.steers) \/ \E j \in i..Len(t.events) : IsUser(t.events[j], m, TRUE)

\* Only the last turn is claimed, and the turns' steers are heeded.
TurnsInv(ts) ==
  \A k \in 1..Len(ts) : (ts[k].claimed => k = Len(ts)) /\ Heeded(ts[k])

\* The queue holds a message once.
QueueOnce(q) == \A i, j \in DOMAIN q : q[i] = q[j] => i = j

\* m was heard, or may yet be heard, no more often than it was asked.
Within(s, ts, m) ==
  IsFiniteSet(OpenSteers(s, ts, m)) /\ heard[m] + Owed(s, ts, m) <= asked[m]

\* The inductive invariant: what was heard and what is owed was asked.
HeardInv ==
  /\ SegsInv(Now, turns) /\ TurnsInv(turns) /\ QueueOnce(page.queue)
  /\ \A m \in Msgs : Within(Now, turns, m)
-----------------------------------------------------------------------------
\* The calls are finitely many.
LEMMA CarriersFinite ==
  ASSUME NEW s, NEW m
  PROVE  IsFiniteSet(Carriers(s, m)) /\ Cardinality(Carriers(s, m)) \in Nat
<1>1. IsFiniteSet(Callers)
  BY FS_Interval, ClientAssumption DEF Callers
<1>2. Carriers(s, m) \subseteq Callers
  BY DEF Carriers
<1>3. QED
  BY <1>1, <1>2, FS_Subset, FS_CardinalityType

\* Sets that lose, or that gain one.
LEMMA CardLess ==
  ASSUME NEW S, NEW T, IsFiniteSet(T), S \subseteq T
  PROVE  IsFiniteSet(S) /\ Cardinality(S) \in Nat /\ Cardinality(T) \in Nat
         /\ Cardinality(S) <= Cardinality(T)
BY FS_Subset, FS_CardinalityType

\* A set with one member more.
LEMMA CardMore ==
  ASSUME NEW S, NEW T, NEW x, IsFiniteSet(T), S \subseteq T \cup {x}
  PROVE  IsFiniteSet(S) /\ Cardinality(S) \in Nat /\ Cardinality(T) \in Nat
         /\ Cardinality(S) <= Cardinality(T) + 1
<1>1. /\ IsFiniteSet(T \cup {x})
      /\ Cardinality(T \cup {x}) = IF x \in T THEN Cardinality(T) ELSE Cardinality(T) + 1
  BY FS_AddElement
<1>2. Cardinality(T) \in Nat
  BY FS_CardinalityType
<1>3. IsFiniteSet(S) /\ Cardinality(S) \in Nat /\ Cardinality(S) <= Cardinality(T \cup {x})
  BY <1>1, CardLess
<1>4. QED
  BY <1>1, <1>2, <1>3

\* A set with one member less.
LEMMA CardDrop ==
  ASSUME NEW S, NEW T, NEW x \in T, IsFiniteSet(T), S \subseteq T \ {x}
  PROVE  IsFiniteSet(S) /\ Cardinality(S) \in Nat /\ Cardinality(T) \in Nat
         /\ Cardinality(S) + 1 <= Cardinality(T)
<1>1. IsFiniteSet(T \ {x}) /\ Cardinality(T \ {x}) = Cardinality(T) - 1
  BY FS_RemoveElement
<1>2. Cardinality(T) \in Nat
  BY FS_CardinalityType
<1>3. IsFiniteSet(S) /\ Cardinality(S) \in Nat /\ Cardinality(S) <= Cardinality(T \ {x})
  BY <1>1, CardLess
<1>4. QED
  BY <1>1, <1>2, <1>3

\* What is owed is a number.
LEMMA OwedIs ==
  ASSUME NEW s, NEW ts, NEW m, IsFiniteSet(OpenSteers(s, ts, m))
  PROVE  /\ Queued(s, m) \in {0, 1} /\ Cardinality(Carriers(s, m)) \in Nat
         /\ Cardinality(OpenSteers(s, ts, m)) \in Nat /\ Owed(s, ts, m) \in Nat
         /\ IsFiniteSet(Carriers(s, m))
BY CarriersFinite, FS_CardinalityType DEF Owed, Queued

\* Nothing is owed that was not.
LEMMA OwedLess ==
  ASSUME NEW s, NEW u, NEW ts, NEW us, NEW m, IsFiniteSet(OpenSteers(s, ts, m)),
         Carriers(u, m) \subseteq Carriers(s, m), Queued(u, m) <= Queued(s, m),
         OpenSteers(u, us, m) \subseteq OpenSteers(s, ts, m)
  PROVE  /\ IsFiniteSet(OpenSteers(u, us, m)) /\ Owed(u, us, m) \in Nat
         /\ Owed(s, ts, m) \in Nat /\ Owed(u, us, m) <= Owed(s, ts, m)
<1>1. IsFiniteSet(Carriers(s, m))
  BY CarriersFinite
<1>2. Cardinality(Carriers(u, m)) \in Nat /\ Cardinality(Carriers(s, m)) \in Nat
      /\ Cardinality(Carriers(u, m)) <= Cardinality(Carriers(s, m))
  BY <1>1, CardLess
<1>3. /\ IsFiniteSet(OpenSteers(u, us, m))
      /\ Cardinality(OpenSteers(u, us, m)) \in Nat /\ Cardinality(OpenSteers(s, ts, m)) \in Nat
      /\ Cardinality(OpenSteers(u, us, m)) <= Cardinality(OpenSteers(s, ts, m))
  BY CardLess
<1>4. Queued(u, m) \in {0, 1} /\ Queued(s, m) \in {0, 1}
  BY DEF Queued
<1>5. QED
  BY <1>2, <1>3, <1>4 DEF Owed

\* One call more owes it.
LEMMA OwedMore ==
  ASSUME NEW s, NEW u, NEW ts, NEW us, NEW m, NEW c, IsFiniteSet(OpenSteers(s, ts, m)),
         Carriers(u, m) \subseteq Carriers(s, m) \cup {c}, Queued(u, m) \in {0, 1},
         OpenSteers(u, us, m) \subseteq OpenSteers(s, ts, m)
  PROVE  /\ IsFiniteSet(OpenSteers(u, us, m)) /\ Owed(u, us, m) \in Nat
         /\ Owed(s, ts, m) \in Nat
         /\ Owed(u, us, m) + Queued(s, m) <= Owed(s, ts, m) + 1 + Queued(u, m)
<1>1. IsFiniteSet(Carriers(s, m))
  BY CarriersFinite
<1>2. Cardinality(Carriers(u, m)) \in Nat /\ Cardinality(Carriers(s, m)) \in Nat
      /\ Cardinality(Carriers(u, m)) <= Cardinality(Carriers(s, m)) + 1
  BY <1>1, CardMore
<1>3. /\ IsFiniteSet(OpenSteers(u, us, m))
      /\ Cardinality(OpenSteers(u, us, m)) \in Nat /\ Cardinality(OpenSteers(s, ts, m)) \in Nat
      /\ Cardinality(OpenSteers(u, us, m)) <= Cardinality(OpenSteers(s, ts, m))
  BY CardLess
<1>4. Queued(u, m) \in {0, 1} /\ Queued(s, m) \in {0, 1}
  BY DEF Queued
<1>5. QED
  BY <1>2, <1>3, <1>4 DEF Owed
-----------------------------------------------------------------------------
(* Steps of the engine.                                                    *)

\* The call goes on and owes no more than it did.
Onward(k, l) ==
  /\ Carries(l) => Carries(k) /\ k.msg = l.msg
  /\ Alive(l) /\ l.turn # 0 => Alive(k) /\ k.turn = l.turn
  /\ l.segs # <<>> => l.segs = k.segs /\ l.pc = k.pc /\ l.turn = k.turn /\ l.pos = k.pos

\* The call takes a message on.
Takes(l, m) ==
  (Carries(l) => l.msg = m) /\ (Alive(l) => l.turn = 0) /\ l.segs = <<>>

\* Every call goes on, and the queue stays or is emptied.
Lighter(s, u) ==
  /\ u.page.queue \in {s.page.queue, <<>>}
  /\ \A c \in Callers : Onward(s.calls[c], u.calls[c])

\* The same, but c takes m on.
Gains(s, u, c, m) ==
  /\ u.page.queue \in {s.page.queue, <<>>}
  /\ \A d \in Callers \ {c} : Onward(s.calls[d], u.calls[d])
  /\ Takes(u.calls[c], m)

\* Going on, twice.
LEMMA OnwardOnward ==
  ASSUME NEW j, NEW k, NEW l, Onward(j, k), Onward(k, l)
  PROVE  Onward(j, l)
BY DEF Onward

\* Two such steps,
LEMMA LighterLighter ==
  ASSUME NEW s, NEW t, NEW u, Lighter(s, t), Lighter(t, u)
  PROVE  Lighter(s, u)
BY OnwardOnward DEF Lighter

\* and one that is followed by a gain.
LEMMA LighterGains ==
  ASSUME NEW s, NEW t, NEW u, NEW c \in Callers, NEW m, Lighter(s, t), Gains(t, u, c, m)
  PROVE  Gains(s, u, c, m)
BY OnwardOnward DEF Lighter, Gains

\* A call that takes on what it carries gains nothing.
LEMMA CarriedOn ==
  ASSUME NEW s, NEW u, NEW c \in Callers, NEW m, Gains(s, u, c, m),
         Carries(s.calls[c]), s.calls[c].msg = m
  PROVE  Lighter(s, u)
<1>1. Onward(s.calls[c], u.calls[c])
  BY DEF Gains, Takes, Onward
<1>2. QED
  BY <1>1 DEF Gains, Lighter

\* A step that leaves the calls and the queue.
LEMMA SameLighter ==
  ASSUME NEW s, NEW u, u.calls = s.calls, u.page.queue = s.page.queue
  PROVE  Lighter(s, u)
BY DEF Lighter, Onward

\* A call that is over, or that carries nothing.
LEMMA OverOnward ==
  ASSUME NEW k
  PROVE  Onward(k, Over) /\ Onward(k, Idle) /\ \A pc \in {"stop", "open"} : Onward(k, Asking(pc))
<1>1. \A pc \in {"stop", "open"} : Asking(pc).pc = pc /\ Asking(pc).net = "sent"
         /\ Asking(pc).turn = 0 /\ Asking(pc).segs = <<>>
  BY DEF Asking, Idle
<1>2. Over.pc = "over" /\ Over.segs = <<>> /\ Idle.pc = "idle" /\ Idle.segs = <<>>
  BY DEF Over, Idle
<1>3. QED
  BY <1>1, <1>2 DEF Onward, Carries, Alive

\* abort,
LEMMA AbortLighter ==
  ASSUME NEW s \in States, NEW but
  PROVE  Lighter(s, abort(s, but)) /\ abort(s, but) \in States
<1> DEFINE u == abort(s, but)
<1>1. /\ u \in States /\ u.page = s.page /\ u.cursor = s.cursor
      /\ \A x \in Callers :
              u.calls[x] = IF x # but /\ s.calls[x].pc \in {"post", "stream", "open"}
                           THEN [s.calls[x] EXCEPT !.aborted = TRUE] ELSE s.calls[x]
  BY AbortFields
<1> HIDE DEF u
<1>2. ASSUME NEW k \in Calls PROVE Onward(k, k) /\ Onward(k, [k EXCEPT !.aborted = TRUE])
  BY DEF Onward, Carries, Alive, Calls
<1>3. \A x \in Callers : s.calls[x] \in Calls
  BY DEF States
<1>4. \A x \in Callers : Onward(s.calls[x], u.calls[x])
  BY <1>1, <1>2, <1>3
<1>5. Lighter(s, u)
  BY <1>1, <1>4 DEF Lighter
<1>6. QED
  BY <1>1, <1>5 DEF u

\* runTurn: its call POSTs its message,
LEMMA RunTurnGains ==
  ASSUME NEW s \in States, NEW c \in Callers, NEW user \in MaybeId, NEW again \in BOOLEAN
  PROVE  Gains(s, runTurn(s, c, user, again), c, s.calls[c].msg)
<1> DEFINE u == runTurn(s, c, user, again)
           p == Posted(s.calls[c], c, user, again)
<1>1. Started(s, u, c, user, again)
  BY RunTurnFields
<1>2. p.pc = "post" /\ p.net = "sent" /\ p.msg = s.calls[c].msg /\ p.turn = 0 /\ p.segs = <<>>
  <2>1. s.calls[c] \in Calls
    BY DEF States
  <2>2. QED
    BY <2>1, PostedType
<1> HIDE DEF u, p
<1>3. u.page.queue = s.page.queue /\ u.calls[c] = p
  BY <1>1 DEF Started, States, Pages, p
<1>4. Takes(u.calls[c], s.calls[c].msg)
  BY <1>2, <1>3 DEF Takes
<1>5. \A x \in Callers \ {c} : Onward(s.calls[x], u.calls[x])
  BY <1>1, AbortLighter DEF Started, Lighter
<1>6. Gains(s, u, c, s.calls[c].msg)
  BY <1>3, <1>4, <1>5 DEF Gains
<1>7. QED
  BY <1>6 DEF u

\* and so does startSend's,
LEMMA StartSendGains ==
  ASSUME NEW s \in States, NEW c \in Callers
  PROVE  Gains(s, startSend(s, c), c, s.calls[c].msg)
<1> DEFINE v == Bubbled(s, c)
           user == SendUser(s, c)
<1>1. /\ v \in States /\ v.calls = s.calls
      /\ v.page = [s.page EXCEPT !.list = SendList(s, c), !.last = SendUser(s, c)]
      /\ user \in MaybeId
      /\ startSend(s, c) = runTurn(v, c, user, FALSE)
  BY BubbledFields DEF MaybeId
<1> HIDE DEF v, user
<1>2. v.page.queue = s.page.queue
  BY <1>1 DEF States, Pages
<1>3. Lighter(s, v)
  BY <1>1, <1>2, SameLighter
<1>4. Gains(v, runTurn(v, c, user, FALSE), c, v.calls[c].msg)
  BY <1>1, RunTurnGains
<1>5. QED
  BY <1>1, <1>3, <1>4, LighterGains

\* which gains nothing where the call carried the message.
LEMMA StartSendLighter ==
  ASSUME NEW s \in States, NEW c \in Callers, Carries(s.calls[c])
  PROVE  Lighter(s, startSend(s, c))
BY StartSendGains, CarriedOn

\* A step of one call that goes on.
LEMMA OneCallLighter ==
  ASSUME NEW s \in States, NEW c \in Callers, NEW k, Onward(s.calls[c], k)
  PROVE  Lighter(s, [s EXCEPT !.calls[c] = k])
<1>1. LET t == [s EXCEPT !.calls[c] = k] IN
      /\ t.page = s.page /\ t.calls[c] = k
      /\ \A x \in Callers \ {c} : t.calls[x] = s.calls[x]
  BY DEF States
<1> DEFINE t == [s EXCEPT !.calls[c] = k]
<1> HIDE DEF t
<1>2. t.page = s.page /\ t.calls[c] = k /\ \A x \in Callers \ {c} : t.calls[x] = s.calls[x]
  BY <1>1 DEF t
<1>3. \A j : Onward(j, j)
  BY DEF Onward
<1>4. Lighter(s, t)
  BY <1>2, <1>3 DEF Lighter
<1>5. QED
  BY <1>4 DEF t

\* The end of a call,
LEMMA OverLighter ==
  ASSUME NEW s, NEW u, NEW c \in Callers, s \in States, u.calls = [s.calls EXCEPT ![c] = Over],
         u.page.queue = s.page.queue
  PROVE  Lighter(s, u)
<1>1. u.calls[c] = Over /\ \A x \in Callers \ {c} : u.calls[x] = s.calls[x]
  BY DEF States
<1>2. \A j : Onward(j, j) /\ Onward(j, Over)
  BY OverOnward DEF Onward
<1>3. QED
  BY <1>1, <1>2 DEF Lighter

\* with an error,
LEMMA FailLighter ==
  ASSUME NEW s \in States, NEW c \in Callers, s.calls[c].msg \in Msgs, NEW bubble \in MaybeId
  PROVE  Lighter(s, Fail(s, c, bubble))
<1> DEFINE u == Fail(s, c, bubble)
<1>1. Failed(s, u, c, bubble)
  BY FailFields
<1> HIDE DEF u
<1>2. u.calls = [s.calls EXCEPT ![c] = Over] /\ u.page.queue = s.page.queue
  BY <1>1 DEF Failed, FailPage, States, Pages
<1>3. Lighter(s, u)
  BY <1>2, OverLighter
<1>4. QED
  BY <1>3 DEF u

\* or without.
LEMMA EndedLighter ==
  ASSUME NEW s \in States, NEW c \in Callers, NEW list \in Seq(Bubbles)
  PROVE  Lighter(s, Ended(s, c, list, s.page.queue, s.page.seen))
         /\ Ended(s, c, list, s.page.queue, s.page.seen) \in States
<1> DEFINE u == Ended(s, c, list, s.page.queue, s.page.seen)
<1>1. s.page.queue \in Seq(Msgs) /\ s.page.seen \in SUBSET Msgs
  BY DEF States, Pages
<1>2. IsEnded(s, u, c, list, s.page.queue, s.page.seen)
  BY <1>1, EndedFields
<1> HIDE DEF u
<1>3. u \in States /\ u.calls = [s.calls EXCEPT ![c] = Over] /\ u.page.queue = s.page.queue
  BY <1>2 DEF IsEnded, EndedPage, States, Pages
<1>4. Lighter(s, u)
  BY <1>3, OverLighter
<1>5. QED
  BY <1>3, <1>4 DEF u

\* invalidateSession,
LEMMA InvalidateLighter ==
  ASSUME NEW s \in States
  PROVE  Lighter(s, invalidateSession(s))
<1> DEFINE u == invalidateSession(s)
<1>1. u.calls = s.calls /\ u.page = [s.page EXCEPT !.read = [st |-> "sent", log |-> <<>>]]
  BY InvalidateFields
<1> HIDE DEF u
<1>2. u.page.queue = s.page.queue
  BY <1>1 DEF States, Pages
<1>3. Lighter(s, u)
  BY <1>1, <1>2, SameLighter
<1>4. QED
  BY <1>3 DEF u

\* Finally,
LEMMA FinallyLighter ==
  ASSUME NEW s \in States
  PROVE  Lighter(s, Finally(s)) /\ Finally(s) \in States /\ Finally(s).calls = s.calls
<1> DEFINE u == Finally(s)
<1>1. u \in States /\ u.calls = s.calls /\ u.page = [s.page EXCEPT !.live = None]
  BY FinallyFields
<1> HIDE DEF u
<1>2. u.page.queue = s.page.queue
  BY <1>1 DEF States, Pages
<1>3. Lighter(s, u)
  BY <1>1, <1>2, SameLighter
<1>4. QED
  BY <1>1, <1>3 DEF u

\* and Broken.
LEMMA BrokenLighter ==
  ASSUME NEW s \in States, NEW c \in Callers, s.calls[c].answer \in Ids
  PROVE  Lighter(s, Broken(s, c))
<1>1. s.page.list \in Seq(Bubbles) /\ s.page.last \in MaybeId /\ s.calls[c] \in Calls
  BY DEF States, Pages
<1>2. FinalList(s, c, "error") \in Seq(Bubbles)
  BY TerminalIs
<1>3. Lighter(s, Partial(s, c)) /\ Partial(s, c) \in States
  BY <1>2, EndedLighter DEF Partial
<1>4. Lighter(s, invalidateSession(Partial(s, c)))
  BY <1>3, InvalidateLighter, LighterLighter
<1>5. Lighter(s, Dropped(s, c))
  BY <1>1, EndedLighter DEF Dropped
<1>6. CASE s.calls[c].msg # None
  <2> DEFINE f == Finally(s)
  <2>1. Lighter(s, f) /\ f \in States /\ f.calls = s.calls
    BY FinallyLighter
  <2>2. f.calls[c].msg \in Msgs
    BY <1>1, <1>6, <2>1 DEF Calls, MaybeMsg
  <2>3. failedBubble(s, c) \in MaybeId
    BY <1>1 DEF failedBubble, MaybeId
  <2> HIDE DEF f
  <2>4. Lighter(f, Fail(f, c, failedBubble(s, c)))
    BY <2>1, <2>2, <2>3, FailLighter
  <2>5. Lighter(s, Fail(f, c, failedBubble(s, c)))
    BY <2>1, <2>4, LighterLighter
  <2>6. QED
    BY <1>3, <1>4, <1>6, <2>5, BrokenIs DEF f
<1>7. CASE s.calls[c].msg = None
  BY <1>3, <1>4, <1>5, <1>7, BrokenIs
<1>8. QED
  BY <1>6, <1>7

\* submitMessage: the new call takes the message on.
LEMMA SubmitGains ==
  ASSUME NEW s \in States, NEW m \in Msgs, NEW replace \in MaybeId, NEW own \in BOOLEAN,
         Free(s) # {}
  PROVE  Gains(s, submitMessage(s, m, replace, own), Slot(s), m)
<1> DEFINE c == Slot(s)
           k == FreshCall(m, replace, own)
           w == WaitingCall(m, replace, own)
           t == Entered(s, m, replace, own)
<1>1. c \in Callers
  BY SlotFree
<1>2. /\ t \in States /\ t.page = [s.page EXCEPT !.pending = None]
      /\ t.calls = [s.calls EXCEPT ![c] = k]
      /\ submitMessage(s, m, replace, own) =
           IF s.page.live = None THEN startSend(t, c) ELSE [t EXCEPT !.calls[c] = w]
  BY SubmitFields
<1>3. /\ IsFresh(k, m, replace, own, "idle", "none")
      /\ IsFresh(w, m, replace, own, IF replace = None THEN "steer" ELSE "cancel", "sent")
  BY FreshCallType
<1> HIDE DEF c, k, w, t
<1>4. k.pc = "idle" /\ k.segs = <<>> /\ k.msg = m
  BY <1>3 DEF IsFresh
<1>5. Takes(w, m)
  BY <1>3 DEF IsFresh, Takes
<1>6. Onward(s.calls[c], k)
  BY <1>4 DEF Onward, Carries, Alive
<1>7. t.calls[c] = k /\ (\A x \in Callers \ {c} : t.calls[x] = s.calls[x])
      /\ t.page.queue = s.page.queue
  BY <1>1, <1>2 DEF States, Pages
<1>8. \A j : Onward(j, j)
  BY DEF Onward
<1>9. Lighter(s, t)
  BY <1>6, <1>7, <1>8 DEF Lighter
<1>10. Gains(s, startSend(t, c), c, m)
  <2>1. Gains(t, startSend(t, c), c, m)
    BY <1>1, <1>2, <1>4, <1>7, StartSendGains
  <2>2. QED
    BY <1>1, <1>9, <2>1, LighterGains
<1> DEFINE z == [t EXCEPT !.calls[c] = w]
<1>11. z.page = t.page /\ z.calls[c] = w /\ \A x \in Callers \ {c} : z.calls[x] = t.calls[x]
  BY <1>1, <1>2 DEF States
<1> HIDE DEF z
<1>12. Gains(s, z, c, m)
  BY <1>5, <1>7, <1>8, <1>11 DEF Gains
<1>13. QED
  BY <1>2, <1>10, <1>12 DEF z, c
-----------------------------------------------------------------------------
(* What the steps of the page leave.                                       *)

\* Calls that go on keep their segments as they should be,
LEMMA SegsOn ==
  ASSUME NEW s, NEW u, NEW ts, SegsInv(s, ts), NEW C \in SUBSET Callers,
         \A c \in C : Onward(s.calls[c], u.calls[c]),
         \A c \in Callers \ C : u.calls[c].segs = <<>>
  PROVE  SegsInv(u, ts)
<1> SUFFICES ASSUME NEW c \in Callers PROVE SegOK(u.calls[c], ts)
  BY DEF SegsInv
<1>1. CASE u.calls[c].segs = <<>>
  BY <1>1 DEF SegOK, OnePerMsg
<1>2. CASE u.calls[c].segs # <<>>
  BY <1>2 DEF SegOK, SegsInv, Onward
<1>3. QED
  BY <1>1, <1>2

\* open no turn,
LEMMA OpenOn ==
  ASSUME NEW s, NEW u, NEW ts \in Seq(TurnRecs), NEW m, NEW C \in SUBSET Callers,
         \A c \in C : Onward(s.calls[c], u.calls[c]),
         \A c \in Callers \ C : Alive(u.calls[c]) => u.calls[c].turn = 0
  PROVE  OpenSteers(u, ts, m) \subseteq OpenSteers(s, ts, m)
<1>1. ASSUME NEW k \in 1..Len(ts), Open(u, ts, k) PROVE Open(s, ts, k)
  <2>1. k # 0
    OBVIOUS
  <2>2. QED
    BY <1>1, <2>1 DEF Open, ReadBy, Onward
<1>2. QED
  BY <1>1 DEF OpenSteers

\* and queue nothing.
LEMMA QueuedOn ==
  ASSUME NEW s, NEW u, NEW m, u.page.queue \in {s.page.queue, <<>>}
  PROVE  Queued(u, m) <= Queued(s, m)
<1>1. Range(<<>>) = {}
  BY DEF Range
<1>2. Queued(s, m) \in {0, 1} /\ (u.page.queue = <<>> => Queued(u, m) = 0)
  BY <1>1 DEF Queued
<1>3. u.page.queue = s.page.queue => Queued(u, m) = Queued(s, m)
  BY DEF Queued
<1>4. QED
  BY <1>2, <1>3

\* So a lighter page owes no more,
LEMMA LighterOwes ==
  ASSUME NEW s, NEW u, NEW ts \in Seq(TurnRecs), NEW m, Lighter(s, u),
         IsFiniteSet(OpenSteers(s, ts, m))
  PROVE  /\ IsFiniteSet(OpenSteers(u, ts, m)) /\ Owed(u, ts, m) \in Nat
         /\ Owed(s, ts, m) \in Nat /\ Owed(u, ts, m) <= Owed(s, ts, m)
<1>1. Queued(u, m) <= Queued(s, m)
  BY QueuedOn DEF Lighter
<1>2. OpenSteers(u, ts, m) \subseteq OpenSteers(s, ts, m)
  BY OpenOn DEF Lighter
<1>3. Carriers(u, m) \subseteq Carriers(s, m)
  BY DEF Lighter, Carriers, Onward
<1>4. QED
  BY <1>1, <1>2, <1>3, OwedLess

\* and a gain is one message more.
LEMMA GainsOwes ==
  ASSUME NEW s, NEW u, NEW ts \in Seq(TurnRecs), NEW c \in Callers, NEW m, Gains(s, u, c, m),
         NEW n, IsFiniteSet(OpenSteers(s, ts, n))
  PROVE  /\ IsFiniteSet(OpenSteers(u, ts, n)) /\ Owed(u, ts, n) \in Nat
         /\ Owed(s, ts, n) \in Nat
         /\ Owed(u, ts, n) <= IF n = m THEN Owed(s, ts, n) + 1 ELSE Owed(s, ts, n)
<1>1. Queued(u, n) <= Queued(s, n) /\ Queued(u, n) \in {0, 1} /\ Queued(s, n) \in {0, 1}
  <2>1. Queued(u, n) <= Queued(s, n)
    BY QueuedOn DEF Gains
  <2>2. QED
    BY <2>1 DEF Queued
<1>2. OpenSteers(u, ts, n) \subseteq OpenSteers(s, ts, n)
  <2>1. (Callers \ {c}) \in SUBSET Callers /\ \A d \in Callers \ (Callers \ {c}) : d = c
    OBVIOUS
  <2>2. \A d \in Callers \ {c} : Onward(s.calls[d], u.calls[d])
    BY DEF Gains
  <2>3. \A d \in Callers \ (Callers \ {c}) : Alive(u.calls[d]) => u.calls[d].turn = 0
    BY DEF Gains, Takes
  <2>4. QED
    BY <2>1, <2>2, <2>3, OpenOn
<1>3. CASE n = m
  <2>1. Carriers(u, n) \subseteq Carriers(s, n) \cup {c}
    BY DEF Gains, Carriers, Onward
  <2>2. /\ IsFiniteSet(OpenSteers(u, ts, n)) /\ Owed(u, ts, n) \in Nat
        /\ Owed(s, ts, n) \in Nat
        /\ Owed(u, ts, n) + Queued(s, n) <= Owed(s, ts, n) + 1 + Queued(u, n)
    BY <1>1, <1>2, <2>1, OwedMore
  <2>3. QED
    BY <1>1, <1>3, <2>2
<1>4. CASE n # m
  <2>1. Carriers(u, n) \subseteq Carriers(s, n)
    BY <1>4 DEF Gains, Carriers, Onward, Takes
  <2>2. QED
    BY <1>1, <1>2, <1>4, <2>1, OwedLess
<1>5. QED
  BY <1>3, <1>4

\* What the invariants say.
LEMMA HeardIs ==
  ASSUME TypeInv, HeardInv
  PROVE  /\ Now \in States /\ Now.page = page /\ Now.calls = calls /\ turns \in Seq(TurnRecs)
         /\ heard \in [Msgs -> Nat] /\ asked \in [Msgs -> Nat]
         /\ SegsInv(Now, turns) /\ TurnsInv(turns) /\ QueueOnce(page.queue)
         /\ \A m \in Msgs : Within(Now, turns, m)
BY NowIs DEF HeardInv, TypeInv, CountsOK

\* The queue stays or is emptied.
LEMMA QueueStays ==
  ASSUME NEW q, NEW r \in {q, <<>>}, QueueOnce(q)
  PROVE  QueueOnce(r)
BY DEF QueueOnce

\* A step of the page after which it owes nothing that it did not.
LEMMA LighterStep ==
  ASSUME TypeInv, HeardInv, NEW u \in States, Lighter(Now, u), Set(u),
         UNCHANGED <<log, turns, faults, asked, heard>>
  PROVE  HeardInv'
<1>1. /\ Now \in States /\ Now.page = page /\ Now.calls = calls /\ turns \in Seq(TurnRecs)
      /\ heard \in [Msgs -> Nat] /\ asked \in [Msgs -> Nat]
      /\ SegsInv(Now, turns) /\ TurnsInv(turns) /\ QueueOnce(page.queue)
      /\ \A m \in Msgs : Within(Now, turns, m)
  BY HeardIs
<1>2. Now' = u /\ page' = u.page
  BY SetIs DEF Set
<1>3. SegsInv(u, turns)
  <2>1. \A c \in Callers : Onward(Now.calls[c], u.calls[c])
    BY DEF Lighter
  <2>2. QED
    BY <1>1, <2>1, SegsOn
<1>4. QueueOnce(u.page.queue)
  BY <1>1, QueueStays DEF Lighter
<1>5. ASSUME NEW m \in Msgs
      PROVE  IsFiniteSet(OpenSteers(u, turns, m)) /\ heard[m] + Owed(u, turns, m) <= asked[m]
  <2>1. IsFiniteSet(OpenSteers(Now, turns, m)) /\ heard[m] + Owed(Now, turns, m) <= asked[m]
    BY <1>1 DEF Within
  <2>2. /\ IsFiniteSet(OpenSteers(u, turns, m)) /\ Owed(u, turns, m) \in Nat
        /\ Owed(Now, turns, m) \in Nat /\ Owed(u, turns, m) <= Owed(Now, turns, m)
    BY <1>1, <2>1, LighterOwes
  <2>3. heard[m] \in Nat /\ asked[m] \in Nat
    BY <1>1
  <2>4. QED
    BY <2>1, <2>2, <2>3
<1>6. \A m \in Msgs : Within(Now, turns, m)'
  BY <1>2, <1>5 DEF Within
<1>7. QED
  BY <1>1, <1>2, <1>3, <1>4, <1>6 DEF HeardInv

\* A step by which the student asks for m, and c takes it on.
LEMMA AskedStep ==
  ASSUME TypeInv, HeardInv, NEW u \in States, NEW c \in Callers, NEW m \in Msgs,
         NEW s \in States, Lighter(Now, s), Gains(s, u, c, m), Set(u),
         asked' = [asked EXCEPT ![m] = @ + 1], UNCHANGED <<log, turns, faults, heard>>
  PROVE  HeardInv'
<1>1. /\ Now \in States /\ Now.page = page /\ Now.calls = calls /\ turns \in Seq(TurnRecs)
      /\ heard \in [Msgs -> Nat] /\ asked \in [Msgs -> Nat]
      /\ SegsInv(Now, turns) /\ TurnsInv(turns) /\ QueueOnce(page.queue)
      /\ \A n \in Msgs : Within(Now, turns, n)
  BY HeardIs
<1>2. Now' = u /\ page' = u.page
  BY SetIs DEF Set
<1>0. Gains(Now, u, c, m)
  BY LighterGains
<1>3. SegsInv(u, turns)
  <2>1. (Callers \ {c}) \in SUBSET Callers /\ \A d \in Callers \ (Callers \ {c}) : d = c
    OBVIOUS
  <2>2. \A d \in Callers \ {c} : Onward(Now.calls[d], u.calls[d])
    BY <1>0 DEF Gains
  <2>3. \A d \in Callers \ (Callers \ {c}) : u.calls[d].segs = <<>>
    BY <1>0 DEF Gains, Takes
  <2>4. QED
    BY <1>1, <2>1, <2>2, <2>3, SegsOn
<1>4. QueueOnce(u.page.queue)
  BY <1>0, <1>1, QueueStays DEF Gains
<1>5. ASSUME NEW n \in Msgs
      PROVE  IsFiniteSet(OpenSteers(u, turns, n)) /\ heard[n] + Owed(u, turns, n) <= asked'[n]
  <2>1. IsFiniteSet(OpenSteers(Now, turns, n)) /\ heard[n] + Owed(Now, turns, n) <= asked[n]
    BY <1>1 DEF Within
  <2>2. /\ IsFiniteSet(OpenSteers(u, turns, n)) /\ Owed(u, turns, n) \in Nat
        /\ Owed(Now, turns, n) \in Nat
        /\ Owed(u, turns, n) <= IF n = m THEN Owed(Now, turns, n) + 1 ELSE Owed(Now, turns, n)
    BY <1>0, <1>1, <2>1, GainsOwes
  <2>3. heard[n] \in Nat /\ asked[n] \in Nat /\ asked'[n] = IF n = m THEN asked[n] + 1 ELSE asked[n]
    BY <1>1
  <2>4. QED
    BY <2>1, <2>2, <2>3
<1>6. \A n \in Msgs : Within(Now, turns, n)'
  BY <1>2, <1>5 DEF Within
<1>7. QED
  BY <1>1, <1>2, <1>3, <1>4, <1>6 DEF HeardInv
-----------------------------------------------------------------------------
(* The page's actions.                                                     *)

\* A call that asks for something else and carries what it did.
LEMMA PcLighter ==
  ASSUME NEW s \in States, NEW c \in Callers, NEW pc \in {"clear", "stopped"}, Carries(s.calls[c]),
         s.calls[c].segs = <<>>
  PROVE  Lighter(s, [s EXCEPT !.calls[c].pc = pc])
<1> DEFINE k == [s.calls[c] EXCEPT !.pc = pc]
<1>1. [s EXCEPT !.calls[c].pc = pc] = [s EXCEPT !.calls[c] = k] /\ s.calls[c] \in Calls
  BY DEF States, Calls
<1>2. k.pc = pc /\ k.msg = s.calls[c].msg /\ k.segs = <<>>
  BY <1>1 DEF Calls
<1> HIDE DEF k
<1>3. Onward(s.calls[c], k)
  BY <1>2 DEF Onward, Alive
<1>4. Lighter(s, [s EXCEPT !.calls[c] = k])
  BY <1>3, OneCallLighter
<1>5. QED
  BY <1>1, <1>4

\* What is known of a call that is under way.
LEMMA BusyIs ==
  ASSUME TypeInv, HeardInv, NEW c \in Callers, calls[c].pc \notin {"idle", "over"}
  PROVE  /\ Ready(Now, turns) /\ calls[c] \in Calls
         /\ (calls[c].pc # "stream" => calls[c].segs = <<>>)
         /\ Now.page = page /\ Now.calls = calls /\ turns \in Seq(TurnRecs) /\ Now \in States
         /\ (calls[c].pc \in {"steer", "clear", "cancel", "stopped", "post", "recancel"}
              => calls[c].msg \in Msgs)
         /\ (calls[c].pc \in {"post", "stream"} => calls[c].answer \in Ids)
         /\ (calls[c].pc # "stream" /\ calls[c].pc # "post" => page.live # c)
BY BusyReady, HeardIs, CallIs, NowIs, NotLive DEF SegsInv, SegOK, CallOK

\* An answer to a steer: the call posts the message, waits, or is over.
LEMMA SteerReturnsHeard ==
  ASSUME TypeInv, HeardInv, NEW c \in Callers, SteerReturns(c)
  PROVE  HeardInv'
<1>1. /\ Ready(Now, turns) /\ calls[c] \in Calls /\ calls[c].segs = <<>> /\ calls[c].pc = "steer"
      /\ Now.page = page /\ Now.calls = calls /\ turns \in Seq(TurnRecs) /\ Now \in States
      /\ calls[c].msg \in Msgs /\ page.live # c
      /\ UNCHANGED <<log, turns, faults, asked, heard>>
  BY BusyIs DEF SteerReturns
<1>2. CASE Set([Now EXCEPT !.calls[c] = Over])
  <2>1. Ready([Now EXCEPT !.calls[c] = Over], turns)
    BY <1>1, OverReady
  <2>2. Lighter(Now, [Now EXCEPT !.calls[c] = Over])
    BY <1>1, OneCallLighter, OverOnward
  <2> DEFINE u == [Now EXCEPT !.calls[c] = Over]
  <2> HIDE DEF u
  <2>3. u \in States /\ Lighter(Now, u) /\ Set(u)
    BY <1>2, <2>1, <2>2 DEF Ready, ClientOK, u
  <2>4. QED
    BY <1>1, <2>3, LighterStep
<1>3. CASE calls[c].net = "idle" /\ Set([Now EXCEPT !.calls[c].pc = "clear"])
  <2>1. Ready([Now EXCEPT !.calls[c].pc = "clear"], turns)
    BY <1>1, PcReady DEF Pcs
  <2>2. Lighter(Now, [Now EXCEPT !.calls[c].pc = "clear"])
    BY <1>1, <1>3, PcLighter DEF Carries
  <2> DEFINE u == [Now EXCEPT !.calls[c].pc = "clear"]
  <2> HIDE DEF u
  <2>3. u \in States /\ Lighter(Now, u) /\ Set(u)
    BY <1>3, <2>1, <2>2 DEF Ready, ClientOK, u
  <2>4. QED
    BY <1>1, <2>3, LighterStep
<1>4. CASE Set(Fail(Now, c, None))
  <2>1. Ready(Fail(Now, c, None), turns) /\ Lighter(Now, Fail(Now, c, None))
    BY <1>1, FailReady, FailLighter DEF MaybeId
  <2>2. QED
    BY <1>1, <1>4, <2>1, LighterStep DEF Ready, ClientOK
<1>5. QED
  BY <1>2, <1>3, <1>4 DEF SteerReturns

\* waitForIdleThen finds the engine idle and starts the send.
LEMMA AwaitHeard ==
  ASSUME TypeInv, HeardInv, NEW c \in Callers, awaitLiveClear(c)
  PROVE  HeardInv'
<1>1. /\ Ready(Now, turns) /\ calls[c].pc = "clear"
      /\ Now.page = page /\ Now.calls = calls /\ turns \in Seq(TurnRecs) /\ Now \in States
      /\ calls[c].msg \in Msgs /\ page.live # c
      /\ UNCHANGED <<log, turns, faults, asked, heard>>
  BY BusyIs DEF awaitLiveClear
<1>2. CASE Set(startSend(Now, c))
  <2>1. Ready(startSend(Now, c), turns) /\ Lighter(Now, startSend(Now, c))
    BY <1>1, StartSendReady, StartSendLighter DEF Carries
  <2>2. QED
    BY <1>1, <1>2, <2>1, LighterStep DEF Ready, ClientOK
<1>3. CASE Set(Fail(Now, c, None))
  <2>1. Ready(Fail(Now, c, None), turns) /\ Lighter(Now, Fail(Now, c, None))
    BY <1>1, FailReady, FailLighter DEF MaybeId
  <2>2. QED
    BY <1>1, <1>3, <2>1, LighterStep DEF Ready, ClientOK
<1>4. QED
  BY <1>2, <1>3 DEF awaitLiveClear

\* The answer to a cancel.
LEMMA CancelHeard ==
  ASSUME TypeInv, HeardInv, NEW c \in Callers, cancelAndAwaitClear(c)
  PROVE  HeardInv'
<1>1. /\ Ready(Now, turns) /\ calls[c].pc \in {"cancel", "stopped"} /\ calls[c].segs = <<>>
      /\ Now.page = page /\ Now.calls = calls /\ turns \in Seq(TurnRecs) /\ Now \in States
      /\ calls[c].msg \in Msgs /\ page.live # c
      /\ UNCHANGED <<log, turns, faults, asked, heard>>
  BY BusyIs DEF cancelAndAwaitClear
<1>2. CASE calls[c].pc = "cancel" /\ calls[c].net \in {"cancelled", "lost"}
           /\ LET s == [Now EXCEPT !.calls[c].pc = "stopped"]
              IN Set(IF calls[c].net = "lost" THEN abort(s, c) ELSE s)
  <2> DEFINE s == [Now EXCEPT !.calls[c].pc = "stopped"]
  <2>1. Ready(s, turns)
    BY <1>1, PcReady DEF Pcs
  <2>2. Lighter(Now, s)
    BY <1>1, PcLighter DEF Carries
  <2>3. Set(IF calls[c].net = "lost" THEN abort(s, c) ELSE s)
    BY <1>2
  <2> HIDE DEF s
  <2>4. s \in States
    BY <2>1 DEF Ready, ClientOK
  <2>5. abort(s, c) \in States /\ Lighter(Now, abort(s, c))
    BY <2>2, <2>4, AbortLighter, LighterLighter
  <2>6. QED
    BY <1>1, <2>2, <2>3, <2>4, <2>5, LighterStep
<1>3. CASE calls[c].pc = "stopped" /\ Set(startSend(Now, c))
  <2>1. Ready(startSend(Now, c), turns) /\ Lighter(Now, startSend(Now, c))
    BY <1>1, <1>3, StartSendReady, StartSendLighter DEF Carries
  <2>2. QED
    BY <1>1, <1>3, <2>1, LighterStep DEF Ready, ClientOK
<1>4. CASE Set(Fail(abort(Now, c), c, None))
  <2> DEFINE a == abort(Now, c)
  <2>1. Ready(a, turns) /\ a.page = page /\ a.calls[c] = calls[c]
    BY <1>1, AbortReady, AbortIs
  <2>2. Lighter(Now, a) /\ a \in States
    BY <1>1, AbortLighter
  <2> HIDE DEF a
  <2>3. Ready(Fail(a, c, None), turns) /\ Lighter(a, Fail(a, c, None))
    BY <1>1, <2>1, <2>2, FailReady, FailLighter DEF MaybeId
  <2>4. Lighter(Now, Fail(a, c, None)) /\ Fail(a, c, None) \in States
    BY <2>2, <2>3, LighterLighter DEF Ready, ClientOK
  <2>5. QED
    BY <1>1, <1>4, <2>4, LighterStep DEF a
<1>5. QED
  BY <1>2, <1>3, <1>4 DEF cancelAndAwaitClear

\* The answer to a POST.
LEMMA PostReturnsHeard ==
  ASSUME TypeInv, HeardInv, NEW c \in Callers, PostReturns(c)
  PROVE  HeardInv'
<1>1. /\ Ready(Now, turns) /\ calls[c] \in Calls /\ calls[c].segs = <<>>
      /\ calls[c].pc = "post" /\ ~calls[c].aborted /\ Alive(calls[c])
      /\ Now.page = page /\ Now.calls = calls /\ turns \in Seq(TurnRecs) /\ Now \in States
      /\ calls[c].msg \in Msgs /\ calls[c].answer \in Ids
      /\ UNCHANGED <<log, turns, faults, asked, heard>>
  BY BusyIs DEF PostReturns, Alive
<1>2. CASE Set([Now EXCEPT !.calls[c].pc = "stream"])
  <2> DEFINE k == [calls[c] EXCEPT !.pc = "stream"]
             u == [Now EXCEPT !.calls[c].pc = "stream"]
  <2>1. u = [Now EXCEPT !.calls[c] = k] /\ k \in Calls
    BY <1>1, PcIs DEF Pcs
  <2>2. k.pc = "stream" /\ k.segs = <<>> /\ k.turn = calls[c].turn
    BY <1>1 DEF Calls
  <2> HIDE DEF k, u
  <2>3. Onward(calls[c], k)
    BY <1>1, <2>2 DEF Onward, Carries
  <2>4. Lighter(Now, u)
    BY <1>1, <2>1, <2>3, OneCallLighter
  <2>5. u \in States
    BY <1>1, <2>1, OneCallType
  <2>6. QED
    BY <1>1, <1>2, <2>4, <2>5, LighterStep DEF u
<1>3. CASE Set(Broken(Now, c))
  <2>1. Ready(Broken(Now, c), turns) /\ Lighter(Now, Broken(Now, c))
    BY <1>1, BrokenReady, BrokenLighter
  <2>2. QED
    BY <1>1, <1>3, <2>1, LighterStep DEF Ready, ClientOK
<1>4. CASE /\ calls[c].net = "conflict"
           /\ Set([setPendingSend(Finally(Now), c, None) EXCEPT
                  !.calls[c] = [@ EXCEPT !.pc = "recancel", !.net = "sent"]])
  <2> DEFINE f == Finally(Now)
             v == setPendingSend(f, c, None)
             k == [calls[c] EXCEPT !.pc = "recancel", !.net = "sent"]
             u == [v EXCEPT !.calls[c] = [@ EXCEPT !.pc = "recancel", !.net = "sent"]]
  <2>1. f \in States /\ f.calls = calls /\ Lighter(Now, f)
    BY <1>1, FinallyLighter
  <2> HIDE DEF f
  <2>2. Pended(f, v, c, None)
    BY <1>1, <2>1, PendedIs DEF MaybeId
  <2>3. v \in States /\ v.calls = calls /\ v.page.queue = f.page.queue
    BY <2>1, <2>2 DEF Pended, States, Pages
  <2> HIDE DEF v
  <2>4. Lighter(Now, v)
    BY <2>1, <2>3, SameLighter, LighterLighter
  <2>5. k \in Calls /\ k.pc = "recancel" /\ k.msg = calls[c].msg /\ k.segs = <<>>
    BY <1>1 DEF Calls, Pcs, Nets
  <2>6. u = [v EXCEPT !.calls[c] = k]
    BY <2>3
  <2> HIDE DEF k, u
  <2>7. Onward(calls[c], k)
    BY <1>1, <1>4, <2>5 DEF Onward, Carries, Alive
  <2>8. Lighter(v, u) /\ u \in States
    BY <2>3, <2>5, <2>6, <2>7, OneCallLighter, OneCallType
  <2>9. Lighter(Now, u)
    BY <2>4, <2>8, LighterLighter
  <2>10. QED
    BY <1>1, <1>4, <2>8, <2>9, LighterStep DEF u, v, f
<1>5. QED
  BY <1>2, <1>3, <1>4 DEF PostReturns

\* The conflict is retried.
LEMMA ConflictRetryHeard ==
  ASSUME TypeInv, HeardInv, NEW c \in Callers, ConflictRetry(c)
  PROVE  HeardInv'
<1>1. /\ Ready(Now, turns) /\ calls[c] \in Calls /\ calls[c].pc = "recancel" /\ page.live # c
      /\ Now.page = page /\ Now.calls = calls /\ turns \in Seq(TurnRecs) /\ Now \in States
      /\ calls[c].msg \in Msgs /\ page \in Pages
      /\ UNCHANGED <<log, turns, faults, asked, heard>>
  BY BusyIs, NowIs DEF ConflictRetry
<1>2. page.last \in MaybeId /\ calls[c].replace \in MaybeId
  BY <1>1 DEF Pages, Calls
<1>3. CASE Set(runTurn([Now EXCEPT !.page.pending = None], c,
                       IF calls[c].replace = None THEN page.last ELSE calls[c].replace, TRUE))
  <2> DEFINE s == [Now EXCEPT !.page.pending = None]
             user == IF calls[c].replace = None THEN page.last ELSE calls[c].replace
             u == runTurn(s, c, user, TRUE)
  <2>1. /\ s \in States /\ s.calls = calls /\ s.page.queue = page.queue
    BY <1>1 DEF States, Pages
  <2>2. user \in MaybeId
    BY <1>2
  <2> HIDE DEF s, user
  <2>3. Lighter(Now, s)
    BY <1>1, <2>1, SameLighter
  <2>4. Gains(s, u, c, s.calls[c].msg)
    BY <2>1, <2>2, RunTurnGains
  <2>5. Lighter(s, u)
    BY <1>1, <2>1, <2>4, CarriedOn DEF Carries
  <2>6. u \in States
    BY <2>1, <2>2, RunTurnFields DEF Started
  <2>7. Lighter(Now, u)
    BY <2>3, <2>5, LighterLighter
  <2> HIDE DEF u
  <2>8. Set(u)
    BY <1>3 DEF s, user, u
  <2>9. QED
    BY <1>1, <2>6, <2>7, <2>8, LighterStep
<1>4. CASE Set(Fail(Now, c, failedBubble(Now, c)))
  <2>1. failedBubble(Now, c) \in MaybeId
    BY <1>1, <1>2 DEF failedBubble, MaybeId
  <2>2. Ready(Fail(Now, c, failedBubble(Now, c)), turns) /\ Lighter(Now, Fail(Now, c, failedBubble(Now, c)))
    BY <1>1, <2>1, FailReady, FailLighter
  <2>3. QED
    BY <1>1, <1>4, <2>2, LighterStep DEF Ready, ClientOK
<1>5. QED
  BY <1>3, <1>4 DEF ConflictRetry

\* An aborted call is over.
LEMMA AbortedHeard ==
  ASSUME TypeInv, HeardInv, NEW c \in Callers, Aborted(c)
  PROVE  HeardInv'
<1>1. /\ Ready(Now, turns) /\ calls[c].pc \in {"post", "stream", "open"}
      /\ Now.page = page /\ Now.calls = calls /\ turns \in Seq(TurnRecs) /\ Now \in States
      /\ (calls[c].pc # "open" => calls[c].answer \in Ids)
      /\ UNCHANGED <<log, turns, faults, asked, heard>>
  BY BusyIs DEF Aborted
<1>2. CASE Set([Now EXCEPT !.calls[c] = Over])
  <2>1. [Now EXCEPT !.calls[c] = Over] \in States
    BY <1>1, OneCallType, IdleType
  <2>2. Lighter(Now, [Now EXCEPT !.calls[c] = Over])
    BY <1>1, OneCallLighter, OverOnward
  <2> DEFINE u == [Now EXCEPT !.calls[c] = Over]
  <2> HIDE DEF u
  <2>3. u \in States /\ Lighter(Now, u) /\ Set(u)
    BY <1>2, <2>1, <2>2 DEF u
  <2>4. QED
    BY <1>1, <2>3, LighterStep
<1>3. CASE calls[c].pc # "open" /\ Set(Broken(Now, c))
  <2>1. Ready(Broken(Now, c), turns) /\ Lighter(Now, Broken(Now, c))
    BY <1>1, <1>3, BrokenReady, BrokenLighter
  <2>2. QED
    BY <1>1, <1>3, <2>1, LighterStep DEF Ready, ClientOK
<1>4. QED
  BY <1>2, <1>3 DEF Aborted

\* stopActive asks for a cancel,
LEMMA StopHeard ==
  ASSUME TypeInv, HeardInv, stopGenerating
  PROVE  HeardInv'
<1> DEFINE c == Slot(Now)
           k == Asking("stop")
           v == [Now EXCEPT !.page.cancelInFlight = TRUE]
           u == [v EXCEPT !.calls[c] = k]
<1>1. /\ Now.page = page /\ Now.calls = calls /\ turns \in Seq(TurnRecs) /\ Now \in States
      /\ UNCHANGED <<log, turns, faults, asked, heard>>
      /\ page \in Pages /\ c \in Callers
  BY SlotFree, NowIs DEF stopGenerating
<1>2. k \in Calls
  BY <1>1, AskingType
<1>3. v \in States /\ v.calls = calls /\ v.page.queue = page.queue
  BY <1>1 DEF States, Pages
<1>4. Set(u)
  BY <1>1 DEF stopGenerating, States, Asking
<1> HIDE DEF c, k, v
<1>5. Lighter(Now, v)
  BY <1>1, <1>3, SameLighter
<1>6. Onward(v.calls[c], k)
  BY OverOnward DEF k
<1>7. Lighter(v, u) /\ u \in States
  BY <1>1, <1>2, <1>3, <1>6, OneCallLighter, OneCallType
<1> HIDE DEF u
<1>8. Lighter(Now, u)
  BY <1>5, <1>7, LighterLighter
<1>9. QED
  BY <1>1, <1>4, <1>7, <1>8, LighterStep

\* and is answered.
LEMMA StopReturnsHeard ==
  ASSUME TypeInv, HeardInv, NEW c \in Callers, StopReturns(c)
  PROVE  HeardInv'
<1> DEFINE v == [Now EXCEPT !.page.cancelInFlight = FALSE]
           s == [Now EXCEPT !.page.cancelInFlight = FALSE, !.calls[c] = Over]
           w == [s EXCEPT !.page.cancelCommitted = TRUE]
<1>1. /\ Now.page = page /\ Now.calls = calls /\ turns \in Seq(TurnRecs) /\ Now \in States
      /\ UNCHANGED <<log, turns, faults, asked, heard>>
      /\ page \in Pages
  BY NowIs DEF StopReturns
<1>2. v \in States /\ v.calls = calls /\ v.page.queue = page.queue
  BY <1>1 DEF States, Pages
<1>3. s = [v EXCEPT !.calls[c] = Over]
  BY <1>1 DEF States
<1>4. Set(IF calls[c].net = "lost" THEN abort(s, c) ELSE w)
  BY DEF StopReturns
<1> HIDE DEF v
<1>5. Lighter(Now, v)
  BY <1>1, <1>2, SameLighter
<1>6. Lighter(v, s) /\ s \in States
  BY <1>2, <1>3, OverOnward, IdleType, OneCallLighter, OneCallType
<1> HIDE DEF s
<1>7. Lighter(Now, s)
  BY <1>5, <1>6, LighterLighter
<1>8. Lighter(s, abort(s, c)) /\ abort(s, c) \in States
  BY <1>6, AbortLighter
<1>9. w \in States /\ w.calls = s.calls /\ w.page.queue = s.page.queue
  BY <1>6 DEF States, Pages
<1> HIDE DEF w
<1>10. Lighter(s, w)
  BY <1>9, SameLighter
<1>11. Lighter(Now, w) /\ Lighter(Now, abort(s, c))
  BY <1>7, <1>8, <1>10, LighterLighter
<1>12. QED
  BY <1>1, <1>4, <1>8, <1>9, <1>11, LighterStep

\* A transcript arrives.
LEMMA HydrateHeard ==
  ASSUME TypeInv, HeardInv, Hydrate
  PROVE  HeardInv'
<1> DEFINE got == page.read.log
           msgs == IF page.hydrated /\ got = page.data THEN page.list
                   ELSE messagesFromTranscript(got)
           s == [Now EXCEPT !.page.read = None, !.page.hydrated = TRUE, !.page.data = got,
                            !.page.list = msgs]
           c == Slot(Now)
           k == Asking("open")
           u == [s EXCEPT !.calls[c] = k]
<1>1. /\ Now.page = page /\ Now.calls = calls /\ turns \in Seq(TurnRecs) /\ Now \in States
      /\ UNCHANGED <<log, turns, faults, asked, heard>>
      /\ page \in Pages
  BY NowIs DEF Hydrate
<1>2. got \in Seq(Records) /\ msgs \in Seq(Bubbles)
  <2>1. page.read \in Reads /\ page.list \in Seq(Bubbles)
    BY <1>1 DEF Pages, Hydrate
  <2>2. got \in Seq(Records)
    BY <2>1 DEF Reads
  <2>3. messagesFromTranscript(got) \in Seq(Bubbles)
    BY <2>2, TranscriptType
  <2>4. QED
    BY <2>1, <2>2, <2>3
<1>3. Set(IF page.hydrated THEN s ELSE u) /\ (page.hydrated \/ Free(Now) # {})
  BY DEF Hydrate, Asking
<1> HIDE DEF msgs, got
<1>4. /\ s \in States /\ s.calls = calls /\ s.page.queue = page.queue
  <2> DEFINE g == [page EXCEPT !.read = None, !.hydrated = TRUE, !.data = got, !.list = msgs]
  <2>1. g \in Pages /\ g.queue = page.queue
    BY <1>1, <1>2 DEF Pages
  <2>2. s = [Now EXCEPT !.page = g]
    BY <1>1 DEF States, Pages
  <2> HIDE DEF g, s
  <2>3. s \in States /\ s.calls = calls /\ s.page = g
    BY <1>1, <2>1, <2>2 DEF States
  <2>4. QED
    BY <2>1, <2>3
<1> HIDE DEF s
<1>5. Lighter(Now, s)
  BY <1>1, <1>4, SameLighter
<1>6. CASE page.hydrated
  BY <1>1, <1>3, <1>4, <1>5, <1>6, LighterStep
<1>7. CASE ~page.hydrated
  <2>1. c \in Callers
    BY <1>3, <1>7, SlotFree
  <2>2. k \in Calls
    BY <1>1, AskingType
  <2>3. Onward(s.calls[c], k)
    BY OverOnward
  <2>4. Set(u)
    BY <1>3, <1>7
  <2> HIDE DEF c, k
  <2>5. Lighter(s, u) /\ u \in States
    BY <1>4, <2>1, <2>2, <2>3, OneCallLighter, OneCallType
  <2> HIDE DEF u
  <2>6. Lighter(Now, u)
    BY <1>5, <2>5, LighterLighter
  <2>7. QED
    BY <1>1, <2>4, <2>5, <2>6, LighterStep
<1>8. QED
  BY <1>6, <1>7

\* An attach is answered.
LEMMA AttachHeard ==
  ASSUME TypeInv, HeardInv, NEW c \in Callers, attachActiveTurn(c)
  PROVE  HeardInv'
<1> DEFINE tail == IF page.list = <<>> THEN None ELSE Last(page.list)
           seed == IF tail # None /\ tail.kind = "assistant" THEN tail.id ELSE Temp(c)
<1>1. /\ calls[c] \in Calls /\ calls[c].segs = <<>> /\ Alive(calls[c])
      /\ Now.page = page /\ Now.calls = calls /\ turns \in Seq(TurnRecs) /\ Now \in States
      /\ UNCHANGED <<log, turns, faults, asked, heard>>
      /\ page \in Pages /\ TypeInv'
  <2>1. calls[c].pc = "open" /\ ~calls[c].aborted /\ UNCHANGED <<log, turns, faults, asked, heard>>
    BY DEF attachActiveTurn
  <2>2. TypeInv'
    BY AttachType
  <2>3. QED
    BY <2>1, <2>2, BusyIs, NowIs DEF Alive
<1>2. CASE Set([Now EXCEPT !.calls[c] = Over, !.cursor = 0])
  <2> DEFINE s == [Now EXCEPT !.calls[c] = Over]
             u == [Now EXCEPT !.calls[c] = Over, !.cursor = 0]
  <2>1. s \in States /\ Lighter(Now, s)
    BY <1>1, OneCallType, IdleType, OneCallLighter, OverOnward
  <2>2. u \in States /\ u.calls = s.calls /\ u.page = s.page
    BY <2>1 DEF States
  <2> HIDE DEF s, u
  <2>3. Lighter(Now, u)
    BY <2>1, <2>2, SameLighter, LighterLighter
  <2>4. Set(u)
    BY <1>2 DEF u
  <2>5. QED
    BY <1>1, <2>2, <2>3, <2>4, LighterStep
<1>3. CASE Set(publishTurn([Now EXCEPT
                    !.page.cancelInFlight = FALSE, !.page.cancelCommitted = FALSE,
                    !.calls[c] = [@ EXCEPT !.pc = "stream", !.answer = seed]], c))
  <2> DEFINE k == [calls[c] EXCEPT !.pc = "stream", !.answer = seed]
             g == [page EXCEPT !.cancelInFlight = FALSE, !.cancelCommitted = FALSE, !.live = c]
             u == [Now EXCEPT !.page = g, !.calls = [@ EXCEPT ![c] = k]]
  <2>1. Set(u)
    BY <1>1, <1>3 DEF publishTurn, States, Pages
  <2> HIDE DEF seed
  <2>2. k.pc = "stream" /\ k.turn = calls[c].turn /\ k.segs = <<>>
    BY <1>1 DEF Calls
  <2>3. g.queue = page.queue
    BY <1>1 DEF Pages
  <2> HIDE DEF g, k
  <2>4. Onward(calls[c], k)
    BY <1>1, <2>2 DEF Onward, Carries
  <2>5. u.page = g /\ u.calls[c] = k /\ \A x \in Callers \ {c} : u.calls[x] = calls[x]
    BY <1>1 DEF States
  <2> HIDE DEF u
  <2>6. \A x \in Callers : Onward(calls[x], u.calls[x])
    BY <2>4, <2>5 DEF Onward
  <2>7. Lighter(Now, u)
    BY <1>1, <2>3, <2>5, <2>6 DEF Lighter
  <2>8. Now' \in States /\ page' = u.page /\ cursor' = u.cursor /\ calls' = u.calls
    BY <1>1, <2>1 DEF Set, TypeInv, ClientOK
  <2>9. Lighter(Now, Now')
    BY <2>7, <2>8 DEF Lighter, Now
  <2>10. Now'.page = page' /\ Now'.cursor = cursor' /\ Now'.calls = calls'
    BY DEF Now
  <2> DEFINE n == Now'
  <2> HIDE DEF n
  <2>11. n \in States /\ Lighter(Now, n) /\ Set(n)
    BY <2>8, <2>9, <2>10 DEF n, Set
  <2>12. QED
    BY <1>1, <2>11, LighterStep
<1>4. QED
  BY <1>2, <1>3 DEF attachActiveTurn

\* A page loaded anew owes nothing of its own.
LEMMA ReloadHeard ==
  ASSUME TypeInv, HeardInv, Reload
  PROVE  HeardInv'
<1>1. /\ Now.page = page /\ Now.calls = calls /\ turns \in Seq(TurnRecs) /\ Now \in States
      /\ UNCHANGED <<log, turns, faults, asked, heard, cursor>>
      /\ page' = Fresh /\ TypeInv'
      /\ calls' = [c \in Callers |-> IF calls[c].pc = "idle" THEN Idle ELSE Over]
  BY NowIs, ReloadType DEF Reload
<1>2. \A c \in Callers : calls'[c] \in {Idle, Over}
  BY <1>1
<1>3. page'.queue = <<>>
  BY <1>1 DEF Fresh
<1> DEFINE n == Now'
<1>4. n \in States /\ n.page = page' /\ n.calls = calls' /\ n.cursor = cursor'
  BY <1>1 DEF TypeInv, ClientOK, Now
<1> HIDE DEF n
<1>5. Lighter(Now, n)
  BY <1>2, <1>3, <1>4, OverOnward DEF Lighter
<1>6. Set(n)
  BY <1>4 DEF Set
<1>7. QED
  BY <1>1, <1>4, <1>5, <1>6, LighterStep

\* The student sends,
LEMMA SubmitHeard ==
  ASSUME TypeInv, HeardInv, NEW m \in Msgs, Submit(m)
  PROVE  HeardInv'
<1> DEFINE s == [Now EXCEPT !.page.composer = None]
           u == submitMessage(s, m, None, TRUE)
<1>1. Ready(Now, turns) /\ Now \in States /\ Now.page = page /\ Now.calls = calls
      /\ page \in Pages /\ turns \in Seq(TurnRecs)
  BY BusyReady, NowIs DEF Submit
<1>2. s \in States /\ s.calls = calls /\ s.cursor = cursor
  BY NowIs DEF States, Pages, MaybeMsg
<1>2a. s.page = [page EXCEPT !.composer = None]
  BY NowIs DEF States, Pages
<1>3. /\ s.page.live = page.live /\ s.page.hydrated = page.hydrated
      /\ s.page.queue = page.queue /\ s.page.seen = page.seen
  BY <1>1, <1>2a DEF Pages
<1>4. Free(s) # {}
  BY <1>1, <1>2 DEF Submit, Free
<1>5. Set(u) /\ asked' = [asked EXCEPT ![m] = @ + 1] /\ UNCHANGED <<log, turns, faults, heard>>
  BY DEF Submit
<1> HIDE DEF s
<1>6. Ready(s, turns)
  BY <1>1, <1>2, <1>3, NowIs, SameReaders DEF Ready, ClientOK
<1>7. Ready(u, turns)
  BY <1>1, <1>4, <1>6, SubmitReady DEF MaybeId
<1>8. Gains(s, u, Slot(s), m) /\ Slot(s) \in Callers
  BY <1>2, <1>4, SubmitGains, SlotFree DEF MaybeId
<1>9. Lighter(Now, s)
  BY <1>1, <1>2, <1>3, SameLighter
<1> HIDE DEF u
<1>10. u \in States
  BY <1>7 DEF Ready, ClientOK
<1>11. QED
  BY <1>2, <1>5, <1>8, <1>9, <1>10, AskedStep

\* or regenerates: what they ask for is owed once more.
LEMMA RegenerateHeard ==
  ASSUME TypeInv, HeardInv, handleRegenerate
  PROVE  HeardInv'
<1>1. Ready(Now, turns) /\ Free(Now) # {} /\ Now \in States /\ turns \in Seq(TurnRecs)
  BY BusyReady, NowIs DEF handleRegenerate
<1>2. PICK i, j \in DOMAIN page.list :
        /\ page.list[j] = userMessage(page.list[i].id, page.list[j].msg)
        /\ page.list[j].msg # None
        /\ Set(submitMessage(Now, page.list[j].msg, page.list[j].id, FALSE))
        /\ asked' = [asked EXCEPT ![page.list[j].msg] = @ + 1]
  BY DEF handleRegenerate
<1> DEFINE b == page.list[j]
           u == submitMessage(Now, b.msg, b.id, FALSE)
<1>3. b \in Bubbles
  BY NowIs DEF Pages
<1>4. b.kind = "user"
  BY <1>2 DEF userMessage
<1>5. b.msg \in Msgs /\ b.id \in MaybeId
  <2> HIDE DEF b
  <2>1. b \in UserBubbles
    BY <1>3, <1>4, BubbleTypes DEF AnswerBubbles
  <2>2. b.msg # None
    BY <1>2 DEF b
  <2>3. QED
    BY <2>1, <2>2 DEF UserBubbles, MaybeId, MaybeMsg
<1> HIDE DEF b
<1>6. Ready(u, turns)
  BY <1>1, <1>5, SubmitReady
<1>7. asked' = [asked EXCEPT ![b.msg] = @ + 1] /\ Set(u)
  BY <1>2 DEF b
<1>8. UNCHANGED <<log, turns, faults, heard>>
  BY DEF handleRegenerate
<1>9. Gains(Now, u, Slot(Now), b.msg) /\ Slot(Now) \in Callers
  BY <1>1, <1>5, SubmitGains, SlotFree
<1>10. Lighter(Now, Now)
  BY SameLighter
<1> HIDE DEF u
<1>11. u \in States
  BY <1>6 DEF Ready, ClientOK
<1>12. QED
  BY <1>1, <1>5, <1>7, <1>8, <1>9, <1>10, <1>11, AskedStep

\* The head of a queue is not in its tail.
LEMMA HeadTail ==
  ASSUME NEW S, NEW q \in Seq(S), q # <<>>, QueueOnce(q)
  PROVE  /\ Head(q) \in S /\ Tail(q) \in Seq(S) /\ Head(q) \in Range(q)
         /\ Head(q) \notin Range(Tail(q)) /\ Range(Tail(q)) \subseteq Range(q)
         /\ QueueOnce(Tail(q))
<1>1. /\ Head(q) = q[1] /\ Len(q) \in Nat \ {0} /\ DOMAIN q = 1..Len(q)
      /\ DOMAIN Tail(q) = 1..(Len(q) - 1)
      /\ \A i \in 1..(Len(q) - 1) : Tail(q)[i] = q[i + 1]
      /\ Head(q) \in S /\ Tail(q) \in Seq(S)
  OBVIOUS
<1>2. \A i \in 1..(Len(q) - 1) : i + 1 \in DOMAIN q /\ i + 1 # 1 /\ 1 \in DOMAIN q
  BY <1>1
<1> DEFINE t == Tail(q)
           h == Head(q)
<1> HIDE DEF t, h
<1>3. h \notin Range(t) /\ h \in Range(q) /\ Range(t) \subseteq Range(q)
  BY <1>1, <1>2 DEF Range, QueueOnce, t, h
<1>4. ASSUME NEW i \in DOMAIN t, NEW j \in DOMAIN t, t[i] = t[j] PROVE i = j
  <2>1. q[i + 1] = q[j + 1] /\ i + 1 \in DOMAIN q /\ j + 1 \in DOMAIN q /\ i \in Nat /\ j \in Nat
    BY <1>1, <1>2, <1>4 DEF t
  <2>2. i + 1 = j + 1
    BY <2>1 DEF QueueOnce
  <2>3. QED
    BY <2>1, <2>2
<1>5. QueueOnce(t)
  BY <1>4 DEF QueueOnce
<1>6. QED
  BY <1>1, <1>3, <1>5 DEF t, h

\* What the queue owes, the call that forwards it owes.
LEMMA AutoForwardHeard ==
  ASSUME TypeInv, HeardInv, AutoForward
  PROVE  HeardInv'
<1> DEFINE s == [Now EXCEPT !.page.queue = Tail(@)]
           m == Head(page.queue)
           c == Slot(s)
           u == submitMessage(s, m, None, FALSE)
<1>1. /\ Now \in States /\ Now.page = page /\ Now.calls = calls /\ turns \in Seq(TurnRecs)
      /\ heard \in [Msgs -> Nat] /\ asked \in [Msgs -> Nat]
      /\ SegsInv(Now, turns) /\ TurnsInv(turns) /\ QueueOnce(page.queue)
      /\ \A n \in Msgs : Within(Now, turns, n)
      /\ page \in Pages
  BY HeardIs, NowIs
<1>2. page.queue # <<>> /\ page.queue \in Seq(Msgs) /\ Free(Now) # {}
      /\ UNCHANGED <<log, turns, faults, asked, heard>> /\ Set(u) /\ TypeInv'
  BY <1>1, AutoForwardType DEF AutoForward, Pages
<1>3. /\ m \in Msgs /\ Tail(page.queue) \in Seq(Msgs) /\ m \in Range(page.queue)
      /\ m \notin Range(Tail(page.queue)) /\ Range(Tail(page.queue)) \subseteq Range(page.queue)
      /\ QueueOnce(Tail(page.queue))
  BY <1>1, <1>2, HeadTail
<1>4. /\ s \in States /\ s.calls = calls /\ s.page = [page EXCEPT !.queue = Tail(page.queue)]
  BY <1>1, <1>3 DEF States, Pages
<1>5. s.page.queue = Tail(page.queue)
  BY <1>1, <1>4 DEF Pages
<1>6. Free(s) # {}
  BY <1>1, <1>2, <1>4 DEF Free
<1> HIDE DEF s, m
<1>7. Gains(s, u, c, m) /\ c \in Callers
  BY <1>3, <1>4, <1>6, SubmitGains, SlotFree DEF MaybeId
<1> HIDE DEF u, c
<1> DEFINE n == Now'
<1>8. n \in States /\ n.page = u.page /\ n.calls = u.calls /\ n.page = page' /\ n.calls = calls'
  BY <1>2 DEF TypeInv, ClientOK, Set, Now
<1> HIDE DEF n
<1>9. Gains(s, n, c, m)
  BY <1>7, <1>8 DEF Gains
<1>10. SegsInv(n, turns)
  <2>1. (Callers \ {c}) \in SUBSET Callers /\ \A d \in Callers \ (Callers \ {c}) : d = c
    OBVIOUS
  <2>2. \A d \in Callers \ {c} : Onward(Now.calls[d], n.calls[d])
    BY <1>1, <1>4, <1>9 DEF Gains
  <2>3. \A d \in Callers \ (Callers \ {c}) : n.calls[d].segs = <<>>
    BY <1>9 DEF Gains, Takes
  <2>4. QED
    BY <1>1, <2>1, <2>2, <2>3, SegsOn
<1>11. QueueOnce(n.page.queue)
  BY <1>3, <1>5, <1>9, QueueStays DEF Gains
<1>12. ASSUME NEW x \in Msgs
       PROVE  IsFiniteSet(OpenSteers(n, turns, x)) /\ heard[x] + Owed(n, turns, x) <= asked[x]
  <2>1. IsFiniteSet(OpenSteers(Now, turns, x)) /\ heard[x] + Owed(Now, turns, x) <= asked[x]
    BY <1>1 DEF Within
  <2>2. Carriers(s, x) = Carriers(Now, x) /\ OpenSteers(s, turns, x) = OpenSteers(Now, turns, x)
    BY <1>1, <1>4 DEF Carriers, OpenSteers, Open, ReadBy
  <2>3. /\ IsFiniteSet(OpenSteers(n, turns, x)) /\ Owed(n, turns, x) \in Nat
        /\ Owed(s, turns, x) \in Nat
        /\ Owed(n, turns, x) <= IF x = m THEN Owed(s, turns, x) + 1 ELSE Owed(s, turns, x)
    BY <1>1, <1>7, <1>9, <2>1, <2>2, GainsOwes
  <2>4. Queued(s, x) + (IF x = m THEN 1 ELSE 0) <= Queued(Now, x) /\ Queued(s, x) \in {0, 1}
        /\ Queued(Now, x) \in {0, 1}
    BY <1>1, <1>3, <1>5 DEF Queued
  <2>5. Cardinality(Carriers(Now, x)) \in Nat /\ Cardinality(OpenSteers(Now, turns, x)) \in Nat
    BY <2>1, OwedIs
  <2>6. Owed(s, turns, x) + (IF x = m THEN 1 ELSE 0) <= Owed(Now, turns, x)
        /\ Owed(Now, turns, x) \in Nat
    BY <2>2, <2>4, <2>5 DEF Owed
  <2>7. heard[x] \in Nat /\ asked[x] \in Nat
    BY <1>1
  <2>8. QED
    BY <2>1, <2>3, <2>6, <2>7
<1>13. \A x \in Msgs : Within(Now, turns, x)'
  BY <1>2, <1>12 DEF Within, n
<1>14. QED
  BY <1>1, <1>2, <1>8, <1>10, <1>11, <1>13 DEF HeardInv, n
-----------------------------------------------------------------------------
(* The loop over the frames.                                               *)

\* A message waits at the next event, or begins to.
LEMMA WaitsOn ==
  ASSUME NEW evs, NEW pos \in Nat, NEW m,
         \/ Waits(evs, pos, m) /\ ~IsUser(evs[pos + 1], m, TRUE)
         \/ IsUser(evs[pos + 1], m, FALSE)
  PROVE  Waits(evs, pos + 1, m)
<1>1. CASE Waits(evs, pos, m) /\ ~IsUser(evs[pos + 1], m, TRUE)
  <2>1. PICK n \in 1..pos : /\ IsUser(evs[n], m, FALSE)
                            /\ \A j \in n..pos : ~IsUser(evs[j], m, TRUE)
    BY <1>1 DEF Waits
  <2>2. n \in 1..(pos + 1) /\ \A j \in n..(pos + 1) : j \in n..pos \/ j = pos + 1
    OBVIOUS
  <2>3. QED
    BY <1>1, <2>1, <2>2 DEF Waits
<1>2. CASE IsUser(evs[pos + 1], m, FALSE)
  <2>1. pos + 1 \in 1..(pos + 1) /\ \A j \in (pos + 1)..(pos + 1) : j = pos + 1
    OBVIOUS
  <2>2. ~IsUser(evs[pos + 1], m, TRUE)
    BY <1>2 DEF IsUser
  <2>3. QED
    BY <1>2, <2>1, <2>2 DEF Waits
<1>3. QED
  BY <1>1, <1>2

\* mergeUserSegment keeps one segment a message, each as the events show.
LEMMA MergeWaits ==
  ASSUME NEW segs \in Seq(Segments), OnePerMsg(segs), NEW evs, NEW pos \in Nat,
         \A i \in DOMAIN segs : ~segs[i].injected => Waits(evs, pos, segs[i].msg),
         NEW e, e = evs[pos + 1], e.type = "user_message", e.msg \in Msgs, e.injected \in BOOLEAN
  PROVE  LET g == mergeUserSegment(segs, e.msg, e.injected) IN
         OnePerMsg(g) /\ \A i \in DOMAIN g : ~g[i].injected => Waits(evs, pos + 1, g[i].msg)
<1> DEFINE at == {i \in DOMAIN segs : segs[i].msg = e.msg}
           g == mergeUserSegment(segs, e.msg, e.injected)
<1>1. ASSUME NEW m, Waits(evs, pos, m), m # e.msg \/ ~e.injected
      PROVE  Waits(evs, pos + 1, m)
  <2>1. ~IsUser(evs[pos + 1], m, TRUE)
    BY <1>1 DEF IsUser
  <2>2. QED
    BY <1>1, <2>1, WaitsOn
<1>2. ~e.injected => Waits(evs, pos + 1, e.msg)
  <2>1. ~e.injected => IsUser(evs[pos + 1], e.msg, FALSE)
    BY DEF IsUser
  <2>2. QED
    BY <2>1, WaitsOn
<1>3. CASE at = {}
  <2> DEFINE x == [msg |-> e.msg, injected |-> e.injected]
  <2>1. g = Append(segs, x)
    BY <1>3 DEF mergeUserSegment
  <2>2. x.msg = e.msg /\ x.injected = e.injected
    OBVIOUS
  <2> HIDE DEF x, g
  <2>3. /\ DOMAIN g = 1..(Len(segs) + 1) /\ DOMAIN segs = 1..Len(segs) /\ Len(segs) \in Nat
        /\ \A i \in DOMAIN segs : g[i] = segs[i]
        /\ g[Len(segs) + 1] = x
    BY <2>1
  <2>4. \A i \in DOMAIN segs : segs[i].msg # e.msg
    BY <1>3
  <2>5. OnePerMsg(g)
    <3>1. ASSUME NEW i \in DOMAIN g, NEW j \in DOMAIN g, g[i].msg = g[j].msg PROVE i = j
      <4>1. CASE i \in DOMAIN segs /\ j \in DOMAIN segs
        BY <2>3, <3>1, <4>1 DEF OnePerMsg
      <4>2. CASE i \notin DOMAIN segs /\ j \notin DOMAIN segs
        BY <2>3, <4>2
      <4>3. CASE i \in DOMAIN segs /\ j \notin DOMAIN segs
        <5>1. j = Len(segs) + 1
          BY <2>3, <4>3
        <5>2. QED
          BY <2>2, <2>3, <2>4, <3>1, <4>3, <5>1
      <4>4. CASE i \notin DOMAIN segs /\ j \in DOMAIN segs
        <5>1. i = Len(segs) + 1
          BY <2>3, <4>4
        <5>2. QED
          BY <2>2, <2>3, <2>4, <3>1, <4>4, <5>1
      <4>5. QED
        BY <4>1, <4>2, <4>3, <4>4
    <3>2. QED
      BY <3>1 DEF OnePerMsg
  <2>6. ASSUME NEW i \in DOMAIN g, ~g[i].injected PROVE Waits(evs, pos + 1, g[i].msg)
    <3>1. CASE i \in DOMAIN segs
      BY <1>1, <2>3, <2>4, <2>6, <3>1
    <3>2. CASE i \notin DOMAIN segs
      <4>1. i = Len(segs) + 1
        BY <2>3, <3>2
      <4>2. QED
        BY <1>2, <2>2, <2>3, <2>6, <4>1
    <3>3. QED
      BY <3>1, <3>2
  <2>7. QED
    BY <2>5, <2>6 DEF g
<1>4. CASE at # {}
  <2>1. g = [i \in DOMAIN segs |->
               IF i \in at THEN [segs[i] EXCEPT !.injected = @ \/ e.injected] ELSE segs[i]]
    BY <1>4 DEF mergeUserSegment
  <2> HIDE DEF g
  <2>2. \A x \in Segments : /\ [x EXCEPT !.injected = @ \/ e.injected].msg = x.msg
                            /\ [x EXCEPT !.injected = @ \/ e.injected].injected
                                 = (x.injected \/ e.injected)
    BY DEF Segments
  <2>3. DOMAIN g = DOMAIN segs
    BY <2>1
  <2>4. ASSUME NEW i \in DOMAIN segs
        PROVE  /\ g[i].msg = segs[i].msg
               /\ i \in at => (g[i].injected = (segs[i].injected \/ e.injected))
               /\ i \notin at => g[i] = segs[i]
    <3>1. segs[i] \in Segments
      OBVIOUS
    <3>2. g[i] = IF i \in at THEN [segs[i] EXCEPT !.injected = @ \/ e.injected] ELSE segs[i]
      BY <2>1
    <3> DEFINE x == segs[i]
    <3> HIDE DEF x, at
    <3>3. x \in Segments /\ g[i] = IF i \in at THEN [x EXCEPT !.injected = @ \/ e.injected] ELSE x
      BY <3>1, <3>2 DEF x
    <3>4. /\ g[i].msg = x.msg
          /\ i \in at => (g[i].injected = (x.injected \/ e.injected))
          /\ i \notin at => g[i] = x
      BY <2>2, <3>3
    <3>5. QED
      BY <3>4 DEF x
  <2>5. OnePerMsg(g)
    BY <2>3, <2>4 DEF OnePerMsg
  <2>6. ASSUME NEW i \in DOMAIN g, ~g[i].injected PROVE Waits(evs, pos + 1, g[i].msg)
    <3>1. i \in DOMAIN segs /\ ~segs[i].injected /\ (i \in at => ~e.injected)
      BY <2>3, <2>4, <2>6
    <3>2. segs[i].msg # e.msg \/ ~e.injected
      BY <3>1
    <3>3. QED
      BY <1>1, <2>4, <3>1, <3>2
  <2>7. QED
    BY <2>5, <2>6 DEF g
<1>5. QED
  BY <1>3, <1>4

\* The segments after an event,
LEMMA ConsumedSegs ==
  ASSUME NEW k \in Calls, NEW e \in Events
  PROVE  ConsumedCall(k, e).segs =
           IF e.type = "user_message" THEN mergeUserSegment(k.segs, e.msg, e.injected) ELSE k.segs
<1>1. CASE e.type = "meta"
  BY <1>1 DEF ConsumedCall, Calls
<1>2. CASE e.type = "user_message"
  <2> DEFINE g == mergeUserSegment(k.segs, e.msg, e.injected)
  <2>1. ConsumedCall(k, e) = [k EXCEPT !.pos = @ + 1, !.segs = g]
    BY <1>2 DEF ConsumedCall
  <2> HIDE DEF g
  <2>2. ConsumedCall(k, e).segs = g
    BY <2>1 DEF Calls
  <2>3. QED
    BY <1>2, <2>2 DEF g
<1>3. CASE e.type = "done"
  BY <1>3 DEF ConsumedCall, Calls
<1>4. QED
  BY <1>1, <1>2, <1>3 DEF Events

\* The segments after a frame.
LEMMA FrameSegs ==
  ASSUME NEW k \in Calls, NEW ts, SegOK(k, ts), k.pc = "stream", k.turn # 0, NEW e \in Events,
         e = ts[k.turn].events[k.pos + 1]
  PROVE  SegOK(ConsumedCall(k, e), ts)
<1> DEFINE w == ConsumedCall(k, e)
           evs == ts[k.turn].events
<1>1. w.pc = "stream" /\ w.turn = k.turn /\ w.pos = k.pos + 1 /\ k.pos \in Nat
      /\ k.segs \in Seq(Segments)
  <2>1. k.pos \in Nat /\ k.segs \in Seq(Segments)
    BY DEF Calls
  <2>2. QED
    BY <2>1, ConsumedCallType
<1>2. w.segs = IF e.type = "user_message" THEN mergeUserSegment(k.segs, e.msg, e.injected)
               ELSE k.segs
  BY ConsumedSegs
<1>3. /\ OnePerMsg(k.segs)
      /\ \A i \in DOMAIN k.segs : ~k.segs[i].injected => Waits(evs, k.pos, k.segs[i].msg)
  BY DEF SegOK
<1> HIDE DEF w
<1>4. OnePerMsg(w.segs)
      /\ \A i \in DOMAIN w.segs : ~w.segs[i].injected => Waits(evs, k.pos + 1, w.segs[i].msg)
  <2>1. CASE e.type = "user_message"
    <3>1. e.msg \in Msgs /\ e.injected \in BOOLEAN
      BY <2>1 DEF Events
    <3>2. e = evs[k.pos + 1]
      OBVIOUS
    <3> HIDE DEF evs
    <3> DEFINE g == mergeUserSegment(k.segs, e.msg, e.injected)
    <3>3. OnePerMsg(g) /\ \A i \in DOMAIN g : ~g[i].injected => Waits(evs, k.pos + 1, g[i].msg)
      BY <1>1, <1>3, <2>1, <3>1, <3>2, MergeWaits
    <3>4. QED
      BY <1>2, <2>1, <3>3
  <2>2. CASE e.type # "user_message"
    <3>1. \A m : ~IsUser(evs[k.pos + 1], m, TRUE)
      BY <2>2 DEF IsUser
    <3> HIDE DEF evs
    <3>2. \A m : Waits(evs, k.pos, m) => Waits(evs, k.pos + 1, m)
      BY <1>1, <3>1, WaitsOn
    <3>3. QED
      BY <1>2, <1>3, <2>2, <3>2
  <2>3. QED
    BY <2>1, <2>2
<1>5. SegOK(w, ts)
  BY <1>1, <1>4 DEF SegOK
<1>6. QED
  BY <1>5 DEF w
-----------------------------------------------------------------------------
\* What is kept of a list with one entry a message has one entry a message.
LEMMA OnlyOnce ==
  ASSUME NEW T, NEW list \in Seq(T), NEW S, OnePerMsg(list)
  PROVE  OnePerMsg(Only(list, S))
<1>1. PICK f : /\ Only(list, S) = f[Len(list)]
               /\ f[0] = <<>>
               /\ \A k \in 1..Len(list) :
                    f[k] = IF list[k] \in S THEN Append(f[k - 1], list[k]) ELSE f[k - 1]
  BY OnlyParts
<1> DEFINE G == {n \in Nat : n <= Len(list) =>
                   /\ f[n] \in Seq(T) /\ OnePerMsg(f[n])
                   /\ \A i \in DOMAIN f[n] : \E j \in 1..n : list[j] = f[n][i]}
<1>2. 0 \in G
  <2>1. f[0] \in Seq(T) /\ DOMAIN f[0] = {}
    BY <1>1
  <2>2. QED
    BY <2>1 DEF OnePerMsg
<1>3. ASSUME NEW n \in Nat, n \in G PROVE n + 1 \in G
  <2> SUFFICES ASSUME n + 1 <= Len(list)
               PROVE  /\ f[n + 1] \in Seq(T) /\ OnePerMsg(f[n + 1])
                      /\ \A i \in DOMAIN f[n + 1] : \E j \in 1..(n + 1) : list[j] = f[n + 1][i]
    OBVIOUS
  <2>1. /\ f[n] \in Seq(T) /\ OnePerMsg(f[n])
        /\ \A i \in DOMAIN f[n] : \E j \in 1..n : list[j] = f[n][i]
    BY <1>3
  <2>2. f[n + 1] = IF list[n + 1] \in S THEN Append(f[n], list[n + 1]) ELSE f[n]
    BY <1>1
  <2>3. list[n + 1] \in T
    OBVIOUS
  <2> DEFINE a == f[n]
             b == f[n + 1]
             e == list[n + 1]
  <2>4. CASE e \in S
    <3>1. b = Append(a, e) /\ a \in Seq(T) /\ e \in T
      BY <2>1, <2>2, <2>3, <2>4
    <3>0. OnePerMsg(a) /\ \A i \in DOMAIN a : \E j \in 1..n : list[j] = a[i]
      BY <2>1
    <3>00. e = list[n + 1]
      OBVIOUS
    <3> HIDE DEF a, b, e
    <3>2. /\ b \in Seq(T) /\ DOMAIN b = 1..(Len(a) + 1) /\ DOMAIN a = 1..Len(a)
          /\ \A i \in 1..Len(a) : b[i] = a[i]
          /\ b[Len(a) + 1] = e
          /\ Len(a) \in Nat
      BY <3>1
    <3>3. \A i \in DOMAIN b : \E j \in 1..(n + 1) : list[j] = b[i]
      BY <3>0, <3>00, <3>2
    <3>4. \A i \in DOMAIN a : a[i].msg # e.msg
      <4> SUFFICES ASSUME NEW i \in DOMAIN a, a[i].msg = e.msg PROVE FALSE
        OBVIOUS
      <4>1. PICK j \in 1..n : list[j] = a[i]
        BY <3>0
      <4>2. j \in DOMAIN list /\ n + 1 \in DOMAIN list /\ j # n + 1
        OBVIOUS
      <4>3. list[j].msg = list[n + 1].msg
        BY <3>00, <4>1
      <4>4. QED
        BY <4>2, <4>3 DEF OnePerMsg
    <3>5. OnePerMsg(b)
      <4>1. ASSUME NEW i \in DOMAIN b, NEW j \in DOMAIN b, b[i].msg = b[j].msg PROVE i = j
        <5>1. CASE i \in DOMAIN a /\ j \in DOMAIN a
          BY <3>0, <3>2, <4>1, <5>1 DEF OnePerMsg
        <5>2. CASE i = Len(a) + 1 /\ j \in DOMAIN a
          BY <3>2, <3>4, <4>1, <5>2
        <5>3. CASE j = Len(a) + 1 /\ i \in DOMAIN a
          BY <3>2, <3>4, <4>1, <5>3
        <5>4. CASE i = Len(a) + 1 /\ j = Len(a) + 1
          BY <5>4
        <5>5. QED
          BY <3>2, <5>1, <5>2, <5>3, <5>4
      <4>2. QED
        BY <4>1 DEF OnePerMsg
    <3>6. QED
      BY <3>2, <3>3, <3>5 DEF b
  <2>5. CASE e \notin S
    <3>1. f[n + 1] = f[n]
      BY <2>2, <2>5
    <3>2. QED
      BY <2>1, <3>1
  <2>6. QED
    BY <2>4, <2>5
<1> HIDE DEF G
<1>4. Len(list) \in G
  BY <1>2, <1>3, SetInduction
<1>5. QED
  BY <1>1, <1>4 DEF G

\* What the terminal forwards, it forwards once.
LEMMA LateOnce ==
  ASSUME NEW s \in States, NEW c \in Callers, OnePerMsg(s.calls[c].segs)
  PROVE  QueueOnce(LateMsgs(s, c))
<1> DEFINE segs == s.calls[c].segs
           A == {g \in Range(segs) : ~g.injected}
           rest == Only(segs, A)
           B == {g \in Range(rest) : g.msg \notin s.page.seen}
           late == Only(rest, B)
<1>1. segs \in Seq(Segments) /\ OnePerMsg(segs)
  BY DEF States, Calls
<1>2. LateOf(s, c) = late
  BY DEF LateOf, pendingUserSegmentsOf
<1> HIDE DEF segs, A, B
<1>3. OnePerMsg(rest) /\ rest \in Seq(Segments)
  BY <1>1, OnlyIs, OnlyOnce DEF IsOnly
<1> HIDE DEF rest
<1>4. OnePerMsg(late)
  BY <1>3, OnlyOnce
<1>5. LateMsgs(s, c) = [i \in DOMAIN late |-> late[i].msg]
  BY <1>2 DEF LateMsgs
<1> HIDE DEF late
<1>6. QED
  BY <1>4, <1>5 DEF OnePerMsg, QueueOnce

\* A queue with another behind it.
LEMMA QueueJoin ==
  ASSUME NEW S, NEW a \in Seq(S), NEW b \in Seq(S), QueueOnce(a), QueueOnce(b),
         Range(a) \cap Range(b) = {}
  PROVE  QueueOnce(a \o b) /\ Range(a \o b) = Range(a) \cup Range(b)
<1> DEFINE q == a \o b
<1>1. /\ DOMAIN q = 1..(Len(a) + Len(b)) /\ DOMAIN a = 1..Len(a) /\ DOMAIN b = 1..Len(b)
      /\ Len(a) \in Nat /\ Len(b) \in Nat
      /\ \A i \in DOMAIN q : q[i] = IF i <= Len(a) THEN a[i] ELSE b[i - Len(a)]
  OBVIOUS
<1> HIDE DEF q
<1>2. \A i \in DOMAIN q : /\ i <= Len(a) => i \in DOMAIN a /\ q[i] = a[i]
                          /\ ~(i <= Len(a)) => i - Len(a) \in DOMAIN b /\ q[i] = b[i - Len(a)]
  BY <1>1
<1>3. (\A i \in DOMAIN a : i \in DOMAIN q /\ q[i] = a[i])
      /\ \A i \in DOMAIN b : Len(a) + i \in DOMAIN q /\ q[Len(a) + i] = b[i]
  BY <1>1
<1>4. Range(q) = Range(a) \cup Range(b)
  BY <1>2, <1>3 DEF Range
<1>5. ASSUME NEW i \in DOMAIN q, NEW j \in DOMAIN q, q[i] = q[j] PROVE i = j
  <2>1. (i <= Len(a)) <=> (j <= Len(a))
    BY <1>2, <1>5 DEF Range
  <2>2. CASE i <= Len(a)
    BY <1>2, <1>5, <2>1, <2>2 DEF QueueOnce
  <2>3. CASE ~(i <= Len(a))
    <3>1. i - Len(a) = j - Len(a)
      BY <1>2, <1>5, <2>1, <2>3 DEF QueueOnce
    <3>2. QED
      BY <1>1, <3>1
  <2>4. QED
    BY <2>2, <2>3
<1>6. QED
  BY <1>4, <1>5 DEF QueueOnce, q

\* A step that owes no more, or owes less by what the agent gets.
LEMMA HeardStep ==
  ASSUME TypeInv, HeardInv, TypeInv', asked' = asked,
         SegsInv(Now', turns'), TurnsInv(turns'), QueueOnce(page'.queue),
         \A m \in Msgs : IsFiniteSet(OpenSteers(Now, turns, m)) =>
            /\ IsFiniteSet(OpenSteers(Now', turns', m))
            /\ heard'[m] + Owed(Now', turns', m) <= heard[m] + Owed(Now, turns, m)
  PROVE  HeardInv'
<1>1. \A m \in Msgs : Within(Now, turns, m)
  BY DEF HeardInv
<1>2. heard \in [Msgs -> Nat] /\ asked \in [Msgs -> Nat] /\ heard' \in [Msgs -> Nat]
  BY DEF TypeInv, CountsOK
<1>3. ASSUME NEW m \in Msgs
      PROVE  /\ IsFiniteSet(OpenSteers(Now', turns', m))
             /\ heard'[m] + Owed(Now', turns', m) <= asked'[m]
  <2>1. IsFiniteSet(OpenSteers(Now, turns, m)) /\ heard[m] + Owed(Now, turns, m) <= asked[m]
    BY <1>1 DEF Within
  <2>2. /\ IsFiniteSet(OpenSteers(Now', turns', m))
        /\ heard'[m] + Owed(Now', turns', m) <= heard[m] + Owed(Now, turns, m)
    BY <2>1
  <2>3. Owed(Now, turns, m) \in Nat /\ Owed(Now', turns', m) \in Nat
    BY <2>1, <2>2, OwedIs
  <2>4. heard[m] \in Nat /\ heard'[m] \in Nat /\ asked[m] \in Nat
    BY <1>2
  <2>5. QED
    BY <2>1, <2>2, <2>3, <2>4
<1>4. \A m \in Msgs : Within(Now, turns, m)'
  BY <1>3 DEF Within
<1>5. QED
  BY <1>4 DEF HeardInv
-----------------------------------------------------------------------------
\* A steer that the stream has shown, and that was not taken in.
LEMMA StillSteered ==
  ASSUME NEW t, NEW evs, evs = t.events, Heeded(t), NEW n, n = Len(evs), n \in Nat,
         DOMAIN evs = 1..n, NEW m \in Msgs, Waits(evs, n, m)
  PROVE  m \in Range(t.steers)
<1>1. PICK i \in 1..n : IsUser(evs[i], m, FALSE) /\ \A j \in i..n : ~IsUser(evs[j], m, TRUE)
  BY DEF Waits
<1>2. m \in Range(t.steers) \/ \E j \in i..n : IsUser(evs[j], m, TRUE)
  BY <1>1 DEF Heeded
<1>3. QED
  BY <1>1, <1>2

\* The terminal: what its segments leave waiting goes to the queue, and the
\* turn that was steered with it is open no more.
LEMMA TerminalHeard ==
  ASSUME TypeInv, HeardInv, NEW c \in Callers, calls[c].pc = "stream", ~calls[c].aborted,
         calls[c].pos = Len(turns[calls[c].turn].events), ~turns[calls[c].turn].claimed,
         Set(Terminal(Now, c)), UNCHANGED <<log, turns, faults, asked, heard>>, TypeInv'
  PROVE  HeardInv'
<1> DEFINE k == calls[c].turn
           late == LateMsgs(Now, c)
           q == page.queue \o late
           L == FinalList(Now, c, calls[c].st)
           n == SeenBy(Now, c)
           u == Terminal(Now, c)
<1>1. /\ Now \in States /\ Now.page = page /\ Now.calls = calls /\ turns \in Seq(TurnRecs)
      /\ SegsInv(Now, turns) /\ TurnsInv(turns) /\ QueueOnce(page.queue)
      /\ page \in Pages /\ CallOK(calls[c], turns) /\ calls[c] \in Calls
      /\ calls \in [Callers -> Calls]
      /\ OneReader(Now) /\ Range(page.queue) \subseteq page.seen
  BY HeardIs, NowIs, CallIs DEF TypeInv, ClientOK
<1>2. k \in 1..Len(turns) /\ turns[k] \in TurnRecs /\ calls[c].answer \in Ids
  <2>1. k # 0 /\ k <= Len(turns) /\ k \in 0..MaxTurns /\ calls[c].answer \in Ids
    BY <1>1 DEF CallOK, Calls
  <2>2. QED
    BY <1>1, <2>1
<1>3. /\ L \in Seq(Bubbles) /\ q \in Seq(Msgs) /\ n \in SUBSET Msgs
      /\ u = invalidateSession(Ended(Now, c, L, q, n))
  BY <1>1, <1>2, TerminalIs
<1> HIDE DEF L, n
<1>4. u.page.queue = q /\ u.calls = [calls EXCEPT ![c] = Over] /\ u \in States
  <2> HIDE DEF q, u
  <2> DEFINE v == Ended(Now, c, L, q, n)
  <2>1. IsEnded(Now, v, c, L, q, n)
    BY <1>1, <1>3, EndedFields
  <2> HIDE DEF v
  <2>2. v \in States /\ v.calls = [calls EXCEPT ![c] = Over] /\ v.page.queue = q
    BY <1>1, <2>1 DEF IsEnded, EndedPage, Pages
  <2> DEFINE w == invalidateSession(v)
  <2>3. w \in States /\ w.calls = v.calls /\ w.page = [v.page EXCEPT !.read = [st |-> "sent", log |-> <<>>]]
    BY <2>2, InvalidateFields
  <2> HIDE DEF w
  <2>4. w.page.queue = v.page.queue
    BY <2>2, <2>3 DEF States, Pages
  <2>5. u = w
    BY <1>3 DEF v, w
  <2>6. QED
    BY <2>2, <2>3, <2>4, <2>5
<1>5. Now' = u /\ page' = u.page
  BY <1>4, SetIs DEF Set
<1> HIDE DEF u
<1>6. /\ page.queue \in Seq(Msgs) /\ late \in Seq(Msgs)
      /\ \A g \in Range(LateOf(Now, c)) :
              g \in Range(calls[c].segs) /\ ~g.injected /\ g.msg \notin page.seen
  BY <1>1, LateType DEF Pages
<1>7. QueueOnce(late)
  BY <1>1, LateOnce DEF SegsInv, SegOK
<1>8. ASSUME NEW x \in Range(late)
      PROVE  x \notin page.seen /\ \E i \in DOMAIN calls[c].segs :
               ~calls[c].segs[i].injected /\ calls[c].segs[i].msg = x
  <2>1. PICK i \in DOMAIN LateOf(Now, c) : x = LateOf(Now, c)[i].msg
    BY DEF LateMsgs, Range
  <2> DEFINE g == LateOf(Now, c)[i]
  <2>2. g \in Range(LateOf(Now, c))
    BY DEF Range
  <2>3. g \in Range(calls[c].segs) /\ ~g.injected /\ g.msg \notin page.seen
    BY <1>6, <2>2
  <2>4. QED
    BY <2>1, <2>3 DEF Range
<1> HIDE DEF late
<1>9. Range(page.queue) \cap Range(late) = {}
  BY <1>1, <1>8
<1>10. QueueOnce(q) /\ Range(q) = Range(page.queue) \cup Range(late)
  BY <1>1, <1>6, <1>7, <1>9, QueueJoin
<1> HIDE DEF q
<1>11. u.calls[c] = Over /\ \A d \in Callers \ {c} : u.calls[d] = calls[d]
  BY <1>1, <1>4
<1>12. \A d \in Callers : Onward(calls[d], u.calls[d])
  BY <1>11, OverOnward DEF Onward
<1>13. SegsInv(Now', turns')
  <2>1. \A d \in Callers : Onward(Now.calls[d], u.calls[d])
    BY <1>1, <1>12
  <2>2. SegsInv(u, turns)
    BY <1>1, <2>1, SegsOn
  <2>3. QED
    BY <1>5, <2>2
<1>14. ~Open(u, turns, k)
  <2>1. ~ReadBy(u, k)
    <3>1. ASSUME NEW d \in Callers, Alive(u.calls[d]), u.calls[d].turn = k PROVE FALSE
      <4>1. d # c
        BY <1>11, <3>1 DEF Over, Idle, Alive
      <4>2. Alive(calls[d]) /\ Alive(calls[c])
        BY <1>11, <3>1, <4>1 DEF Alive
      <4>3. QED
        BY <1>1, <4>1, <4>2 DEF OneReader
    <3>2. QED
      BY <3>1 DEF ReadBy
  <2>2. QED
    BY <2>1 DEF Open
<1>15. Open(Now, turns, k)
  BY <1>1 DEF Open, ReadBy, Alive
<1>16. ASSUME NEW x \in Msgs, IsFiniteSet(OpenSteers(Now, turns, x))
       PROVE  IsFiniteSet(OpenSteers(u, turns, x))
              /\ Owed(u, turns, x) <= Owed(Now, turns, x)
              /\ Owed(u, turns, x) \in Nat /\ Owed(Now, turns, x) \in Nat
  <2>1. Carriers(u, x) \subseteq Carriers(Now, x)
    BY <1>1, <1>12 DEF Carriers, Onward
  <2>2. OpenSteers(u, turns, x) \subseteq OpenSteers(Now, turns, x)
    <3>1. \A d \in Callers : Onward(Now.calls[d], u.calls[d])
      BY <1>1, <1>12
    <3>2. QED
      BY <1>1, <3>1, OpenOn
  <2>3. CASE x \notin Range(late)
    <3>1. Queued(u, x) <= Queued(Now, x)
      BY <1>1, <1>4, <1>10, <2>3 DEF Queued
    <3>2. QED
      BY <1>16, <2>1, <2>2, <3>1, OwedLess
  <2>4. CASE x \in Range(late)
    <3>1. Queued(u, x) = 1 /\ Queued(Now, x) = 0
      BY <1>1, <1>4, <1>8, <1>10, <2>4 DEF Queued
    <3>2. x \in Range(turns[k].steers)
      <4> DEFINE t == turns[k]
                 evs == t.events
      <4>1. PICK i \in DOMAIN calls[c].segs :
                ~calls[c].segs[i].injected /\ calls[c].segs[i].msg = x
        BY <1>8, <2>4
      <4>2. Waits(evs, calls[c].pos, x)
        BY <1>1, <4>1 DEF SegsInv, SegOK
      <4>3. Heeded(t)
        BY <1>1, <1>2 DEF TurnsInv
      <4>4. evs \in Seq(Events)
        BY <1>2 DEF TurnRecs
      <4>5. evs = t.events
        OBVIOUS
      <4>6. calls[c].pos = Len(evs)
        OBVIOUS
      <4> HIDE DEF evs, t
      <4>7. Len(evs) \in Nat /\ DOMAIN evs = 1..Len(evs) /\ Waits(evs, Len(evs), x)
        BY <4>2, <4>4, <4>6
      <4>8. x \in Range(t.steers)
        BY <4>3, <4>5, <4>7, StillSteered
      <4>9. QED
        BY <4>8 DEF t
    <3>3. turns[k].steers \in Seq(Msgs)
      BY <1>2 DEF TurnRecs
    <3>4. PICK i \in DOMAIN turns[k].steers : turns[k].steers[i] = x
      BY <3>2 DEF Range
    <3>5. i \in Nat
      BY <3>3
    <3> DEFINE p == <<k, i>>
    <3>6. p \in OpenSteers(Now, turns, x)
      BY <1>2, <1>15, <3>4, <3>5 DEF OpenSteers
    <3>7. p \notin OpenSteers(u, turns, x)
      BY <1>14 DEF OpenSteers
    <3> HIDE DEF p
    <3>8. /\ IsFiniteSet(OpenSteers(u, turns, x)) /\ Cardinality(OpenSteers(u, turns, x)) \in Nat
          /\ Cardinality(OpenSteers(Now, turns, x)) \in Nat
          /\ Cardinality(OpenSteers(u, turns, x)) + 1 <= Cardinality(OpenSteers(Now, turns, x))
      <4>1. OpenSteers(u, turns, x) \subseteq OpenSteers(Now, turns, x) \ {p}
        BY <2>2, <3>7
      <4>2. QED
        BY <1>16, <3>6, <4>1, CardDrop
    <3>9. /\ Cardinality(Carriers(u, x)) \in Nat /\ Cardinality(Carriers(Now, x)) \in Nat
          /\ Cardinality(Carriers(u, x)) <= Cardinality(Carriers(Now, x))
      BY <2>1, CarriersFinite, CardLess
    <3>10. QED
      BY <3>1, <3>8, <3>9 DEF Owed
  <2>5. QED
    BY <2>3, <2>4
<1>17. ASSUME NEW x \in Msgs, IsFiniteSet(OpenSteers(Now, turns, x))
       PROVE  /\ IsFiniteSet(OpenSteers(Now', turns', x))
              /\ heard'[x] + Owed(Now', turns', x) <= heard[x] + Owed(Now, turns, x)
  <2>1. heard[x] \in Nat
    BY DEF TypeInv, CountsOK
  <2>2. QED
    BY <1>5, <1>16, <1>17, <2>1
<1>18. TurnsInv(turns') /\ QueueOnce(page'.queue) /\ asked' = asked
  BY <1>1, <1>4, <1>5, <1>10
<1>19. QED
  BY <1>13, <1>17, <1>18, HeardStep

\* A frame before the terminal,
LEMMA FrameHeard ==
  ASSUME TypeInv, HeardInv, NEW c \in Callers, calls[c].pc = "stream", ~calls[c].aborted,
         calls[c].pos < Len(turns[calls[c].turn].events), NEW e,
         e = turns[calls[c].turn].events[calls[c].pos + 1],
         Set(consumeEvent(Now, c, e)), UNCHANGED <<log, turns, faults, asked, heard>>, TypeInv'
  PROVE  HeardInv'
<1> DEFINE u == consumeEvent(Now, c, e)
           w == ConsumedCall(calls[c], e)
<1>1. /\ Now \in States /\ Now.page = page /\ Now.calls = calls /\ turns \in Seq(TurnRecs)
      /\ SegsInv(Now, turns) /\ TurnsInv(turns) /\ QueueOnce(page.queue)
      /\ page \in Pages /\ CallOK(calls[c], turns) /\ calls[c] \in Calls
      /\ calls \in [Callers -> Calls]
  BY HeardIs, NowIs, CallIs DEF TypeInv, ClientOK
<1>2. calls[c].turn \in 1..Len(turns) /\ turns[calls[c].turn] \in TurnRecs /\ calls[c].pos \in Nat
  <2>1. calls[c].turn # 0 /\ calls[c].turn <= Len(turns) /\ calls[c].turn \in 0..MaxTurns
        /\ calls[c].pos \in Nat
    BY <1>1 DEF CallOK, Calls
  <2>2. QED
    BY <1>1, <2>1
<1>3. e \in Events /\ calls[c].turn # 0
  <2>1. turns[calls[c].turn].events \in Seq(Events)
    BY <1>2 DEF TurnRecs
  <2>2. QED
    BY <1>2, <2>1
<1>4. IsConsumed(Now, u, c, e)
  BY <1>1, <1>3, ConsumeIs
<1>5. w.pc = "stream" /\ w.aborted = FALSE /\ w.turn = calls[c].turn /\ SegOK(w, turns)
  <2>1. SegOK(calls[c], turns)
    BY <1>1 DEF SegsInv
  <2>2. calls[c].aborted \in BOOLEAN
    BY <1>1 DEF Calls
  <2>3. SegOK(w, turns)
    BY <1>1, <1>3, <2>1, FrameSegs
  <2>4. w.pc = calls[c].pc /\ w.aborted = calls[c].aborted /\ w.turn = calls[c].turn
    BY <1>1, <1>3, ConsumedCallType
  <2>5. QED
    BY <2>2, <2>3, <2>4
<1> HIDE DEF u
<1>6. u \in States /\ u.page.queue = page.queue /\ u.calls = [calls EXCEPT ![c] = w]
  BY <1>1, <1>4 DEF IsConsumed, Pages
<1> HIDE DEF w
<1>7. u.calls[c] = w /\ \A d \in Callers \ {c} : u.calls[d] = calls[d]
  BY <1>1, <1>6
<1>8. Now' = u /\ page' = u.page
  BY <1>6, SetIs DEF Set, u
<1>9. SegsInv(Now', turns')
  <2>1. SegsInv(u, turns)
    BY <1>1, <1>5, <1>7 DEF SegsInv
  <2>2. QED
    BY <1>8, <2>1
<1>10. ASSUME NEW x \in Msgs, IsFiniteSet(OpenSteers(Now, turns, x))
       PROVE  /\ IsFiniteSet(OpenSteers(Now', turns', x))
              /\ heard'[x] + Owed(Now', turns', x) <= heard[x] + Owed(Now, turns, x)
  <2>1. Carriers(u, x) \subseteq Carriers(Now, x)
    BY <1>1, <1>5, <1>7 DEF Carriers, Carries
  <2>2. Queued(u, x) <= Queued(Now, x)
    BY <1>1, <1>6 DEF Queued
  <2>3. OpenSteers(u, turns, x) \subseteq OpenSteers(Now, turns, x)
    <3>1. \A k \in 1..Len(turns) : Open(u, turns, k) => Open(Now, turns, k)
      BY <1>1, <1>5, <1>7 DEF Open, ReadBy, Alive
    <3>2. QED
      BY <3>1 DEF OpenSteers
  <2>4. /\ IsFiniteSet(OpenSteers(u, turns, x)) /\ Owed(u, turns, x) \in Nat
        /\ Owed(Now, turns, x) \in Nat /\ Owed(u, turns, x) <= Owed(Now, turns, x)
    BY <1>10, <2>1, <2>2, <2>3, OwedLess
  <2>5. heard[x] \in Nat
    BY DEF TypeInv, CountsOK
  <2>6. QED
    BY <1>8, <2>4, <2>5
<1>11. TurnsInv(turns') /\ QueueOnce(page'.queue) /\ asked' = asked
  BY <1>1, <1>6, <1>8
<1>12. QED
  BY <1>9, <1>10, <1>11, HeardStep

\* and the reader's step.
LEMMA ConsumeHeard ==
  ASSUME TypeInv, HeardInv, NEW c \in Callers, consumeStream(c)
  PROVE  HeardInv'
<1>1. /\ Ready(Now, turns) /\ Now.page = page /\ Now.calls = calls /\ turns \in Seq(TurnRecs)
      /\ Now \in States /\ UNCHANGED <<log, turns, faults, asked, heard>>
      /\ calls[c].pc = "stream" /\ ~calls[c].aborted
      /\ TypeInv' /\ CallOK(calls[c], turns)
  BY BusyReady, NowIs, CallIs, ConsumeType DEF consumeStream
<1>2. CASE /\ calls[c].pos < Len(turns[calls[c].turn].events)
           /\ Set(consumeEvent(Now, c, turns[calls[c].turn].events[calls[c].pos + 1]))
  BY <1>1, <1>2, FrameHeard
<1>3. CASE Set(Broken([Now EXCEPT !.cursor = 0], c))
  <2> DEFINE s == [Now EXCEPT !.cursor = 0]
  <2>1. s \in States /\ s.calls = calls /\ s.page = page /\ s.cursor = 0
    BY <1>1 DEF States
  <2> HIDE DEF s
  <2>2. s.page.live \in {Now.page.live, None} /\ s.page.hydrated
        /\ Range(s.page.queue) \subseteq s.page.seen
    BY <1>1, <2>1 DEF Ready, ClientOK
  <2>3. Ready(s, turns)
    BY <1>1, <2>1, <2>2, SameReaders
  <2>4. Ready(Broken(s, c), turns)
    BY <1>1, <2>1, <2>3, BrokenReady
  <2>5. Set(Broken(s, c))
    BY <1>3 DEF s
  <2>6. Lighter(Now, s)
    BY <1>1, <2>1, SameLighter
  <2>7. Lighter(s, Broken(s, c))
    BY <1>1, <2>1, BrokenLighter DEF CallOK
  <2> DEFINE u == Broken(s, c)
  <2> HIDE DEF u
  <2>8. Lighter(Now, u) /\ u \in States /\ Set(u)
    BY <2>4, <2>5, <2>6, <2>7, LighterLighter DEF u, Ready, ClientOK
  <2>9. QED
    BY <1>1, <2>8, LighterStep
<1>4. CASE /\ calls[c].pos = Len(turns[calls[c].turn].events) /\ ~turns[calls[c].turn].claimed
           /\ Set(Terminal(Now, c))
  BY <1>1, <1>4, TerminalHeard
<1>5. QED
  BY <1>2, <1>3, <1>4 DEF consumeStream
-----------------------------------------------------------------------------
(* The server's steps.                                                     *)

\* No turn and no event is gone,
Keeps(ts, us) ==
  /\ us \in Seq(TurnRecs) /\ Len(ts) <= Len(us)
  /\ \A k \in 1..Len(ts) :
       /\ Len(ts[k].events) <= Len(us[k].events)
       /\ \A i \in 1..Len(ts[k].events) : us[k].events[i] = ts[k].events[i]

\* and a call is where it was.
Kept(k, l) ==
  /\ l.pc = k.pc /\ l.segs = k.segs /\ l.msg = k.msg /\ l.aborted = k.aborted
  /\ k.pc = "stream" => l.turn = k.turn /\ l.pos = k.pos

\* What waited by the events still waits by the same events,
LEMMA WaitsKept ==
  ASSUME NEW evs, NEW fvs, NEW n \in Nat, NEW pos \in Nat, pos <= n,
         \A i \in 1..n : fvs[i] = evs[i], NEW m, Waits(evs, pos, m)
  PROVE  Waits(fvs, pos, m)
<1>1. PICK i \in 1..pos : IsUser(evs[i], m, FALSE) /\ \A j \in i..pos : ~IsUser(evs[j], m, TRUE)
  BY DEF Waits
<1>2. \A j \in i..pos : j \in 1..n
  OBVIOUS
<1>3. i \in i..pos
  OBVIOUS
<1>4. IsUser(fvs[i], m, FALSE) /\ \A j \in i..pos : ~IsUser(fvs[j], m, TRUE)
  BY <1>1, <1>2, <1>3
<1>5. QED
  BY <1>4 DEF Waits

\* so the segments stay as they should be.
LEMMA SegsKept ==
  ASSUME NEW s \in States, NEW u, NEW ts \in Seq(TurnRecs), NEW us, SegsInv(s, ts),
         Keeps(ts, us), \A c \in Callers : CallOK(s.calls[c], ts) /\ Kept(s.calls[c], u.calls[c])
  PROVE  SegsInv(u, us)
<1> SUFFICES ASSUME NEW c \in Callers PROVE SegOK(u.calls[c], us)
  BY DEF SegsInv
<1> DEFINE k == s.calls[c]
           l == u.calls[c]
<1>1. SegOK(k, ts) /\ CallOK(k, ts) /\ Kept(k, l) /\ k \in Calls
  BY DEF SegsInv, States
<1> HIDE DEF k, l
<1>2. ASSUME k.pc # "stream" PROVE SegOK(l, us)
  <2>1. l.pc # "stream" /\ l.segs = <<>>
    BY <1>1, <1>2 DEF SegOK, Kept
  <2>2. DOMAIN <<>> = {}
    OBVIOUS
  <2>3. QED
    BY <2>1, <2>2 DEF SegOK, OnePerMsg
<1>3. ASSUME k.pc = "stream" PROVE SegOK(l, us)
  <2>1. /\ k.turn \in 1..Len(ts) /\ k.pos \in Nat /\ k.pos <= Len(ts[k.turn].events)
    <3>1. k.turn # 0 /\ k.turn <= Len(ts) /\ k.turn \in 0..MaxTurns /\ k.pos \in Nat
      BY <1>1, <1>3 DEF CallOK, Calls
    <3>2. QED
      BY <1>1, <3>1 DEF CallOK
  <2>2. Len(ts[k.turn].events) \in Nat
    <3>1. ts[k.turn] \in TurnRecs
      BY <2>1
    <3>2. QED
      BY <3>1, EventCount
  <2>3. \A i \in 1..Len(ts[k.turn].events) : us[k.turn].events[i] = ts[k.turn].events[i]
    BY <2>1 DEF Keeps
  <2>4. \A m : Waits(ts[k.turn].events, k.pos, m) => Waits(us[k.turn].events, k.pos, m)
    <3> DEFINE evs == ts[k.turn].events
               fvs == us[k.turn].events
               n == Len(evs)
               pos == k.pos
    <3>1. n \in Nat /\ pos \in Nat /\ pos <= n /\ \A i \in 1..n : fvs[i] = evs[i]
      BY <2>1, <2>2, <2>3
    <3> HIDE DEF evs, fvs, n, pos
    <3>2. \A m : Waits(evs, pos, m) => Waits(fvs, pos, m)
      BY <3>1, WaitsKept
    <3>3. QED
      BY <3>2 DEF evs, fvs, pos
  <2>5. l.segs = k.segs /\ l.pc = "stream" /\ l.turn = k.turn /\ l.pos = k.pos
    BY <1>1, <1>3 DEF Kept
  <2>6. OnePerMsg(k.segs)
        /\ \A i \in DOMAIN k.segs : ~k.segs[i].injected => Waits(ts[k.turn].events, k.pos, k.segs[i].msg)
    BY <1>1 DEF SegOK
  <2>7. \A i \in DOMAIN k.segs : ~k.segs[i].injected => Waits(us[k.turn].events, k.pos, k.segs[i].msg)
    BY <2>4, <2>6
  <2>8. QED
    BY <2>5, <2>6, <2>7 DEF SegOK
<1>4. SegOK(l, us)
  BY <1>2, <1>3
<1>5. QED
  BY <1>4 DEF l

\* A step that keeps these and owes no more for what it lets hear.
LEMMA KeptHeard ==
  ASSUME TypeInv, HeardInv, TypeInv', asked' = asked, page'.queue = page.queue,
         Keeps(turns, turns'), \A c \in Callers : Kept(calls[c], calls'[c]), TurnsInv(turns'),
         \A m \in Msgs : IsFiniteSet(OpenSteers(Now, turns, m)) =>
            /\ IsFiniteSet(OpenSteers(Now', turns', m))
            /\ heard'[m] + Owed(Now', turns', m) <= heard[m] + Owed(Now, turns, m)
  PROVE  HeardInv'
<1>1. /\ Now \in States /\ Now.calls = calls /\ turns \in Seq(TurnRecs)
      /\ SegsInv(Now, turns) /\ QueueOnce(page.queue)
      /\ \A c \in Callers : CallOK(calls[c], turns)
  BY HeardIs, NowIs
<1>2. Now'.calls = calls'
  BY DEF Now
<1> DEFINE u == Now'
<1> HIDE DEF u
<1>3. SegsInv(u, turns')
  BY <1>1, <1>2, SegsKept DEF u
<1>4. QED
  BY <1>1, <1>3, HeardStep DEF u

\* Where steers stay and no turn opens, no more are open.
LEMMA OpenKept ==
  ASSUME NEW s, NEW u, NEW ts, NEW us, NEW m,
         \A k \in 1..Len(us) : us[k].steers # <<>> =>
            k \in 1..Len(ts) /\ us[k].steers = ts[k].steers /\ (Open(u, us, k) => Open(s, ts, k))
  PROVE  OpenSteers(u, us, m) \subseteq OpenSteers(s, ts, m)
<1>1. DOMAIN <<>> = {}
  OBVIOUS
<1>2. QED
  BY <1>1 DEF OpenSteers

\* A step after which less is owed.
LEMMA LessHeard ==
  ASSUME TypeInv, HeardInv, TypeInv', UNCHANGED <<asked, heard>>, page'.queue = page.queue,
         Keeps(turns, turns'), \A c \in Callers : Kept(calls[c], calls'[c]), TurnsInv(turns'),
         \A c \in Callers : Carries(calls'[c]) => Carries(calls[c]),
         \A k \in 1..Len(turns') : turns'[k].steers # <<>> =>
            k \in 1..Len(turns) /\ turns'[k].steers = turns[k].steers
            /\ (Open(Now', turns', k) => Open(Now, turns, k))
  PROVE  HeardInv'
<1>1. Now.calls = calls /\ Now.page = page /\ Now'.calls = calls' /\ Now'.page = page'
  BY DEF Now
<1> DEFINE u == Now'
           s == Now
           us == turns'
<1>2. \A c \in Callers : (Carries(u.calls[c]) => Carries(s.calls[c])) /\ u.calls[c].msg = s.calls[c].msg
  BY <1>1 DEF Kept
<1>3. u.page.queue = s.page.queue
  BY <1>1
<1> HIDE DEF u, s, us
<1>4. ASSUME NEW m \in Msgs, IsFiniteSet(OpenSteers(s, turns, m))
      PROVE  /\ IsFiniteSet(OpenSteers(u, us, m)) /\ Owed(u, us, m) \in Nat
             /\ Owed(s, turns, m) \in Nat /\ Owed(u, us, m) <= Owed(s, turns, m)
  <2>1. Carriers(u, m) \subseteq Carriers(s, m)
    BY <1>2 DEF Carriers
  <2>2. Queued(u, m) <= Queued(s, m)
    BY <1>3 DEF Queued
  <2>3. OpenSteers(u, us, m) \subseteq OpenSteers(s, turns, m)
    BY OpenKept DEF u, s, us
  <2>4. QED
    BY <1>4, <2>1, <2>2, <2>3, OwedLess
<1>5. heard \in [Msgs -> Nat]
  BY DEF TypeInv, CountsOK
<1>6. ASSUME NEW m \in Msgs, IsFiniteSet(OpenSteers(s, turns, m))
      PROVE  /\ IsFiniteSet(OpenSteers(u, us, m))
             /\ heard'[m] + Owed(u, us, m) <= heard[m] + Owed(s, turns, m)
  <2>1. heard'[m] = heard[m] /\ heard[m] \in Nat
    BY <1>5
  <2>2. QED
    BY <1>4, <1>6, <2>1
<1>7. \A m \in Msgs : IsFiniteSet(OpenSteers(Now, turns, m)) =>
            /\ IsFiniteSet(OpenSteers(Now', turns', m))
            /\ heard'[m] + Owed(Now', turns', m) <= heard[m] + Owed(Now, turns, m)
  BY <1>6 DEF u, s, us
<1>8. QED
  BY <1>7, KeptHeard

\* The turns themselves.
LEMMA SameKeeps ==
  ASSUME NEW ts \in Seq(TurnRecs)
  PROVE  Keeps(ts, ts)
<1>1. \A k \in 1..Len(ts) : Len(ts[k].events) \in Nat
  <2> SUFFICES ASSUME NEW k \in 1..Len(ts) PROVE Len(ts[k].events) \in Nat
    OBVIOUS
  <2>1. ts[k] \in TurnRecs
    OBVIOUS
  <2>2. QED
    BY <2>1, EventCount
<1>2. QED
  BY <1>1 DEF Keeps

\* The events go on, and the last turn becomes r.
Longer(a, b) == Len(a) <= Len(b) /\ \A i \in 1..Len(a) : b[i] = a[i]

\* The last turn becomes r,
LastBecomes(ts, us, r) == us = [ts EXCEPT ![Len(ts)] = r]

\* and no other does.
LastOnly(ts, us, r) ==
  /\ Len(us) = Len(ts) /\ us[Len(ts)] = r
  /\ \A k \in 1..Len(ts) : k # Len(ts) => us[k] = ts[k]

\* The last turn goes on.
LEMMA LastKeeps ==
  ASSUME NEW ts \in Seq(TurnRecs), ts # <<>>, NEW r \in TurnRecs,
         Longer(Last(ts).events, r.events),
         TurnsInv(ts), Heeded(r), NEW us, LastBecomes(ts, us, r)
  PROVE  Keeps(ts, us) /\ TurnsInv(us) /\ LastOnly(ts, us, r)
<1> DEFINE n == Len(ts)
<1>0. /\ Len(Last(ts).events) <= Len(r.events)
      /\ \A i \in 1..Len(Last(ts).events) : r.events[i] = Last(ts).events[i]
      /\ us = [ts EXCEPT ![Len(ts)] = r]
  BY DEF Longer, LastBecomes
<1>1. n \in Nat \ {0} /\ n \in 1..n /\ Last(ts) = ts[n]
  BY DEF Last
<1>2. us \in Seq(TurnRecs) /\ Len(us) = n /\ us[n] = r
      /\ \A k \in 1..n : k # n => us[k] = ts[k]
  BY <1>0, <1>1
<1>3. ASSUME NEW k \in 1..n
      PROVE  /\ Len(ts[k].events) <= Len(us[k].events)
             /\ \A i \in 1..Len(ts[k].events) : us[k].events[i] = ts[k].events[i]
  <2>1. ts[k] \in TurnRecs
    OBVIOUS
  <2>2. Len(ts[k].events) \in Nat
    BY <2>1, EventCount
  <2> HIDE DEF n
  <2>3. CASE k = n
    BY <1>0, <1>1, <1>2, <2>3
  <2>4. CASE k # n
    BY <1>2, <2>2, <2>4
  <2>5. QED
    BY <2>3, <2>4
<1>4. Keeps(ts, us)
  <2>0. Len(us) = n
    BY <1>2
  <2>4. n \in Nat
    BY <1>1
  <2>5. \A x \in Nat : x <= x
    OBVIOUS
  <2>6. n <= n
    BY <2>4, <2>5, Zenon
  <2>1. Len(ts) <= Len(us)
    BY <2>0, <2>6, Zenon
  <2>2. \A k \in 1..Len(ts) :
          /\ Len(ts[k].events) <= Len(us[k].events)
          /\ \A i \in 1..Len(ts[k].events) : us[k].events[i] = ts[k].events[i]
    BY <1>3
  <2>3. QED
    BY <1>2, <2>1, <2>2, Zenon DEF Keeps
<1>5. TurnsInv(us)
  <2>1. ASSUME NEW k \in 1..n PROVE (us[k].claimed => k = n) /\ Heeded(us[k])
    <3>1. CASE k = n
      BY <1>2, <3>1
    <3>2. CASE k # n
      BY <1>2, <3>2 DEF TurnsInv
    <3>3. QED
      BY <3>1, <3>2
  <2>2. QED
    BY <1>2, <2>1 DEF TurnsInv
<1>6. QED
  BY <1>2, <1>4, <1>5 DEF LastOnly

\* What has been shown stays shown.
LEMMA HeededOn ==
  ASSUME NEW t, NEW r, Heeded(t), NEW n \in Nat, n = Len(t.events), DOMAIN t.events = 1..n,
         NEW p \in Nat, p = Len(r.events), n <= p, DOMAIN r.events = 1..p,
         \A i \in 1..n : r.events[i] = t.events[i],
         Range(t.steers) \subseteq Range(r.steers),
         \A i \in 1..p, m \in Msgs : i > n /\ IsUser(r.events[i], m, FALSE) => m \in Range(r.steers)
  PROVE  Heeded(r)
<1> SUFFICES ASSUME NEW i \in 1..p, NEW m \in Msgs, IsUser(r.events[i], m, FALSE),
                    m \notin Range(r.steers)
             PROVE  \E j \in i..p : IsUser(r.events[j], m, TRUE)
  BY DEF Heeded
<1>1. i \in 1..n
  <2>1. ~(i > n)
    OBVIOUS
  <2>2. QED
    BY <2>1
<1>2. IsUser(t.events[i], m, FALSE) /\ m \notin Range(t.steers)
  BY <1>1
<1>3. PICK j \in i..n : IsUser(t.events[j], m, TRUE)
  BY <1>1, <1>2 DEF Heeded
<1>4. j \in i..p /\ j \in 1..n
  BY <1>1
<1>5. IsUser(r.events[j], m, TRUE)
  BY <1>3, <1>4
<1>6. QED
  BY <1>4, <1>5

\* One call is answered, and no turn opens.
LEMMA CallHeard ==
  ASSUME TypeInv, HeardInv, TypeInv', UNCHANGED <<asked, heard>>, page'.queue = page.queue,
         NEW c \in Callers, NEW k \in Calls, calls' = [calls EXCEPT ![c] = k],
         Kept(calls[c], k), Carries(k) => Carries(calls[c]),
         Alive(k) => k.turn \in {0, calls[c].turn} \/ turns[k.turn].claimed,
         Keeps(turns, turns'), TurnsInv(turns'),
         \A n \in 1..Len(turns') : turns'[n].steers # <<>> =>
            /\ n \in 1..Len(turns) /\ turns'[n].steers = turns[n].steers
            /\ turns'[n].claimed => turns[n].claimed
  PROVE  HeardInv'
<1>1. /\ Now.calls = calls /\ Now'.calls = calls' /\ calls \in [Callers -> Calls]
  BY NowIs DEF Now
<1>2. calls'[c] = k /\ \A d \in Callers \ {c} : calls'[d] = calls[d]
  BY <1>1
<1>3. \A d \in Callers : Kept(calls[d], calls'[d]) /\ (Carries(calls'[d]) => Carries(calls[d]))
  BY <1>2 DEF Kept
<1>4. ASSUME NEW n \in 1..Len(turns'), turns'[n].steers # <<>>
      PROVE  n \in 1..Len(turns) /\ turns'[n].steers = turns[n].steers
             /\ (Open(Now', turns', n) => Open(Now, turns, n))
  <2> DEFINE u == Now'
             us == turns'
  <2>1. n \in 1..Len(turns) /\ us[n].steers = turns[n].steers /\ (us[n].claimed => turns[n].claimed)
    BY <1>4
  <2>2. u.calls[c] = k /\ \A d \in Callers \ {c} : u.calls[d] = calls[d]
    BY <1>1, <1>2
  <2> HIDE DEF u, us
  <2>3. ASSUME ReadBy(u, n) PROVE Open(Now, turns, n)
    <3>1. PICK d \in Callers : Alive(u.calls[d]) /\ u.calls[d].turn = n
      BY <2>3 DEF ReadBy
    <3>2. CASE d # c
      BY <1>1, <2>2, <3>1, <3>2 DEF Open, ReadBy
    <3>3. CASE d = c
      <4>1. Alive(k) /\ k.turn = n /\ n # 0
        BY <2>1, <2>2, <3>1, <3>3
      <4>2. Alive(calls[c])
        BY <4>1 DEF Alive, Kept
      <4>3. calls[c].turn = n \/ turns[n].claimed
        BY <4>1
      <4>4. QED
        BY <1>1, <4>2, <4>3 DEF Open, ReadBy
    <3>4. QED
      BY <3>2, <3>3
  <2>4. Open(u, us, n) => Open(Now, turns, n)
    BY <2>1, <2>3 DEF Open
  <2>5. QED
    BY <2>1, <2>4 DEF u, us
<1>5. QED
  BY <1>3, <1>4, LessHeard

\* No call is answered, and no turn opens.
LEMMA TurnHeard ==
  ASSUME TypeInv, HeardInv, TypeInv', UNCHANGED <<asked, heard, calls>>, page'.queue = page.queue,
         Keeps(turns, turns'), TurnsInv(turns'),
         \A n \in 1..Len(turns') : turns'[n].steers # <<>> =>
            /\ n \in 1..Len(turns) /\ turns'[n].steers = turns[n].steers
            /\ turns'[n].claimed => turns[n].claimed
  PROVE  HeardInv'
<1>1. Now.calls = calls /\ Now'.calls = calls
  BY DEF Now
<1>2. \A d \in Callers : Kept(calls[d], calls'[d]) /\ (Carries(calls'[d]) => Carries(calls[d]))
  BY DEF Kept
<1>3. ASSUME NEW n \in 1..Len(turns'), turns'[n].steers # <<>>
      PROVE  n \in 1..Len(turns) /\ turns'[n].steers = turns[n].steers
             /\ (Open(Now', turns', n) => Open(Now, turns, n))
  <2>1. n \in 1..Len(turns) /\ turns'[n].steers = turns[n].steers
        /\ (turns'[n].claimed => turns[n].claimed)
    BY <1>3
  <2>2. ReadBy(Now', n) => ReadBy(Now, n)
    BY <1>1 DEF ReadBy
  <2>3. QED
    BY <2>1, <2>2 DEF Open
<1>4. QED
  BY <1>2, <1>3, LessHeard

\* The call gets an answer other than a stream.
LEMMA NetHeard ==
  ASSUME TypeInv, HeardInv, TypeInv', NEW c \in Callers, NEW net \in Nets \ {"open"},
         calls' = [calls EXCEPT ![c].net = net], page'.queue = page.queue,
         UNCHANGED <<turns, asked, heard>>,
         Carries([calls[c] EXCEPT !.net = net]) => Carries(calls[c])
  PROVE  HeardInv'
<1> DEFINE k == [calls[c] EXCEPT !.net = net]
<1>1. /\ calls[c] \in Calls /\ calls \in [Callers -> Calls] /\ turns \in Seq(TurnRecs)
      /\ TurnsInv(turns)
  BY CallIs, NowIs, HeardIs
<1>2. k \in Calls /\ Kept(calls[c], k) /\ k.turn = calls[c].turn
  BY <1>1 DEF Calls, Kept
<1>3. calls' = [calls EXCEPT ![c] = k] /\ (Carries(k) => Carries(calls[c]))
  BY <1>1
<1> HIDE DEF k
<1>4. Keeps(turns, turns')
  BY <1>1, SameKeeps
<1>5. Alive(k) => k.turn \in {0, calls[c].turn} \/ turns[k.turn].claimed
  BY <1>2
<1>6. QED
  BY <1>1, <1>2, <1>3, <1>4, <1>5, CallHeard

\* Turns after a step.
LEMMA TurnFields ==
  ASSUME NEW t \in TurnRecs
  PROVE  /\ Told(t).steers = t.steers /\ Told(t).claimed = t.claimed /\ Told(t).events = t.events
         /\ LetGo(t).steers = t.steers /\ LetGo(t).claimed = FALSE /\ LetGo(t).events = t.events
BY DEF TurnRecs, Told, LetGo

\* A turn that is done,
LEMMA DoneFields ==
  ASSUME NEW t \in TurnRecs, NEW events
  PROVE  /\ Done(t, events).steers = t.steers /\ Done(t, events).claimed = t.claimed
         /\ Done(t, events).events = events
BY DEF TurnRecs, Done

\* and one that has other steers.
LEMMA SteeredFields ==
  ASSUME NEW t \in TurnRecs, NEW events, NEW steers
  PROVE  /\ Steered(t, steers, events).steers = steers
         /\ Steered(t, steers, events).claimed = t.claimed
         /\ Steered(t, steers, events).events = events
BY DEF TurnRecs, Steered

\* The last turn, as the invariant has it.
LEMMA LastHeard ==
  ASSUME TypeInv, HeardInv, turns # <<>>
  PROVE  /\ Last(turns) \in TurnRecs /\ Last(turns) = turns[Len(turns)] /\ Heeded(Last(turns))
         /\ Last(turns).events \in Seq(Events) /\ Last(turns).steers \in Seq(Msgs)
         /\ Len(Last(turns).events) \in Nat
         /\ DOMAIN Last(turns).events = 1..Len(Last(turns).events)
         /\ Len(turns) \in 1..Len(turns) /\ turns \in Seq(TurnRecs) /\ TurnsInv(turns)
<1>1. /\ Last(turns) \in TurnRecs /\ Last(turns) = turns[Len(turns)]
      /\ Len(turns) \in 1..Len(turns) /\ turns \in Seq(TurnRecs) /\ TurnsInv(turns)
  BY LastIs, HeardIs
<1> DEFINE t == Last(turns)
<1>2. Heeded(t)
  BY <1>1 DEF TurnsInv
<1> HIDE DEF t
<1>3. t \in TurnRecs
  BY <1>1 DEF t
<1>4. t.events \in Seq(Events) /\ t.steers \in Seq(Msgs)
  BY <1>3 DEF TurnRecs
<1>5. Len(t.events) \in Nat /\ DOMAIN t.events = 1..Len(t.events)
  BY <1>4
<1>6. QED
  BY <1>1, <1>2, <1>4, <1>5 DEF t

\* The last turn becomes r, which holds the same events and steers.
LEMMA SameEvents ==
  ASSUME TypeInv, HeardInv, turns # <<>>, NEW r \in TurnRecs,
         r.events = Last(turns).events, r.steers = Last(turns).steers,
         r.claimed => Last(turns).claimed, turns' = [turns EXCEPT ![Len(turns)] = r]
  PROVE  /\ Keeps(turns, turns') /\ TurnsInv(turns')
         /\ \A n \in 1..Len(turns') : turns'[n].steers # <<>> =>
              /\ n \in 1..Len(turns) /\ turns'[n].steers = turns[n].steers
              /\ turns'[n].claimed => turns[n].claimed
<1> DEFINE t == Last(turns)
           us == turns'
<1>1. /\ t \in TurnRecs /\ t = turns[Len(turns)] /\ Heeded(t) /\ Len(t.events) \in Nat
      /\ Len(turns) \in 1..Len(turns) /\ turns \in Seq(TurnRecs) /\ TurnsInv(turns)
  BY LastHeard
<1>2. r.events = t.events /\ r.steers = t.steers /\ (r.claimed => t.claimed)
      /\ us = [turns EXCEPT ![Len(turns)] = r] /\ t = Last(turns)
  OBVIOUS
<1> HIDE DEF t, us
<1>3. Heeded(r)
  BY <1>1, <1>2 DEF Heeded
<1>4. Longer(t.events, r.events) /\ LastBecomes(turns, us, r)
  BY <1>1, <1>2 DEF Longer, LastBecomes
<1>5. Keeps(turns, us) /\ TurnsInv(us) /\ LastOnly(turns, us, r)
  <2>1. Longer(Last(turns).events, r.events) /\ turns \in Seq(TurnRecs) /\ TurnsInv(turns)
    BY <1>1, <1>2, <1>4
  <2>2. QED
    BY <1>3, <1>4, <2>1, LastKeeps
<1>6. ASSUME NEW n \in 1..Len(us)
      PROVE  /\ n \in 1..Len(turns) /\ us[n].steers = turns[n].steers
             /\ us[n].claimed => turns[n].claimed
  <2>1. n \in 1..Len(turns)
    BY <1>5 DEF LastOnly
  <2>2. CASE n = Len(turns)
    BY <1>1, <1>2, <1>5, <2>1, <2>2 DEF LastOnly
  <2>3. CASE n # Len(turns)
    BY <1>5, <2>1, <2>3 DEF LastOnly
  <2>4. QED
    BY <2>2, <2>3
<1>7. QED
  BY <1>5, <1>6 DEF us

\* The server answers a cancel,
LEMMA ServeCancelHeard ==
  ASSUME TypeInv, HeardInv, NEW c \in Callers, ServeCancel(c)
  PROVE  HeardInv'
<1>1. /\ UNCHANGED <<log, page, cursor, faults, asked, heard>> /\ TypeInv'
      /\ calls[c] \in Calls /\ calls \in [Callers -> Calls]
      /\ calls[c].pc \in {"cancel", "recancel", "stop"}
  BY CallIs, NowIs, ServeCancelType DEF ServeCancel
<1>2. CASE /\ Running /\ turns' = [turns EXCEPT ![Len(turns)].cancel = TRUE]
           /\ calls' = [calls EXCEPT ![c].net = "accepted", ![c].turn = Len(turns)]
  <2> DEFINE t == Last(turns)
             r == Told(t)
             k == Answered(calls[c], "accepted", Len(turns))
  <2>1. /\ turns # <<>> /\ t \in TurnRecs /\ t = turns[Len(turns)]
        /\ t.events \in Seq(Events) /\ t.steers \in Seq(Msgs) /\ turns \in Seq(TurnRecs)
    BY <1>2, LastHeard DEF Running, Claimed
  <2>2. turns' = [turns EXCEPT ![Len(turns)] = r]
    BY <1>2, <2>1 DEF Told
  <2>3. r \in TurnRecs /\ r.events = t.events /\ r.steers = t.steers /\ r.claimed = t.claimed
    BY <2>1, ToldIs, TurnFields
  <2>4. Len(turns) \in 1..MaxTurns
    BY <2>1, LastIs
  <2>5. k \in Calls /\ k.pc = calls[c].pc /\ k.aborted = calls[c].aborted /\ k.msg = calls[c].msg
    BY <1>1, <2>4, CallTurn DEF Nets
  <2>6. calls' = [calls EXCEPT ![c] = k]
    BY <1>1, <1>2 DEF Answered
  <2>7. k.segs = calls[c].segs
    BY <1>1 DEF Answered, Calls
  <2> HIDE DEF r, k
  <2>8. /\ Keeps(turns, turns') /\ TurnsInv(turns')
        /\ \A n \in 1..Len(turns') : turns'[n].steers # <<>> =>
              /\ n \in 1..Len(turns) /\ turns'[n].steers = turns[n].steers
              /\ turns'[n].claimed => turns[n].claimed
    BY <2>1, <2>2, <2>3, SameEvents
  <2>9. Kept(calls[c], k) /\ (Carries(k) => Carries(calls[c])) /\ ~Alive(k)
    BY <1>1, <2>5, <2>7 DEF Kept, Carries, Alive
  <2>10. QED
    BY <1>1, <2>5, <2>6, <2>8, <2>9, CallHeard
<1>3. CASE calls' = [calls EXCEPT ![c].net = "cancelled"] /\ turns' = turns
  <2>1. Carries([calls[c] EXCEPT !.net = "cancelled"]) => Carries(calls[c])
    BY <1>1 DEF Carries, Calls
  <2>2. QED
    BY <1>1, <1>3, <2>1, NetHeard DEF Nets
<1>4. QED
  BY <1>2, <1>3 DEF ServeCancel

\* an attach, with a call that reads the last turn,
LEMMA ServeAttachHeard ==
  ASSUME TypeInv, HeardInv, NEW c \in Callers, ServeAttach(c)
  PROVE  HeardInv'
<1>1. /\ UNCHANGED <<log, turns, page, cursor, faults, asked, heard>> /\ TypeInv'
      /\ calls[c] \in Calls /\ calls \in [Callers -> Calls] /\ cursor \in Nat
      /\ calls[c].pc = "open"
  BY CallIs, NowIs, ServeAttachType DEF ServeAttach, States
<1>2. CASE Claimed
  <2> DEFINE pos == IF cursor <= Len(Last(turns).events) THEN cursor ELSE 0
             k == Opened(calls[c], "open", Len(turns), pos)
  <2>1. /\ Last(turns) = turns[Len(turns)] /\ turns # <<>> /\ Last(turns).claimed
        /\ Len(turns) \in 1..MaxTurns /\ turns \in Seq(TurnRecs) /\ TurnsInv(turns)
    BY <1>2, LastIs, LastHeard DEF Claimed
  <2>2. pos \in Nat
    BY <1>1
  <2>3. calls' = [calls EXCEPT ![c] = k]
    BY <1>1, <1>2 DEF ServeAttach, Opened
  <2> HIDE DEF pos
  <2>4. k \in Calls /\ k.pc = "open" /\ k.aborted = calls[c].aborted
        /\ k.turn = Len(turns) /\ k.msg = calls[c].msg
    <3>1. "open" \in Nets /\ Len(turns) \in 0..MaxTurns
      BY <2>1 DEF Nets
    <3>2. QED
      BY <1>1, <2>2, <3>1, CallTurn
  <2>5. k.segs = calls[c].segs
    BY <1>1 DEF Opened, Calls
  <2> HIDE DEF k
  <2>6. Kept(calls[c], k) /\ ~Carries(k) /\ turns[k.turn].claimed
    BY <1>1, <2>1, <2>4, <2>5 DEF Kept, Carries
  <2>7. Keeps(turns, turns') /\ TurnsInv(turns')
    BY <1>1, <2>1, SameKeeps
  <2>8. QED
    BY <1>1, <2>3, <2>4, <2>6, <2>7, CallHeard
<1>3. CASE ~Claimed
  <2>1. calls' = [calls EXCEPT ![c].net = "inactive"]
    BY <1>1, <1>3 DEF ServeAttach
  <2>2. Carries([calls[c] EXCEPT !.net = "inactive"]) => Carries(calls[c])
    BY <1>1 DEF Carries, Calls
  <2>3. QED
    BY <1>1, <2>1, <2>2, NetHeard DEF Nets
<1>4. QED
  BY <1>2, <1>3

\* and a read of the transcript.
LEMMA ReadHeard ==
  ASSUME TypeInv, HeardInv, ServeRead
  PROVE  HeardInv'
<1>1. /\ UNCHANGED <<log, turns, cursor, calls, faults, asked, heard>> /\ TypeInv'
      /\ page'.queue = page.queue /\ turns \in Seq(TurnRecs) /\ TurnsInv(turns)
  <2>1. page \in Pages /\ page' = [page EXCEPT !.read = [st |-> "answered", log |-> log]]
    BY NowIs DEF ServeRead
  <2>2. page'.queue = page.queue
    BY <2>1 DEF Pages
  <2>3. QED
    BY <2>2, ReadType, HeardIs DEF ServeRead
<1>2. Keeps(turns, turns') /\ TurnsInv(turns')
  BY <1>1, SameKeeps
<1>3. QED
  BY <1>1, <1>2, TurnHeard

\* The turn ends,
LEMMA EndsHeard ==
  ASSUME TypeInv, HeardInv, TurnEnds \/ TurnFails
  PROVE  HeardInv'
<1> DEFINE t == Last(turns)
<1>0. PICK st \in Statuses : EndStep(st)
  BY EndsAre
<1>a. st \in {"complete", "cancelled", "error"}
  BY DEF Statuses
<1> DEFINE e == Event("done", st, FALSE)
           events == Append(t.events, e)
           r == Done(t, events)
<1>1. /\ turns # <<>> /\ t \in TurnRecs /\ t = turns[Len(turns)] /\ Heeded(t)
      /\ t.events \in Seq(Events) /\ t.steers \in Seq(Msgs) /\ turns \in Seq(TurnRecs)
      /\ Len(t.events) \in Nat /\ DOMAIN t.events = 1..Len(t.events)
      /\ TurnsInv(turns) /\ Len(turns) \in 1..Len(turns)
      /\ UNCHANGED <<page, cursor, calls, asked, heard>> /\ TypeInv'
  BY <1>0, LastHeard, EndsType DEF Running, Claimed, EndStep
<1>2. turns' = [turns EXCEPT ![Len(turns)] = r]
  <2>1. turns' = [turns EXCEPT ![Len(turns)].ended = TRUE, ![Len(turns)].events = Append(@, e)]
    BY <1>0 DEF EndStep
  <2> HIDE DEF e
  <2>2. QED
    BY <1>1, <2>1 DEF TurnRecs, Done
<1>3. e \in Events /\ e.type = "done"
  BY <1>a DEF Event, Events
<1>b. t = Last(turns)
  OBVIOUS
<1> HIDE DEF e, t
<1>4. /\ events \in Seq(Events) /\ Len(events) = Len(t.events) + 1
      /\ DOMAIN events = 1..Len(events)
      /\ \A i \in 1..Len(t.events) : events[i] = t.events[i]
      /\ events[Len(t.events) + 1] = e
  BY <1>1, <1>3
<1> HIDE DEF events
<1>5. r \in TurnRecs /\ r.events = events /\ r.steers = t.steers /\ r.claimed = t.claimed
  <2>1. t \in TurnRecs /\ events \in Seq(Events) /\ t.steers \in Seq(Msgs)
    BY <1>1, <1>4
  <2>2. r \in TurnRecs
    BY <2>1, DoneIs
  <2>3. QED
    BY <2>1, <2>2, DoneFields
<1> HIDE DEF r
<1>6. Heeded(r)
  <2>1. ASSUME NEW i \in 1..Len(events), NEW m \in Msgs, i > Len(t.events), IsUser(events[i], m, FALSE)
        PROVE  m \in Range(r.steers)
    <3>1. i = Len(t.events) + 1
      BY <1>1, <1>4, <2>1
    <3>2. events[i].type = "done"
      BY <1>3, <1>4, <3>1
    <3>3. QED
      BY <2>1, <3>2 DEF IsUser
  <2>2. Len(t.events) <= Len(events) /\ Len(events) \in Nat
    BY <1>1, <1>4
  <2>3. Range(t.steers) \subseteq Range(r.steers)
    BY <1>5
  <2> DEFINE n == Len(t.events)
             p == Len(events)
  <2>4. /\ n \in Nat /\ n = Len(t.events) /\ DOMAIN t.events = 1..n
        /\ p \in Nat /\ p = Len(r.events) /\ n <= p /\ DOMAIN r.events = 1..p
        /\ \A i \in 1..n : r.events[i] = t.events[i]
        /\ \A i \in 1..p, m \in Msgs : i > n /\ IsUser(r.events[i], m, FALSE) => m \in Range(r.steers)
    BY <1>1, <1>4, <1>5, <2>1, <2>2
  <2> HIDE DEF n, p
  <2>5. QED
    BY <1>1, <2>3, <2>4, HeededOn
<1> DEFINE us == turns'
<1>7. us = [turns EXCEPT ![Len(turns)] = r]
  BY <1>2
<1> HIDE DEF us
<1>8. Longer(t.events, r.events) /\ LastBecomes(turns, us, r)
  BY <1>1, <1>4, <1>5, <1>7 DEF Longer, LastBecomes
<1>9. Keeps(turns, us) /\ TurnsInv(us) /\ LastOnly(turns, us, r)
  <2>1. /\ Longer(Last(turns).events, r.events) /\ turns \in Seq(TurnRecs) /\ TurnsInv(turns)
        /\ turns # <<>> /\ r \in TurnRecs
    BY <1>b, <1>1, <1>5, <1>8
  <2>2. QED
    BY <1>6, <1>8, <2>1, LastKeeps
<1>10. ASSUME NEW n \in 1..Len(us)
       PROVE  /\ n \in 1..Len(turns) /\ us[n].steers = turns[n].steers
              /\ us[n].claimed => turns[n].claimed
  <2>1. n \in 1..Len(turns)
    BY <1>9 DEF LastOnly
  <2>2. CASE n = Len(turns)
    BY <1>1, <1>5, <1>9, <2>1, <2>2 DEF LastOnly
  <2>3. CASE n # Len(turns)
    BY <1>9, <2>1, <2>3 DEF LastOnly
  <2>4. QED
    BY <2>2, <2>3
<1>11. QED
  BY <1>1, <1>9, <1>10, TurnHeard DEF us

\* and is released.
LEMMA ReleasesHeard ==
  ASSUME TypeInv, HeardInv, TurnReleases
  PROVE  HeardInv'
<1> DEFINE t == Last(turns)
           r == LetGo(t)
<1>1. /\ turns # <<>> /\ t \in TurnRecs /\ t = turns[Len(turns)]
      /\ t.events \in Seq(Events) /\ t.steers \in Seq(Msgs) /\ turns \in Seq(TurnRecs)
      /\ UNCHANGED <<log, page, cursor, calls, faults, asked, heard>> /\ TypeInv'
  BY LastHeard, ReleasesType DEF Claimed, TurnReleases
<1>2. turns' = [turns EXCEPT ![Len(turns)] = r]
  <2>1. turns' = [turns EXCEPT ![Len(turns)].claimed = FALSE]
    BY DEF TurnReleases
  <2>2. QED
    BY <1>1, <2>1 DEF LetGo
<1>3. r \in TurnRecs /\ r.events = t.events /\ r.steers = t.steers /\ ~r.claimed
  BY <1>1, ToldIs, TurnFields
<1> HIDE DEF r
<1>4. /\ Keeps(turns, turns') /\ TurnsInv(turns')
      /\ \A n \in 1..Len(turns') : turns'[n].steers # <<>> =>
              /\ n \in 1..Len(turns) /\ turns'[n].steers = turns[n].steers
              /\ turns'[n].claimed => turns[n].claimed
  BY <1>1, <1>2, <1>3, SameEvents
<1>5. QED
  BY <1>1, <1>4, TurnHeard

\* A new turn.
NextTurn(ts, us, r) == us = Append(ts, r)

\* which is one turn more,
NewLast(ts, us, r) ==
  /\ Len(us) = Len(ts) + 1 /\ us[Len(ts) + 1] = r /\ \A k \in 1..Len(ts) : us[k] = ts[k]

\* and keeps the others.
LEMMA AppendKeeps ==
  ASSUME NEW ts \in Seq(TurnRecs), TurnsInv(ts), ~(ts # <<>> /\ Last(ts).claimed),
         NEW r \in TurnRecs, Heeded(r), NEW us, NextTurn(ts, us, r)
  PROVE  Keeps(ts, us) /\ TurnsInv(us) /\ NewLast(ts, us, r)
<1> DEFINE n == Len(ts)
<1>1. n \in Nat /\ us = Append(ts, r)
  BY DEF NextTurn
<1>2. us \in Seq(TurnRecs) /\ Len(us) = n + 1 /\ us[n + 1] = r /\ \A k \in 1..n : us[k] = ts[k]
  BY <1>1
<1>3. ASSUME NEW k \in 1..n
      PROVE  /\ Len(ts[k].events) <= Len(us[k].events)
             /\ \A i \in 1..Len(ts[k].events) : us[k].events[i] = ts[k].events[i]
  <2>1. ts[k] \in TurnRecs
    OBVIOUS
  <2>2. Len(ts[k].events) \in Nat
    BY <2>1, EventCount
  <2>3. us[k] = ts[k]
    BY <1>2
  <2>4. QED
    BY <2>2, <2>3
<1>4. ASSUME NEW k \in 1..n PROVE ~ts[k].claimed /\ Heeded(ts[k])
  <2>1. ts[k].claimed => k = n
    BY DEF TurnsInv
  <2>2. ts # <<>>
    BY <1>1
  <2>3. ~ts[n].claimed
    BY <2>2 DEF Last
  <2>4. QED
    BY <2>1, <2>3 DEF TurnsInv
<1>5. Keeps(ts, us)
  <2>1. n \in Nat /\ Len(us) = n + 1
    BY <1>1, <1>2
  <2>2. n <= n + 1
    BY <2>1
  <2>3. Len(ts) <= Len(us)
    BY <2>1, <2>2, Zenon
  <2>4. \A k \in 1..Len(ts) :
          /\ Len(ts[k].events) <= Len(us[k].events)
          /\ \A i \in 1..Len(ts[k].events) : us[k].events[i] = ts[k].events[i]
    BY <1>3
  <2>5. QED
    BY <1>2, <2>3, <2>4, Zenon DEF Keeps
<1>6. TurnsInv(us)
  <2>1. ASSUME NEW k \in 1..(n + 1) PROVE (us[k].claimed => k = n + 1) /\ Heeded(us[k])
    <3>1. CASE k = n + 1
      BY <1>2, <3>1
    <3>2. CASE k # n + 1
      <4>1. k \in 1..n
        BY <1>1, <3>2
      <4>2. QED
        BY <1>2, <1>4, <4>1
    <3>3. QED
      BY <3>1, <3>2
  <2>2. QED
    BY <1>2, <2>1 DEF TurnsInv
<1>7. QED
  BY <1>2, <1>5, <1>6 DEF NewLast

\* A turn begins with nothing but its message.
LEMMA BegunHeard ==
  ASSUME TypeInv, HeardInv, ~Claimed, NEW m \in MaybeMsg, NEW replace, Begun(m, replace)
  PROVE  /\ Keeps(turns, turns') /\ TurnsInv(turns') /\ Len(turns') = Len(turns) + 1
         /\ \A n \in 1..Len(turns') : turns'[n].steers # <<>> =>
              n \in 1..Len(turns) /\ turns'[n] = turns[n]
<1> DEFINE e == Event("meta", m, FALSE)
           r == [msg |-> m, events |-> <<e>>,
                 steers |-> <<>>, cancel |-> FALSE, ended |-> FALSE, claimed |-> TRUE]
           us == turns'
<1>1. turns \in Seq(TurnRecs) /\ TurnsInv(turns)
  BY HeardIs
<1>2. us = Append(turns, r)
  BY DEF Begun
<1>3. e \in Events /\ e.type = "meta"
  BY DEF Event, Events
<1> HIDE DEF e
<1>4. <<e>> \in Seq(Events) /\ <<>> \in Seq(Msgs)
  BY <1>3, OneElement
<1>5. r \in TurnRecs
  BY <1>4 DEF TurnRecs
<1>6. r.events = <<e>> /\ r.steers = <<>>
  OBVIOUS
<1> HIDE DEF r, us
<1>7. Heeded(r)
  <2>1. DOMAIN <<e>> = {1} /\ <<e>>[1] = e
    OBVIOUS
  <2>2. \A i \in DOMAIN r.events : r.events[i].type = "meta"
    BY <1>3, <1>6, <2>1
  <2>3. QED
    BY <2>2 DEF Heeded, IsUser
<1>8. ~(turns # <<>> /\ Last(turns).claimed)
  BY DEF Claimed
<1>9. NextTurn(turns, us, r)
  BY <1>2 DEF NextTurn
<1>10. Keeps(turns, us) /\ TurnsInv(us) /\ NewLast(turns, us, r)
  BY <1>1, <1>5, <1>7, <1>8, <1>9, AppendKeeps
<1>11. Len(us) = Len(turns) + 1 /\ us[Len(turns) + 1] = r /\ \A k \in 1..Len(turns) : us[k] = turns[k]
  BY <1>10 DEF NewLast
<1>12. ASSUME NEW n \in 1..Len(us), us[n].steers # <<>>
       PROVE  n \in 1..Len(turns) /\ us[n] = turns[n]
  <2>1. n # Len(turns) + 1
    BY <1>6, <1>11, <1>12
  <2>2. Len(turns) \in Nat
    BY <1>1
  <2>3. n \in 1..Len(turns)
    BY <1>11, <2>1, <2>2
  <2>4. QED
    BY <1>11, <2>3
<1>13. QED
  BY <1>10, <1>11, <1>12 DEF us

\* It was sent from another tab.
LEMMA OtherTabHeard ==
  ASSUME TypeInv, HeardInv, OtherTab
  PROVE  HeardInv'
<1>1. ~Claimed /\ Begun(None, None) /\ None \in MaybeMsg
      /\ UNCHANGED <<page, cursor, calls, faults, asked, heard>> /\ TypeInv'
  BY OtherTabType DEF OtherTab, MaybeMsg
<1>2. /\ Keeps(turns, turns') /\ TurnsInv(turns')
      /\ \A n \in 1..Len(turns') : turns'[n].steers # <<>> =>
              n \in 1..Len(turns) /\ turns'[n] = turns[n]
  BY <1>1, BegunHeard
<1>3. \A n \in 1..Len(turns') : turns'[n].steers # <<>> =>
            /\ n \in 1..Len(turns) /\ turns'[n].steers = turns[n].steers
            /\ turns'[n].claimed => turns[n].claimed
  BY <1>2
<1>4. QED
  BY <1>1, <1>2, <1>3, TurnHeard

\* One call less owes it.
LEMMA OwedDrop ==
  ASSUME NEW s, NEW u, NEW ts, NEW us, NEW m, IsFiniteSet(OpenSteers(s, ts, m)),
         NEW c \in Carriers(s, m), Carriers(u, m) \subseteq Carriers(s, m) \ {c},
         Queued(u, m) <= Queued(s, m), OpenSteers(u, us, m) \subseteq OpenSteers(s, ts, m)
  PROVE  /\ IsFiniteSet(OpenSteers(u, us, m)) /\ Owed(u, us, m) \in Nat
         /\ Owed(s, ts, m) \in Nat /\ Owed(u, us, m) + 1 <= Owed(s, ts, m)
<1>1. IsFiniteSet(Carriers(s, m))
  BY CarriersFinite
<1>2. Cardinality(Carriers(u, m)) \in Nat /\ Cardinality(Carriers(s, m)) \in Nat
      /\ Cardinality(Carriers(u, m)) + 1 <= Cardinality(Carriers(s, m))
  BY <1>1, CardDrop
<1>3. /\ IsFiniteSet(OpenSteers(u, us, m))
      /\ Cardinality(OpenSteers(u, us, m)) \in Nat /\ Cardinality(OpenSteers(s, ts, m)) \in Nat
      /\ Cardinality(OpenSteers(u, us, m)) <= Cardinality(OpenSteers(s, ts, m))
  BY CardLess
<1>4. Queued(u, m) \in {0, 1} /\ Queued(s, m) \in {0, 1}
  BY DEF Queued
<1>5. QED
  BY <1>2, <1>3, <1>4 DEF Owed

\* The server answers a POST: what the call carried is heard.
LEMMA PostHeard ==
  ASSUME TypeInv, HeardInv, NEW c \in Callers, ServePost(c)
  PROVE  HeardInv'
<1>1. /\ calls[c] \in Calls /\ calls[c].msg \in Msgs /\ calls[c].pc = "post"
      /\ calls[c].net = "sent" /\ UNCHANGED <<page, cursor, faults, asked>> /\ TypeInv'
      /\ calls \in [Callers -> Calls] /\ turns \in Seq(TurnRecs)
      /\ heard \in [Msgs -> Nat]
  <2>1. CallOK(calls[c], turns) /\ calls[c].pc = "post" /\ calls[c].net = "sent"
    BY CallIs DEF ServePost
  <2>2. QED
    BY <2>1, CallIs, NowIs, PostType DEF ServePost, CallOK, TypeInv, CountsOK
<1>2. CASE /\ calls' = [calls EXCEPT ![c].net = IF Claimed THEN "conflict" ELSE "refused"]
           /\ UNCHANGED <<log, turns, heard>>
  <2> DEFINE net == IF Claimed THEN "conflict" ELSE "refused"
  <2>1. net \in Nets \ {"open"} /\ calls' = [calls EXCEPT ![c].net = net]
    BY <1>2 DEF Nets
  <2>2. Carries(calls[c])
    BY <1>1 DEF Carries
  <2> HIDE DEF net
  <2>3. QED
    BY <1>1, <1>2, <2>1, <2>2, NetHeard
<1>3. CASE /\ ~Claimed /\ Begun(calls[c].msg, calls[c].replace)
           /\ calls' = [calls EXCEPT ![c].net = "open", ![c].turn = Len(turns) + 1]
           /\ heard' = [heard EXCEPT ![calls[c].msg] = @ + 1]
  <2> DEFINE k == [calls[c] EXCEPT !.net = "open", !.turn = Len(turns) + 1]
             m == calls[c].msg
             u == Now'
             us == turns'
  <2>1. /\ Keeps(turns, us) /\ TurnsInv(us)
        /\ \A n \in 1..Len(us) : us[n].steers # <<>> => n \in 1..Len(turns) /\ us[n] = turns[n]
    BY <1>1, <1>3, BegunHeard DEF MaybeMsg
  <2>2. /\ k.pc = "post" /\ k.net = "open" /\ k.turn = Len(turns) + 1 /\ k.msg = m
        /\ k.segs = calls[c].segs /\ k.aborted = calls[c].aborted
    BY <1>1 DEF Calls
  <2>3. calls' = [calls EXCEPT ![c] = k]
    BY <1>1, <1>3
  <2>4. u.calls = calls' /\ u.page = page /\ Now.calls = calls /\ Now.page = page
    BY <1>1 DEF Now
  <2> HIDE DEF k, u, us
  <2>5. calls'[c] = k /\ \A d \in Callers \ {c} : calls'[d] = calls[d]
    BY <1>1, <2>3
  <2>6. \A d \in Callers : Kept(calls[d], calls'[d])
    BY <1>1, <2>2, <2>5 DEF Kept
  <2>7. Carries(calls[c]) /\ ~Carries(k)
    BY <1>1, <2>2 DEF Carries
  <2>8. ASSUME NEW n \in 1..Len(us), us[n].steers # <<>>
        PROVE  n \in 1..Len(turns) /\ us[n].steers = turns[n].steers
               /\ (Open(u, us, n) => Open(Now, turns, n))
    <3>1. n \in 1..Len(turns) /\ us[n] = turns[n]
      BY <2>1, <2>8
    <3>2. n # Len(turns) + 1
      BY <1>1, <3>1
    <3>3. ReadBy(u, n) => ReadBy(Now, n)
      BY <2>2, <2>4, <2>5, <3>2 DEF ReadBy
    <3>4. QED
      BY <3>1, <3>3 DEF Open
  <2>9. ASSUME NEW x \in Msgs, IsFiniteSet(OpenSteers(Now, turns, x))
        PROVE  /\ IsFiniteSet(OpenSteers(u, us, x))
               /\ heard'[x] + Owed(u, us, x) <= heard[x] + Owed(Now, turns, x)
    <3>1. Carriers(u, x) \subseteq Carriers(Now, x) \ {c}
      BY <2>4, <2>5, <2>7 DEF Carriers
    <3>2. Queued(u, x) <= Queued(Now, x)
      BY <2>4 DEF Queued
    <3>3. OpenSteers(u, us, x) \subseteq OpenSteers(Now, turns, x)
      BY <2>8, OpenKept
    <3>4. heard[x] \in Nat /\ heard'[x] = IF x = m THEN heard[x] + 1 ELSE heard[x]
      BY <1>1, <1>3
    <3>5. CASE x = m
      <4>1. c \in Carriers(Now, x)
        BY <2>4, <2>7, <3>5 DEF Carriers
      <4>2. /\ IsFiniteSet(OpenSteers(u, us, x)) /\ Owed(u, us, x) \in Nat
            /\ Owed(Now, turns, x) \in Nat /\ Owed(u, us, x) + 1 <= Owed(Now, turns, x)
        BY <2>9, <3>1, <3>2, <3>3, <4>1, OwedDrop
      <4>3. QED
        BY <3>4, <3>5, <4>2
    <3>6. CASE x # m
      <4>1. Carriers(u, x) \subseteq Carriers(Now, x)
        BY <3>1
      <4>2. /\ IsFiniteSet(OpenSteers(u, us, x)) /\ Owed(u, us, x) \in Nat
            /\ Owed(Now, turns, x) \in Nat /\ Owed(u, us, x) <= Owed(Now, turns, x)
        BY <2>9, <3>2, <3>3, <4>1, OwedLess
      <4>3. QED
        BY <3>4, <3>6, <4>2
    <3>7. QED
      BY <3>5, <3>6
  <2>10. QED
    BY <1>1, <2>1, <2>6, <2>9, KeptHeard DEF u, us
<1>4. QED
  BY <1>2, <1>3 DEF ServePost

\* A request or its answer is lost, and the call carries its message no more
\* than it did.
LEMMA LoseHeard ==
  ASSUME TypeInv, HeardInv, NEW c \in Callers, Lose(c)
  PROVE  HeardInv'
<1>1. /\ UNCHANGED <<log, turns, asked, heard>> /\ TypeInv' /\ calls[c] \in Calls
      /\ turns \in Seq(TurnRecs) /\ Now \in States /\ Now.calls = calls /\ Now.page = page
      /\ SegsInv(Now, turns) /\ TurnsInv(turns) /\ QueueOnce(page.queue)
  BY LoseType, CallIs, HeardIs DEF Lose
<1>2. CASE calls' = [calls EXCEPT ![c].net = "lost"] /\ UNCHANGED <<page, cursor>>
  <2>1. Carries([calls[c] EXCEPT !.net = "lost"]) => Carries(calls[c])
    BY <1>1 DEF Carries, Calls
  <2>2. QED
    BY <1>1, <1>2, <2>1, NetHeard DEF Nets
<1>3. CASE calls[c].pc = "stream" /\ Set(Broken(Now, c))
  <2> DEFINE u == Broken(Now, c)
  <2>1. Ready(Now, turns) /\ CallOK(calls[c], turns)
    BY <1>3, BusyReady, CallIs
  <2>2. Ready(u, turns)
    BY <1>1, <1>3, <2>1, BrokenReady
  <2>3. Lighter(Now, u)
    BY <1>1, <1>3, <2>1, BrokenLighter DEF CallOK
  <2> HIDE DEF u
  <2>4. u \in States /\ Set(u)
    BY <1>3, <2>2 DEF Ready, ClientOK, u
  <2>5. Now' = u /\ page' = u.page
    BY <2>4, SetIs DEF Set
  <2>6. SegsInv(u, turns)
    <3>1. \A d \in Callers : Onward(Now.calls[d], u.calls[d])
      BY <2>3 DEF Lighter
    <3>2. QED
      BY <1>1, <3>1, SegsOn
  <2>7. QueueOnce(u.page.queue)
    BY <1>1, <2>3, QueueStays DEF Lighter
  <2>8. ASSUME NEW m \in Msgs, IsFiniteSet(OpenSteers(Now, turns, m))
        PROVE  /\ IsFiniteSet(OpenSteers(u, turns, m))
               /\ heard'[m] + Owed(u, turns, m) <= heard[m] + Owed(Now, turns, m)
    <3>1. /\ IsFiniteSet(OpenSteers(u, turns, m)) /\ Owed(u, turns, m) \in Nat
          /\ Owed(Now, turns, m) \in Nat /\ Owed(u, turns, m) <= Owed(Now, turns, m)
      BY <1>1, <2>3, <2>8, LighterOwes
    <3>2. heard[m] \in Nat /\ heard'[m] = heard[m]
      BY <1>1 DEF TypeInv, CountsOK
    <3>3. QED
      BY <3>1, <3>2
  <2>9. /\ SegsInv(Now', turns') /\ TurnsInv(turns') /\ QueueOnce(page'.queue)
        /\ \A m \in Msgs : IsFiniteSet(OpenSteers(Now, turns, m)) =>
            /\ IsFiniteSet(OpenSteers(Now', turns', m))
            /\ heard'[m] + Owed(Now', turns', m) <= heard[m] + Owed(Now, turns, m)
    BY <1>1, <2>5, <2>6, <2>7, <2>8
  <2>10. QED
    BY <1>1, <2>9, HeardStep
<1>4. QED
  BY <1>2, <1>3 DEF Lose

\* The steer that a call carried is one of the turn.
LEMMA SteerHeard ==
  ASSUME TypeInv, HeardInv, NEW c \in Callers, ServeSteer(c)
  PROVE  HeardInv'
<1>1. /\ calls[c] \in Calls /\ calls[c].msg \in Msgs /\ calls[c].pc = "steer"
      /\ calls[c].net = "sent" /\ UNCHANGED <<log, page, cursor, faults, asked, heard>>
      /\ TypeInv' /\ calls \in [Callers -> Calls] /\ turns \in Seq(TurnRecs)
  BY CallIs, NowIs, SteerType DEF ServeSteer
<1>2. CASE calls' = [calls EXCEPT ![c].net = "idle"] /\ turns' = turns
  <2>1. Carries(calls[c])
    BY <1>1 DEF Carries
  <2>2. QED
    BY <1>1, <1>2, <2>1, NetHeard DEF Nets
<1>3. CASE /\ Running /\ calls' = [calls EXCEPT ![c].net = "queued"]
           /\ turns' = [turns EXCEPT
                ![Len(turns)].steers = Append(@, calls[c].msg),
                ![Len(turns)].events = Append(@, Event("user_message", calls[c].msg, FALSE))]
  <2> DEFINE t == Last(turns)
             N == Len(turns)
             m == calls[c].msg
             e == Event("user_message", m, FALSE)
             steers == Append(t.steers, m)
             events == Append(t.events, e)
             r == Steered(t, steers, events)
             k == [calls[c] EXCEPT !.net = "queued"]
             u == Now'
             us == turns'
  <2>1. /\ turns # <<>> /\ t \in TurnRecs /\ t = turns[N] /\ Heeded(t) /\ t = Last(turns)
        /\ t.events \in Seq(Events) /\ t.steers \in Seq(Msgs)
        /\ Len(t.events) \in Nat /\ DOMAIN t.events = 1..Len(t.events)
        /\ TurnsInv(turns) /\ N \in 1..Len(turns) /\ t.claimed
    BY <1>3, LastHeard DEF Running, Claimed
  <2>2. us = [turns EXCEPT ![N] = r]
    BY <1>1, <1>3, <2>1 DEF TurnRecs, Steered
  <2>3. e \in Events /\ IsUser(e, m, FALSE) /\ \A x \in Msgs : IsUser(e, x, FALSE) => x = m
    BY <1>1 DEF Event, Events, IsUser
  <2>4. k.pc = "steer" /\ k.net = "queued" /\ Kept(calls[c], k) /\ k.turn = calls[c].turn
    BY <1>1 DEF Calls, Kept
  <2>5. calls' = [calls EXCEPT ![c] = k]
    BY <1>3
  <2>6. u.calls = calls' /\ u.page = page /\ Now.calls = calls /\ Now.page = page
    BY <1>1 DEF Now
  <2> HIDE DEF e, t, k, u, us
  <2>7. /\ events \in Seq(Events) /\ Len(events) = Len(t.events) + 1
        /\ DOMAIN events = 1..Len(events)
        /\ \A i \in 1..Len(t.events) : events[i] = t.events[i]
        /\ events[Len(t.events) + 1] = e
    BY <2>1, <2>3
  <2>8. /\ steers \in Seq(Msgs) /\ DOMAIN steers = 1..(Len(t.steers) + 1)
        /\ DOMAIN t.steers = 1..Len(t.steers) /\ Len(t.steers) \in Nat
        /\ \A i \in 1..Len(t.steers) : steers[i] = t.steers[i]
        /\ steers[Len(t.steers) + 1] = m
    BY <1>1, <2>1
  <2> HIDE DEF events, steers, m
  <2>9. r \in TurnRecs /\ r.events = events /\ r.steers = steers /\ r.claimed = t.claimed
    <3>1. t \in TurnRecs /\ steers \in Seq(Msgs) /\ events \in Seq(Events)
      BY <2>1, <2>7, <2>8
    <3>2. r \in TurnRecs
      BY <3>1, SteeredIs
    <3>3. r.events = events /\ r.steers = steers /\ r.claimed = t.claimed
      BY <3>1, SteeredFields
    <3>4. QED
      BY <3>2, <3>3
  <2> HIDE DEF r
  <2>10. Range(t.steers) \subseteq Range(r.steers) /\ m \in Range(r.steers)
    <3>1. \A i \in DOMAIN t.steers : i \in DOMAIN steers /\ steers[i] = t.steers[i]
      BY <2>8
    <3>2. Len(t.steers) + 1 \in DOMAIN steers
      BY <2>8
    <3>3. QED
      BY <2>8, <2>9, <3>1, <3>2 DEF Range
  <2>11. Heeded(r)
    <3>1. ASSUME NEW i \in 1..Len(events), NEW x \in Msgs, i > Len(t.events), IsUser(events[i], x, FALSE)
          PROVE  x \in Range(r.steers)
      <4>1. i = Len(t.events) + 1
        BY <2>1, <2>7, <3>1
      <4>2. x = m
        BY <2>3, <2>7, <3>1, <4>1
      <4>3. QED
        BY <2>10, <4>2
    <3>2. Len(t.events) <= Len(events) /\ Len(events) \in Nat
      BY <2>1, <2>7
    <3> DEFINE n == Len(t.events)
               p == Len(events)
    <3>3. /\ n \in Nat /\ n = Len(t.events) /\ DOMAIN t.events = 1..n
          /\ p \in Nat /\ p = Len(r.events) /\ n <= p /\ DOMAIN r.events = 1..p
          /\ \A i \in 1..n : r.events[i] = t.events[i]
          /\ \A i \in 1..p, x \in Msgs : i > n /\ IsUser(r.events[i], x, FALSE) => x \in Range(r.steers)
      BY <2>1, <2>7, <2>9, <3>1, <3>2
    <3> HIDE DEF n, p
    <3>4. QED
      BY <2>1, <2>10, <3>3, HeededOn
  <2>12. Longer(t.events, r.events) /\ LastBecomes(turns, us, r)
    BY <2>1, <2>2, <2>7, <2>9 DEF Longer, LastBecomes
  <2>13. Keeps(turns, us) /\ TurnsInv(us) /\ LastOnly(turns, us, r)
    <3>1. /\ Longer(Last(turns).events, r.events) /\ turns \in Seq(TurnRecs) /\ TurnsInv(turns)
          /\ turns # <<>> /\ r \in TurnRecs
      BY <1>1, <2>1, <2>9, <2>12
    <3>2. QED
      BY <2>11, <2>12, <3>1, LastKeeps
  <2>14. calls'[c] = k /\ \A d \in Callers \ {c} : calls'[d] = calls[d]
    BY <1>1, <2>5
  <2>15. \A d \in Callers : Kept(calls[d], calls'[d])
    BY <2>4, <2>14 DEF Kept
  <2>16. Carries(calls[c]) /\ ~Carries(k) /\ ~Alive(k)
    BY <1>1, <2>4 DEF Carries, Alive
  <2> DEFINE p == <<N, Len(t.steers) + 1>>
  <2>17. ASSUME NEW x \in Msgs
         PROVE  OpenSteers(u, us, x)
                  \subseteq OpenSteers(Now, turns, x) \cup (IF x = m THEN {p} ELSE {})
    <3> SUFFICES ASSUME NEW n \in 1..Len(us), NEW i \in Nat, i \in DOMAIN us[n].steers,
                        us[n].steers[i] = x, Open(u, us, n)
                 PROVE  <<n, i>> \in OpenSteers(Now, turns, x) \cup (IF x = m THEN {p} ELSE {})
      BY DEF OpenSteers
    <3>1. n \in 1..Len(turns)
      BY <2>13 DEF LastOnly
    <3>2. CASE n # N
      <4>1. us[n] = turns[n]
        BY <2>13, <3>1, <3>2 DEF LastOnly
      <4>2. ReadBy(u, n) => ReadBy(Now, n)
        BY <2>6, <2>14, <2>16 DEF ReadBy
      <4>3. Open(Now, turns, n)
        BY <4>1, <4>2 DEF Open
      <4>4. QED
        BY <3>1, <4>1, <4>3 DEF OpenSteers
    <3>3. CASE n = N
      <4>1. us[n].steers = steers
        BY <2>9, <2>13, <3>3 DEF LastOnly
      <4>2. Open(Now, turns, n)
        BY <2>1, <3>3 DEF Open
      <4>3. CASE i \in DOMAIN t.steers
        <5>1. turns[n].steers[i] = x /\ i \in DOMAIN turns[n].steers
          BY <2>1, <2>8, <3>3, <4>1, <4>3
        <5>2. QED
          BY <3>1, <4>2, <5>1 DEF OpenSteers
      <4>4. CASE i \notin DOMAIN t.steers
        <5>1. i = Len(t.steers) + 1
          BY <2>8, <4>1, <4>4
        <5>2. x = m
          BY <2>8, <4>1, <5>1
        <5>3. QED
          BY <3>3, <5>1, <5>2
      <4>5. QED
        BY <4>3, <4>4
    <3>4. QED
      BY <3>2, <3>3
  <2> HIDE DEF p
  <2>18. ASSUME NEW x \in Msgs, IsFiniteSet(OpenSteers(Now, turns, x))
         PROVE  /\ IsFiniteSet(OpenSteers(u, us, x)) /\ Owed(u, us, x) \in Nat
                /\ Owed(Now, turns, x) \in Nat /\ Owed(u, us, x) <= Owed(Now, turns, x)
    <3>1. Carriers(u, x) \subseteq Carriers(Now, x) \ {c}
      BY <2>6, <2>14, <2>15, <2>16 DEF Carriers, Kept
    <3>2. Queued(u, x) = Queued(Now, x) /\ Queued(Now, x) \in {0, 1}
      BY <2>6 DEF Queued
    <3>3. CASE x = m
      <4>1. c \in Carriers(Now, x)
        BY <2>6, <2>16, <3>3 DEF Carriers, m
      <4>2. Cardinality(Carriers(u, x)) \in Nat /\ Cardinality(Carriers(Now, x)) \in Nat
            /\ Cardinality(Carriers(u, x)) + 1 <= Cardinality(Carriers(Now, x))
        BY <3>1, <4>1, CarriersFinite, CardDrop
      <4>3. OpenSteers(u, us, x) \subseteq OpenSteers(Now, turns, x) \cup {p}
        BY <2>17, <3>3
      <4>4. /\ IsFiniteSet(OpenSteers(u, us, x)) /\ Cardinality(OpenSteers(u, us, x)) \in Nat
            /\ Cardinality(OpenSteers(Now, turns, x)) \in Nat
            /\ Cardinality(OpenSteers(u, us, x)) <= Cardinality(OpenSteers(Now, turns, x)) + 1
        BY <2>18, <4>3, CardMore
      <4>5. QED
        BY <3>2, <4>2, <4>4 DEF Owed
    <3>4. CASE x # m
      <4>1. OpenSteers(u, us, x) \subseteq OpenSteers(Now, turns, x)
        BY <2>17, <3>4
      <4>2. Carriers(u, x) \subseteq Carriers(Now, x) /\ Queued(u, x) <= Queued(Now, x)
        BY <3>1, <3>2
      <4>3. QED
        BY <2>18, <4>1, <4>2, OwedLess
    <3>5. QED
      BY <3>3, <3>4
  <2>19. ASSUME NEW x \in Msgs, IsFiniteSet(OpenSteers(Now, turns, x))
         PROVE  /\ IsFiniteSet(OpenSteers(u, us, x))
                /\ heard'[x] + Owed(u, us, x) <= heard[x] + Owed(Now, turns, x)
    <3>1. heard[x] \in Nat /\ heard'[x] = heard[x]
      BY <1>1 DEF TypeInv, CountsOK
    <3>2. QED
      BY <2>18, <2>19, <3>1
  <2>20. page'.queue = page.queue /\ asked' = asked
    BY <1>1
  <2>21. QED
    BY <1>1, <2>13, <2>15, <2>19, <2>20, KeptHeard DEF u, us
<1>4. QED
  BY <1>2, <1>3 DEF ServeSteer

\* Two parts of a set.
LEMMA CardSplit ==
  ASSUME NEW S, NEW R, NEW T, IsFiniteSet(T), R \subseteq T, S \subseteq T \ R
  PROVE  /\ IsFiniteSet(S) /\ Cardinality(S) \in Nat /\ Cardinality(R) \in Nat
         /\ Cardinality(T) \in Nat /\ Cardinality(S) + Cardinality(R) <= Cardinality(T)
<1>1. IsFiniteSet(S) /\ IsFiniteSet(R)
  BY FS_Subset
<1>2. S \cap R = {} /\ S \cup R \subseteq T
  OBVIOUS
<1>3. Cardinality({}) = 0
  BY FS_EmptySet
<1>4. Cardinality(S \cup R) = Cardinality(S) + Cardinality(R) - Cardinality(S \cap R)
  BY <1>1, FS_Union
<1>5. Cardinality(S \cup R) <= Cardinality(T) /\ Cardinality(T) \in Nat
  BY <1>2, CardLess
<1>6. Cardinality(S) \in Nat /\ Cardinality(R) \in Nat
  BY <1>1, FS_CardinalityType
<1>7. Cardinality(S \cap R) = 0
  BY <1>2, <1>3
<1>8. QED
  BY <1>1, <1>4, <1>5, <1>6, <1>7

\* The entries of one turn.
LEMMA CardRow ==
  ASSUME NEW x, NEW I, IsFiniteSet(I)
  PROVE  Cardinality({x} \X I) = Cardinality(I) /\ Cardinality(I) \in Nat
<1>1. IsFiniteSet({x}) /\ Cardinality({x}) = 1
  BY FS_Singleton
<1>2. Cardinality({x} \X I) = Cardinality({x}) * Cardinality(I)
  BY <1>1, FS_Product
<1>3. Cardinality(I) \in Nat
  BY FS_CardinalityType
<1>4. QED
  BY <1>1, <1>2, <1>3

\* The agent has heard what was steered, and nothing of it is open any more.
LEMMA InjectHeard ==
  ASSUME TypeInv, HeardInv, Inject
  PROVE  HeardInv'
<1> DEFINE t == Last(turns)
           N == Len(turns)
           got == t.steers
           new == [i \in DOMAIN got |-> Event("user_message", got[i], TRUE)]
           events == t.events \o new
           steers == <<>>
           r == Steered(t, steers, events)
           I(x) == {i \in DOMAIN got : got[i] = x}
           u == Now'
           us == turns'
<1>1. /\ turns # <<>> /\ t \in TurnRecs /\ t = turns[N] /\ Heeded(t) /\ t = Last(turns)
      /\ t.events \in Seq(Events) /\ got \in Seq(Msgs) /\ got = t.steers
      /\ Len(t.events) \in Nat /\ DOMAIN t.events = 1..Len(t.events)
      /\ TurnsInv(turns) /\ N \in 1..Len(turns) /\ t.claimed /\ turns \in Seq(TurnRecs)
      /\ UNCHANGED <<log, page, cursor, calls, faults, asked>> /\ TypeInv'
  BY LastHeard, InjectType DEF Running, Claimed, Inject
<1>2. heard' = [m \in Msgs |-> heard[m] + Cardinality(I(m))]
  BY DEF Inject
<1>3. us = [turns EXCEPT ![N] = r]
  <2>1. us = [turns EXCEPT ![N].steers = <<>>, ![N].events = @ \o new]
    BY DEF Inject
  <2> HIDE DEF new, got
  <2>2. QED
    BY <1>1, <2>1 DEF TurnRecs, Steered
<1>4. u.calls = calls /\ u.page = page /\ Now.calls = calls /\ Now.page = page
  BY <1>1 DEF Now
<1> HIDE DEF got, t, u, us, I
<1>5. /\ DOMAIN got = 1..Len(got) /\ Len(got) \in Nat /\ DOMAIN new = DOMAIN got
      /\ \A i \in DOMAIN got : got[i] \in Msgs /\ new[i] = Event("user_message", got[i], TRUE)
  <2>1. got \in Seq(Msgs)
    BY <1>1
  <2>2. DOMAIN new = DOMAIN got /\ \A i \in DOMAIN got : new[i] = Event("user_message", got[i], TRUE)
    OBVIOUS
  <2> HIDE DEF new
  <2>3. DOMAIN got = 1..Len(got) /\ Len(got) \in Nat /\ \A i \in DOMAIN got : got[i] \in Msgs
    BY <2>1
  <2>4. QED
    BY <2>2, <2>3
<1>6. \A i \in DOMAIN got : new[i] \in Events /\ IsUser(new[i], got[i], TRUE)
  <2> SUFFICES ASSUME NEW i \in DOMAIN got PROVE new[i] \in Events /\ IsUser(new[i], got[i], TRUE)
    OBVIOUS
  <2> DEFINE m == got[i]
             e == new[i]
  <2>1. m \in Msgs /\ e = Event("user_message", m, TRUE)
    BY <1>5
  <2> HIDE DEF m, e
  <2>2. e \in Events /\ IsUser(e, m, TRUE)
    BY <2>1 DEF Event, Events, IsUser
  <2>3. QED
    BY <2>2 DEF m, e
<1>7. new \in Seq(Events) /\ Len(new) = Len(got)
  <2>1. new \in [1..Len(got) -> Events]
    <3>1. new = [i \in 1..Len(got) |-> new[i]]
      BY <1>5
    <3> HIDE DEF new
    <3>2. \A i \in 1..Len(got) : new[i] \in Events
      BY <1>5, <1>6
    <3>3. QED
      BY <3>1, <3>2
  <2> HIDE DEF new
  <2>2. QED
    BY <1>5, <2>1
<1> HIDE DEF new
<1> DEFINE n == Len(t.events)
           p == Len(t.events) + Len(got)
<1>8. /\ events \in Seq(Events) /\ Len(events) = p /\ DOMAIN events = 1..p /\ p \in Nat /\ n <= p
      /\ n \in Nat
      /\ \A i \in 1..n : events[i] = t.events[i]
      /\ \A i \in DOMAIN got : n + i \in 1..p /\ events[n + i] = new[i]
      /\ \A i \in 1..p : i > n => i - n \in DOMAIN got /\ events[i] = new[i - n]
  <2> DEFINE a == t.events
  <2>1. a \in Seq(Events) /\ new \in Seq(Events) /\ Len(new) = Len(got) /\ DOMAIN got = 1..Len(got)
    BY <1>1, <1>5, <1>7
  <2> HIDE DEF a
  <2>2. /\ a \o new \in Seq(Events) /\ Len(a \o new) = Len(a) + Len(new)
        /\ DOMAIN (a \o new) = 1..(Len(a) + Len(new)) /\ Len(a) \in Nat /\ Len(new) \in Nat
        /\ \A i \in 1..(Len(a) + Len(new)) :
             (a \o new)[i] = IF i <= Len(a) THEN a[i] ELSE new[i - Len(a)]
    BY <2>1
  <2> DEFINE b == a \o new
             j == Len(a)
             l == Len(got)
  <2>3. /\ b \in Seq(Events) /\ Len(b) = j + l /\ DOMAIN b = 1..(j + l) /\ j \in Nat /\ l \in Nat
        /\ \A i \in 1..(j + l) : b[i] = IF i <= j THEN a[i] ELSE new[i - j]
    BY <2>1, <2>2
  <2>4. DOMAIN got = 1..l
    BY <2>1
  <2> HIDE DEF b, j, l
  <2>5. (\A i \in 1..j : b[i] = a[i]) /\ j + l \in Nat /\ j <= j + l
    BY <2>3
  <2>6. \A i \in DOMAIN got : j + i \in 1..(j + l) /\ b[j + i] = new[i]
    BY <2>3, <2>4
  <2>7. \A i \in 1..(j + l) : i > j => i - j \in DOMAIN got /\ b[i] = new[i - j]
    BY <2>3, <2>4
  <2>8. QED
    BY <2>3, <2>5, <2>6, <2>7 DEF a, b, j, l
<1>9. r \in TurnRecs /\ r.events = events /\ r.steers = <<>> /\ r.claimed = t.claimed
  <2>1. steers \in Seq(Msgs) /\ events \in Seq(Events) /\ t \in TurnRecs
    BY <1>1, <1>8
  <2>2. steers = <<>>
    OBVIOUS
  <2> HIDE DEF steers, events
  <2>3. r \in TurnRecs
    BY <2>1, SteeredIs
  <2>4. QED
    BY <2>1, <2>2, <2>3, SteeredFields
<1> HIDE DEF r, events, steers, n, p
<1>10. Heeded(r)
  <2> SUFFICES ASSUME NEW i \in 1..p, NEW m \in Msgs, IsUser(events[i], m, FALSE)
               PROVE  \E j \in i..p : IsUser(events[j], m, TRUE)
    BY <1>8, <1>9 DEF Heeded
  <2>1. ~(i > n)
    <3> SUFFICES ASSUME i > n PROVE FALSE
      OBVIOUS
    <3>1. i - n \in DOMAIN got /\ events[i] = new[i - n]
      BY <1>8
    <3>2. IsUser(events[i], got[i - n], TRUE)
      BY <1>6, <3>1
    <3>3. QED
      BY <3>2 DEF IsUser
  <2>2. i \in 1..n
    BY <1>8, <2>1
  <2>3. IsUser(t.events[i], m, FALSE)
    BY <1>8, <2>2
  <2>4. n = Len(t.events) /\ i \in DOMAIN t.events
    BY <1>1, <2>2 DEF n
  <2>5. m \in Range(t.steers) \/ \E j \in i..Len(t.events) : IsUser(t.events[j], m, TRUE)
    BY <1>1, <2>3, <2>4 DEF Heeded
  <2>6. CASE m \in Range(t.steers)
    <3>1. PICK j \in DOMAIN got : got[j] = m
      BY <1>1, <2>6 DEF Range
    <3>2. n + j \in 1..p /\ events[n + j] = new[j] /\ j \in Nat
      BY <1>5, <1>8
    <3>3. n + j \in i..p
      BY <1>8, <2>2, <3>2
    <3>4. IsUser(events[n + j], m, TRUE)
      BY <1>6, <3>1, <3>2
    <3>5. QED
      BY <3>3, <3>4
  <2>7. CASE \E j \in i..n : IsUser(t.events[j], m, TRUE)
    <3>1. PICK j \in i..n : IsUser(t.events[j], m, TRUE)
      BY <2>7
    <3>2. j \in 1..n /\ j \in i..p
      BY <1>8, <2>2
    <3>3. events[j] = t.events[j]
      BY <1>8, <3>2
    <3>4. QED
      BY <3>1, <3>2, <3>3
  <2>8. QED
    BY <2>4, <2>5, <2>6, <2>7
<1>11. Longer(t.events, r.events) /\ LastBecomes(turns, us, r)
  BY <1>3, <1>8, <1>9 DEF Longer, LastBecomes, n
<1>12. Keeps(turns, us) /\ TurnsInv(us) /\ LastOnly(turns, us, r)
  <2>1. /\ Longer(Last(turns).events, r.events) /\ turns \in Seq(TurnRecs) /\ TurnsInv(turns)
        /\ turns # <<>> /\ r \in TurnRecs
    BY <1>1, <1>9, <1>11
  <2>2. QED
    BY <1>10, <1>11, <2>1, LastKeeps
<1>13. ASSUME NEW x \in Msgs
       PROVE  /\ OpenSteers(u, us, x) \subseteq OpenSteers(Now, turns, x) \ ({N} \X I(x))
              /\ {N} \X I(x) \subseteq OpenSteers(Now, turns, x)
  <2>1. Open(Now, turns, N)
    BY <1>1 DEF Open
  <2>2. \A i \in I(x) : i \in Nat /\ i \in DOMAIN turns[N].steers /\ turns[N].steers[i] = x
    BY <1>1, <1>5 DEF I
  <2>3. {N} \X I(x) \subseteq OpenSteers(Now, turns, x)
    BY <1>1, <2>1, <2>2 DEF OpenSteers
  <2>4. ASSUME NEW k \in 1..Len(us), NEW i \in Nat, i \in DOMAIN us[k].steers,
               us[k].steers[i] = x, Open(u, us, k)
        PROVE  <<k, i>> \in OpenSteers(Now, turns, x) \ ({N} \X I(x))
    <3>1. k \in 1..Len(turns)
      BY <1>12 DEF LastOnly
    <3>2. k # N
      <4>1. DOMAIN <<>> = {}
        OBVIOUS
      <4>2. us[N].steers = <<>>
        BY <1>9, <1>12 DEF LastOnly
      <4>3. QED
        BY <2>4, <4>1, <4>2
    <3>3. us[k] = turns[k]
      BY <1>12, <3>1, <3>2 DEF LastOnly
    <3>4. Open(Now, turns, k)
      BY <1>4, <2>4, <3>3 DEF Open, ReadBy
    <3>5. <<k, i>> \in OpenSteers(Now, turns, x)
      BY <2>4, <3>1, <3>3, <3>4 DEF OpenSteers
    <3>6. QED
      BY <3>2, <3>5
  <2>5. OpenSteers(u, us, x) \subseteq OpenSteers(Now, turns, x) \ ({N} \X I(x))
    BY <2>4 DEF OpenSteers
  <2>6. QED
    BY <2>3, <2>5
<1>14. ASSUME NEW x \in Msgs, IsFiniteSet(OpenSteers(Now, turns, x))
       PROVE  /\ IsFiniteSet(OpenSteers(u, us, x))
              /\ heard'[x] + Owed(u, us, x) <= heard[x] + Owed(Now, turns, x)
  <2>1. IsFiniteSet(I(x))
    <3>1. IsFiniteSet(1..Len(got))
      BY <1>5, FS_Interval
    <3>2. I(x) \subseteq 1..Len(got)
      BY <1>5 DEF I
    <3>3. QED
      BY <3>1, <3>2, FS_Subset
  <2>2. Cardinality({N} \X I(x)) = Cardinality(I(x)) /\ Cardinality(I(x)) \in Nat
    BY <2>1, CardRow
  <2> DEFINE S == OpenSteers(u, us, x)
             T == OpenSteers(Now, turns, x)
             R == {N} \X I(x)
  <2>3. IsFiniteSet(T) /\ R \subseteq T /\ S \subseteq T \ R
    BY <1>13, <1>14
  <2> HIDE DEF S, T, R
  <2>4. /\ IsFiniteSet(S) /\ Cardinality(S) \in Nat /\ Cardinality(R) \in Nat
        /\ Cardinality(T) \in Nat /\ Cardinality(S) + Cardinality(R) <= Cardinality(T)
    BY <2>3, CardSplit
  <2>5. Carriers(u, x) = Carriers(Now, x) /\ Queued(u, x) = Queued(Now, x)
    BY <1>4 DEF Carriers, Queued
  <2>6. Queued(Now, x) \in {0, 1} /\ Cardinality(Carriers(Now, x)) \in Nat
    BY CarriersFinite DEF Queued
  <2>7. heard[x] \in Nat /\ heard'[x] = heard[x] + Cardinality(I(x))
    BY <1>2 DEF TypeInv, CountsOK
  <2>8. Cardinality(R) = Cardinality(I(x))
    BY <2>2 DEF R
  <2>9. /\ Owed(u, us, x) = Cardinality(Carriers(Now, x)) + Queued(Now, x) + Cardinality(S)
        /\ Owed(Now, turns, x) = Cardinality(Carriers(Now, x)) + Queued(Now, x) + Cardinality(T)
    BY <2>5 DEF Owed, S, T
  <2>10. heard'[x] + Owed(u, us, x) <= heard[x] + Owed(Now, turns, x)
    BY <2>2, <2>4, <2>6, <2>7, <2>8, <2>9
  <2>11. QED
    BY <2>4, <2>10 DEF S
<1>15. \A d \in Callers : Kept(calls[d], calls'[d])
  BY <1>1 DEF Kept
<1>16. page'.queue = page.queue /\ asked' = asked
  BY <1>1
<1>17. QED
  BY <1>1, <1>12, <1>14, <1>15, <1>16, KeptHeard DEF u, us

\* At first nothing is asked, owed or heard.
LEMMA InitHeard ==
  ASSUME Init
  PROVE  HeardInv
<1>1. /\ turns = <<>> /\ page.queue = <<>> /\ Now.page = page /\ Now.calls = calls
      /\ \A c \in Callers : calls[c] = Idle
      /\ asked = [m \in Msgs |-> 0] /\ heard = [m \in Msgs |-> 0]
  BY DEF Init, Fresh, Now
<1>2. DOMAIN <<>> = {} /\ Len(<<>>) = 0 /\ 1..0 = {}
  OBVIOUS
<1>3. SegsInv(Now, turns)
  BY <1>1, <1>2 DEF SegsInv, SegOK, OnePerMsg, Idle
<1>4. TurnsInv(turns) /\ QueueOnce(page.queue)
  BY <1>1, <1>2 DEF TurnsInv, QueueOnce
<1>5. IsFiniteSet({}) /\ Cardinality({}) = 0
  BY FS_EmptySet
<1>6. ASSUME NEW m \in Msgs PROVE Within(Now, turns, m)
  <2>1. OpenSteers(Now, turns, m) = {}
    BY <1>1, <1>2 DEF OpenSteers
  <2>2. Carriers(Now, m) = {}
    BY <1>1 DEF Carriers, Carries, Idle
  <2>3. Queued(Now, m) = 0
    BY <1>1, <1>2 DEF Queued, Range
  <2>4. heard[m] = 0 /\ asked[m] = 0
    BY <1>1
  <2>5. Owed(Now, turns, m) = 0
    BY <1>5, <2>1, <2>2, <2>3 DEF Owed
  <2>6. QED
    BY <1>5, <2>1, <2>4, <2>5 DEF Within
<1>7. QED
  BY <1>3, <1>4, <1>6 DEF HeardInv

\* No step lets the agent hear more than was asked.
LEMMA StepHeard ==
  ASSUME "retry" \notin Ops, TypeInv, HeardInv, [Next]_vars
  PROVE  HeardInv'
<1>1. CASE Student
  <2>1. ~retryLastSend
    BY DEF retryLastSend
  <2>2. QED
    BY <1>1, <2>1, SubmitHeard, RegenerateHeard, StopHeard, ReloadHeard DEF Student
<1>2. CASE Client
  BY <1>2, SteerReturnsHeard, AwaitHeard, CancelHeard, PostReturnsHeard, ConflictRetryHeard,
     ConsumeHeard, AbortedHeard, AttachHeard, StopReturnsHeard, AutoForwardHeard, HydrateHeard
     DEF Client
<1>3. CASE Server
  BY <1>3, PostHeard, SteerHeard, ServeCancelHeard, ServeAttachHeard, ReadHeard, InjectHeard,
     EndsHeard, ReleasesHeard DEF Server
<1>4. CASE OtherTab \/ \E c \in Callers : Lose(c)
  BY <1>4, OtherTabHeard, LoseHeard
<1>5. CASE UNCHANGED vars
  <2>1. UNCHANGED <<log, turns, page, cursor, calls, faults, asked, heard>>
    BY <1>5 DEF vars
  <2>2. Now \in States /\ Lighter(Now, Now) /\ Set(Now)
    BY <2>1, NowIs, SameLighter DEF Set, Now
  <2>3. QED
    BY <2>1, <2>2, LighterStep
<1>6. QED
  BY <1>1, <1>2, <1>3, <1>4, <1>5 DEF Next

\* The agent never gets a message more often than the student has asked for
\* it, as long as no failed send is retried.
THEOREM HeardAtMostOnce ==
  ASSUME "retry" \notin Ops
  PROVE  Spec => []HeardOnce
<1>1. Init => TypeInv /\ HeardInv
  BY InitType, InitHeard
<1>2. (TypeInv /\ HeardInv) /\ [Next]_vars => (TypeInv /\ HeardInv)'
  BY StepType, StepHeard
<1>3. TypeInv /\ HeardInv => HeardOnce
  <2> SUFFICES ASSUME TypeInv, HeardInv, NEW m \in Msgs PROVE heard[m] <= asked[m]
    BY DEF HeardOnce
  <2>1. IsFiniteSet(OpenSteers(Now, turns, m)) /\ heard[m] + Owed(Now, turns, m) <= asked[m]
    BY DEF HeardInv, Within
  <2>2. Owed(Now, turns, m) \in Nat
    BY <2>1, OwedIs
  <2>3. heard[m] \in Nat /\ asked[m] \in Nat
    BY DEF TypeInv, CountsOK
  <2>4. QED
    BY <2>1, <2>2, <2>3
<1>4. QED
  BY <1>1, <1>2, <1>3, PTL DEF Spec
=============================================================================
