------------------------------ MODULE EssayProof ------------------------------
(***************************************************************************)
(* The essay editor, for any texts, suggestions, keystrokes and faults:    *)
(* words that the server has not held stay on the screen, and a page that  *)
(* says "Saved" is right.                                                  *)
(***************************************************************************)
EXTENDS EssayEditor, TLAPS

\* A resolution under way: waiting for the typing to be saved, or sent.
Resolvings == [action: Resolutions, ids: SUBSET Sugs, st: {"flush", "request"}]

\* The states of the page.
Tabs ==
  [screen: Docs, cache: Essays, read: Reads \cup {None}, adopting: BOOLEAN,
   pending: MaybeDoc, dirty: BOOLEAN, ui: {"saved", "saving", "error"},
   expected: Nat, savedKey: [doc: Docs, order: {"any", "editor", "server"}],
   savedEssay: Essays, inFlight: SUBSET Docs, direct: MaybeDoc, queued: MaybeDoc,
   needsSave: BOOLEAN, timer: MaybeDoc, mounted: BOOLEAN, hidden: BOOLEAN,
   resolving: Resolvings \cup {None},
   sent: SUBSET Requests]

\* The histories.
Hists == [last: Texts, stored: SUBSET Texts, had: SUBSET Texts, back: BOOLEAN,
          made: SUBSET Sugs, hides: Nat, kept: BOOLEAN]

\* The types of all the variables.
TypeInv ==
  /\ server \in Essays /\ clock \in Nat /\ event \in BOOLEAN
  /\ tab \in Tabs /\ typed \in 0..MaxTyped /\ faults \in 0..MaxFaults /\ hist \in Hists

\* What a served save or an answer carries is a text that the server, whose texts
\* so far are S, has held.
AnswersHeld(t, S) ==
  \A r \in t.sent :
    /\ r.st = "answered" => r.essay \in Essays /\ r.essay.doc.text \in S
    /\ r.kind \in {"save", "keepalive"} /\ r.st \in {"written", "answered"} => r.doc.text \in S

\* So are the cached, the last saved and the read essay; the page is dirty exactly
\* while a draft is pending, which is then what the screen shows; and a screen
\* without one shows a text of the server's.
HeldText(t, S) ==
  /\ {t.cache.doc.text, t.savedEssay.doc.text, t.savedKey.doc.text} \subseteq S
  /\ t.read \in Reads /\ t.read.st = "answered" => t.read.essay.doc.text \in S
  /\ AnswersHeld(t, S)
  /\ ~t.dirty => t.screen.text \in S
  /\ t.mounted => (t.dirty <=> t.pending # None) /\ (t.dirty => t.pending = t.screen)

\* The first invariant, with which words that exist nowhere else stay.
StoredInv ==
  /\ HeldText(tab, hist.stored)
  /\ server.doc.text \in hist.stored

\* A step that leaves the screen alone.
Keeps(t, u, S) == u \in Tabs /\ HeldText(u, S) /\ u.screen = t.screen

\* A step that replaces on the screen only what the server has held.
Shows(t, u, S) ==
  /\ u \in Tabs /\ HeldText(u, S)
  /\ u.screen.text # t.screen.text => t.screen.text \in S

\* The premises of SavedMeansSaved that outlive a step.
Regime == tab.mounted /\ faults = 0 /\ ~hist.kept /\ ~hist.back

\* Without keepalives at most one save is under way, that of the direct draft,
\* and nothing else is in flight.
OneSave(t) ==
  /\ \A r \in t.sent : r.kind # "keepalive" /\ (r.kind = "save" => r.doc = t.direct)
  /\ \A r, s \in t.sent : r.kind = "save" /\ s.kind = "save" => r = s
  /\ t.inFlight = IF t.direct = None THEN {} ELSE {t.direct}

\* The drafts.  A pending one is the text typed last; a timer is for it; what is
\* queued waits behind a direct save; of the drafts under way only the last can
\* be the newest; and without a pending draft the server (x) has the newest text.
Drafts(t, x, h) ==
  /\ t.pending # None => t.pending.text = h.last
  /\ t.ui = "saved" => t.pending = None
  /\ t.timer # None => t.timer = t.pending /\ t.timer \notin {t.direct, t.queued}
  /\ t.direct = None => t.queued = None
  /\ t.direct # None => t.direct.text \in h.had
  /\ t.queued # None => t.queued.text \in h.had
  /\ t.direct # None /\ t.direct.text = h.last =>
       t.queued = None /\ (t.pending # None => t.direct = t.pending)
  /\ t.queued # None /\ t.queued.text = h.last => t.queued = t.pending
  /\ t.pending = None => x = h.last /\ (t.direct # None => t.direct.text = h.last)
  /\ ~t.needsSave

\* A save that was served is what the server still has: no other came between.
Answers(t, x) ==
  \A r \in t.sent : r.kind = "save" =>
    /\ r.st \in {"written", "answered"} => r.doc.text = x
    /\ r.st = "answered" => r.essay.doc.text = x

\* The key and the essay last saved tell the same text.
Known(t) == t.savedKey.doc.text = t.savedEssay.doc.text

\* A pending draft that equals the last saved one, while another is under way,
\* is queued behind that; and a save that was not served has left the server at it.
Undone(t, x, h) ==
  t.pending # None /\ t.savedKey = DraftKey(t.pending, "editor")
    /\ t.direct # None /\ t.direct # t.pending
  => /\ t.queued = t.pending
     /\ \A r \in t.sent : r.kind = "save" /\ r.st \in {"sent", "refused"} => x = h.last

\* With one keystroke at most there are two texts, the first and the newest, and
\* the newest has not been on the server while its save is unserved.  This is
\* what makes undoing the first change safe.
First(t, h, n) ==
  n <= 1 =>
    /\ t.queued = None
    /\ t.direct # None => t.direct = t.pending
    /\ \A a, b \in h.had \ {h.last} : a = b
    /\ n = 0 => t.pending = None /\ h.had = {h.last}
    /\ t.pending # None /\ t.direct = None => h.last \notin h.stored
    /\ \A r \in t.sent : r.kind = "save" /\ r.st \in {"sent", "refused"} => h.last \notin h.stored

\* Unless a change event is coming, a read under way found the server's text, and
\* without a read and a draft the cache has it.
ReadsTrue(t, x, ev) ==
  ~ev => /\ t.read \in Reads /\ t.read.st = "answered" => t.read.essay.doc.text = x
         /\ t.read = None /\ t.pending = None => t.cache.doc.text = x

\* How the page and the server's text x belong together.
Sync(t, x, h, n, ev) ==
  /\ t.mounted
  /\ OneSave(t) /\ Drafts(t, x, h) /\ Answers(t, x) /\ Known(t)
  /\ Undone(t, x, h) /\ First(t, h, n) /\ ReadsTrue(t, x, ev)

\* Behind every render: a page without a draft shows its cache.
Clean(t) ==
  ~t.dirty => /\ t.screen = t.cache.doc
              /\ t.savedKey = DraftKey(t.cache.doc, "server") /\ t.savedEssay = t.cache

\* The server's texts are the student's.
Texted(h) == h.stored \subseteq h.had /\ h.last \in h.had

\* The second invariant.
SavedInv ==
  Regime => /\ Texted(hist)
            /\ Sync(tab, server.doc.text, hist, typed, event) /\ Clean(tab)
-----------------------------------------------------------------------------
LEMMA SavingType ==
  ASSUME NEW t \in Tabs, NEW quiet \in BOOLEAN
  PROVE  Saving(t, quiet) \in Tabs
BY DEF Tabs, Saving

\* Each helper of the autosave keeps the types, the screen and the first invariant.
LEMMA SaveDraftType ==
  ASSUME NEW t \in Tabs, NEW d \in Docs, NEW quiet \in BOOLEAN, NEW asked \in BOOLEAN
  PROVE  saveDraft(t, d, quiet, asked) \in Tabs
<1>1. Request("save", d, {}, t.expected, asked) \in Requests
  BY DEF Tabs, Requests, Request
<1>2. [t EXCEPT !.queued = None] \in Tabs /\ [t EXCEPT !.queued = d] \in Tabs
  BY DEF Tabs, MaybeDoc
<1>3. [t EXCEPT !.direct = d, !.inFlight = @ \cup {d},
         !.sent = @ \cup {Request("save", d, {}, t.expected, asked)}] \in Tabs
  BY <1>1 DEF Tabs, MaybeDoc
<1>4. QED
  BY <1>2, <1>3, SavingType DEF saveDraft

LEMMA SaveDraftFields ==
  ASSUME NEW t \in Tabs, NEW d, NEW quiet \in BOOLEAN, NEW asked \in BOOLEAN
  PROVE  LET u == saveDraft(t, d, quiet, asked) IN
         /\ u.screen = t.screen /\ u.cache = t.cache /\ u.read = t.read
         /\ u.adopting = t.adopting /\ u.pending = t.pending /\ u.dirty = t.dirty
         /\ u.expected = t.expected /\ u.savedKey = t.savedKey
         /\ u.savedEssay = t.savedEssay /\ u.needsSave = t.needsSave
         /\ u.timer = t.timer /\ u.mounted = t.mounted /\ u.hidden = t.hidden
         /\ u.resolving = t.resolving
         /\ u.sent \in {t.sent, t.sent \cup {Request("save", d, {}, t.expected, asked)}}
BY DEF Tabs, saveDraft, Saving

LEMMA SaveDraftHeld ==
  ASSUME NEW t \in Tabs, NEW S, HeldText(t, S),
         NEW d \in Docs, NEW quiet \in BOOLEAN, NEW asked \in BOOLEAN
  PROVE  Keeps(t, saveDraft(t, d, quiet, asked), S)
<1> DEFINE u == saveDraft(t, d, quiet, asked)
<1>1. u \in Tabs
  BY SaveDraftType
<1>2. \A r \in u.sent \ t.sent : r.st = "sent"
  BY SaveDraftFields DEF Request
<1>3. HeldText(u, S)
  BY <1>2, SaveDraftFields DEF HeldText, AnswersHeld
<1>4. QED
  BY <1>1, <1>3, SaveDraftFields DEF Keeps

LEMMA KeepaliveHeld ==
  ASSUME NEW t \in Tabs, NEW S, HeldText(t, S), NEW d \in Docs, NEW quiet \in BOOLEAN
  PROVE  Keeps(t, saveDraftKeepalive(t, d, quiet), S)
<1> DEFINE q == Request("keepalive", d, {}, None, FALSE)
           v == [t EXCEPT !.timer = None, !.inFlight = @ \cup {d}, !.sent = @ \cup {q}]
<1>1. q \in Requests /\ q.st = "sent"
  BY DEF Requests, Request
<1>2. v \in Tabs
  BY <1>1 DEF Tabs, MaybeDoc
<1>3. HeldText(v, S) /\ v.screen = t.screen
  <2> HIDE DEF q
  <2> QED
    BY <1>1 DEF HeldText, AnswersHeld, Tabs
<1>4. Keeps(t, Saving(v, quiet), S)
  <2>1. Saving(v, quiet) \in Tabs
    BY <1>2, SavingType
  <2> HIDE DEF v
  <2>2. HeldText(Saving(v, quiet), S) /\ Saving(v, quiet).screen = v.screen
    BY <1>2, <1>3 DEF HeldText, AnswersHeld, Saving, Tabs
  <2>3. QED
    BY <1>3, <2>1, <2>2 DEF Keeps
<1>5. QED
  BY <1>4 DEF saveDraftKeepalive, Keeps

LEMMA SettledHeld ==
  ASSUME NEW t \in Tabs, NEW S, t.pending = None,
         {t.cache.doc.text, t.savedEssay.doc.text, t.savedKey.doc.text, t.screen.text} \subseteq S,
         t.read \in Reads /\ t.read.st = "answered" => t.read.essay.doc.text \in S,
         AnswersHeld(t, S)
  PROVE  Keeps(t, Settled(t), S)
<1>1. Settled(t) \in Tabs /\ Settled(t).screen = t.screen
  BY DEF Settled, Tabs
<1>2. HeldText(Settled(t), S)
  BY DEF Settled, HeldText, AnswersHeld, Tabs
<1>3. QED
  BY <1>1, <1>2 DEF Keeps

\* What is shown beside the screen: the text of the cache entry and the like.
LEMMA SettlePendingHeld ==
  ASSUME NEW t \in Tabs, NEW S, HeldText(t, S)
  PROVE  Keeps(t, settlePendingSavedDraft(t), S)
<1> DEFINE p == t.pending
           n == [t EXCEPT !.needsSave = FALSE]
           v == [t EXCEPT !.pending = None]
           w == syncLatestSavedCache(v)
<1> SUFFICES ASSUME p # None, t.savedKey = DraftKey(p, "editor")
             PROVE  Keeps(t, saveDraft(n, p, FALSE, FALSE), S) /\ Keeps(t, Settled(w), S)
  BY DEF settlePendingSavedDraft, Keeps
<1>1. p \in Docs /\ p.text \in S
  BY DEF Tabs, MaybeDoc, HeldText, DraftKey
<1>2. n \in Tabs /\ HeldText(n, S) /\ n.screen = t.screen
  BY DEF HeldText, AnswersHeld, Tabs
<1>3. Keeps(t, saveDraft(n, p, FALSE, FALSE), S)
  BY <1>1, <1>2, SaveDraftHeld DEF Keeps
<1>4. v \in Tabs
  BY DEF Tabs, MaybeDoc
<1>5. /\ w \in Tabs /\ w.pending = None /\ w.screen = t.screen
      /\ w.cache = t.savedEssay /\ w.savedEssay = t.savedEssay /\ w.savedKey = t.savedKey
      /\ w.read = t.read /\ w.sent = t.sent /\ w.dirty = t.dirty /\ w.mounted = t.mounted
  BY <1>4 DEF syncLatestSavedCache, syncEssayCache, Tabs
<1>6. CASE t.mounted
  <2>1. t.screen.text \in S
    BY <1>1, <1>6 DEF HeldText, Tabs
  <2>2. Keeps(w, Settled(w), S)
    BY <1>5, <2>1, SettledHeld DEF HeldText, AnswersHeld
  <2>3. QED
    BY <1>3, <1>5, <2>2 DEF Keeps
<1>7. CASE ~t.mounted
  <2>1. Settled(w) = w
    BY <1>5, <1>7 DEF Settled
  <2>2. HeldText(w, S)
    BY <1>5, <1>7 DEF HeldText, AnswersHeld
  <2>3. QED
    BY <1>3, <1>5, <2>1, <2>2 DEF Keeps
<1>8. QED
  BY <1>6, <1>7

\* An answered save: its text and the essay it came with are the server's.
LEMMA SaveSuccessHeld ==
  ASSUME NEW t \in Tabs, NEW S, HeldText(t, S),
         NEW d \in Docs, d.text \in S, NEW essay \in Essays, essay.doc.text \in S
  PROVE  Keeps(t, handleSaveSuccess(t, d, essay), S)
<1> DEFINE u == [t EXCEPT !.inFlight = @ \ {d}, !.expected = laterVersion(essay.ver, @)]
           w == [syncEssayCache(u, essay) EXCEPT !.savedKey = DraftKey(d, "editor"),
                                                 !.needsSave = FALSE, !.pending = None]
           n == [syncLatestSavedCache(u) EXCEPT
                   !.needsSave = @ \/ /\ u.pending # None
                                      /\ DraftKey(u.pending, "editor") = u.savedKey]
<1>1. laterVersion(essay.ver, t.expected) \in Nat
  BY DEF Tabs, Essays, laterVersion
<1>2. /\ u \in Tabs /\ HeldText(u, S) /\ u.screen = t.screen /\ u.pending = t.pending
      /\ u.mounted = t.mounted
  BY <1>1 DEF HeldText, AnswersHeld, Tabs
<1>3. CASE u.pending = d
  <2>1. DraftKey(d, "editor") \in [doc: Docs, order: {"any", "editor", "server"}]
        /\ DraftKey(d, "editor").doc = d
    BY DEF DraftKey
  <2>2. syncEssayCache(u, essay) \in Tabs
    BY <1>2 DEF syncEssayCache, Tabs
  <2>3. w \in Tabs
    <3>1. ASSUME NEW v \in Tabs, NEW k \in [doc: Docs, order: {"any", "editor", "server"}]
          PROVE  [v EXCEPT !.savedKey = k, !.needsSave = FALSE, !.pending = None] \in Tabs
      BY DEF Tabs, MaybeDoc
    <3> HIDE DEF u
    <3>2. QED
      BY <2>1, <2>2, <3>1
  <2>4. /\ w.cache = essay /\ w.savedEssay = essay /\ w.savedKey = DraftKey(d, "editor")
        /\ w.pending = None /\ w.screen = u.screen /\ w.read = u.read /\ w.sent = u.sent
        /\ w.dirty = u.dirty /\ w.mounted = u.mounted
    BY <1>2 DEF syncEssayCache, Tabs
  <2>5. CASE u.mounted
    <3>1. u.screen.text \in S
      BY <1>2, <1>3, <2>5 DEF HeldText, Tabs
    <3>2. /\ {w.cache.doc.text, w.savedEssay.doc.text, w.savedKey.doc.text, w.screen.text} \subseteq S
          /\ w.read \in Reads /\ w.read.st = "answered" => w.read.essay.doc.text \in S
          /\ AnswersHeld(w, S)
      <4> HIDE DEF w, u
      <4> QED
        BY <1>2, <2>1, <2>4, <3>1 DEF HeldText, AnswersHeld
    <3>4. Keeps(w, Settled(w), S)
      <4> HIDE DEF w
      <4> QED
        BY <2>3, <2>4, <3>2, SettledHeld
    <3>3. QED
      BY <1>2, <1>3, <2>4, <3>4 DEF handleSaveSuccess, Keeps
  <2>6. CASE ~u.mounted
    <3>1. Settled(w) = w
      BY <2>4, <2>6 DEF Settled
    <3>2. HeldText(w, S)
      BY <1>2, <2>1, <2>4, <2>6 DEF HeldText, AnswersHeld
    <3>3. QED
      BY <1>2, <1>3, <2>3, <2>4, <3>1, <3>2 DEF handleSaveSuccess, Keeps
  <2>7. QED
    BY <2>5, <2>6
<1>4. CASE u.pending # d
  <2>1. syncLatestSavedCache(u) \in Tabs
    BY <1>2 DEF syncLatestSavedCache, syncEssayCache, Tabs
  <2>2. n \in Tabs
    <3>1. ASSUME NEW v \in Tabs, NEW b \in BOOLEAN
          PROVE  [v EXCEPT !.needsSave = @ \/ b] \in Tabs
      BY DEF Tabs
    <3> HIDE DEF u
    <3>2. QED
      BY <2>1, <3>1
  <2>3. HeldText(n, S) /\ n.screen = u.screen
    BY <1>2 DEF HeldText, AnswersHeld, syncLatestSavedCache, syncEssayCache, Tabs
  <2>4. QED
    BY <1>2, <1>4, <2>2, <2>3, SettlePendingHeld DEF handleSaveSuccess, Keeps
<1>5. QED
  BY <1>3, <1>4

LEMMA InvalidateHeld ==
  ASSUME NEW t \in Tabs, NEW S, HeldText(t, S), NEW adopt \in BOOLEAN
  PROVE  Keeps(t, invalidateQueries(t, adopt), S)
<1> DEFINE u == invalidateQueries(t, adopt)
<1>1. [st |-> "sent"] \in Reads
  BY DEF Reads
<1>2. ASSUME NEW a \in BOOLEAN
      PROVE  [t EXCEPT !.read = [st |-> "sent"], !.adopting = a] \in Tabs
  BY <1>1 DEF Tabs
<1>3. (t.adopting \/ adopt) \in BOOLEAN
  OBVIOUS
<1>4. u \in Tabs
  BY <1>2, <1>3 DEF invalidateQueries
<1>5. HeldText(u, S) /\ u.screen = t.screen
  BY DEF invalidateQueries, HeldText, AnswersHeld, Tabs
<1>6. QED
  BY <1>4, <1>5 DEF Keeps

\* A refused one.
LEMMA SaveErrorHeld ==
  ASSUME NEW t \in Tabs, NEW S, HeldText(t, S), NEW d \in Docs
  PROVE  Keeps(t, handleSaveError(t, d), S)
<1> DEFINE u == [t EXCEPT !.inFlight = @ \ {d}]
           v == markSaveFailed(u)
           w == [v EXCEPT !.dirty = TRUE, !.ui = "error"]
           c == syncLatestSavedCache(u)
<1>1. u \in Tabs /\ HeldText(u, S) /\ u.screen = t.screen
  BY DEF HeldText, AnswersHeld, Tabs
<1>2. CASE u.pending = d
  <2> HIDE DEF u
  <2>1. Keeps(u, v, S)
    BY <1>1, InvalidateHeld DEF markSaveFailed
  <2>2. v.pending = d /\ v.mounted = u.mounted
    BY <1>1, <1>2 DEF markSaveFailed, invalidateQueries, Tabs
  <2> HIDE DEF v
  <2>3. CASE v.mounted
    <3>1. v.dirty
      BY <1>2, <2>1, <2>2, <2>3, NoneAssumption DEF Keeps, HeldText
    <3>2. w \in Tabs
      BY <2>1 DEF Keeps, Tabs
    <3>3. HeldText(w, S) /\ w.screen = v.screen
      BY <2>1, <2>3, <3>1 DEF Keeps, HeldText, AnswersHeld, Tabs
    <3>4. QED
      BY <1>1, <1>2, <2>1, <2>3, <3>2, <3>3 DEF handleSaveError, Keeps, u, v
  <2>4. CASE ~v.mounted
    BY <1>1, <1>2, <2>1, <2>4 DEF handleSaveError, Keeps, u, v
  <2>5. QED
    BY <2>3, <2>4
<1>3. CASE u.pending # d
  <2>1. c \in Tabs
    BY <1>1 DEF syncLatestSavedCache, syncEssayCache, Tabs
  <2>2. HeldText(c, S) /\ c.screen = u.screen
    BY <1>1 DEF HeldText, AnswersHeld, syncLatestSavedCache, syncEssayCache, Tabs
  <2>3. QED
    BY <1>1, <1>3, <2>1, <2>2, SettlePendingHeld DEF handleSaveError, Keeps
<1>4. QED
  BY <1>2, <1>3

LEMMA DrainHeld ==
  ASSUME NEW t \in Tabs, NEW S, HeldText(t, S)
  PROVE  Keeps(t, drainQueue(t), S)
<1> DEFINE v == [t EXCEPT !.queued = None]
<1>1. v \in Tabs /\ HeldText(v, S) /\ v.screen = t.screen
  BY DEF HeldText, AnswersHeld, Tabs, MaybeDoc
<1>2. CASE t.queued # None
  <2>1. t.queued \in Docs
    BY <1>2 DEF Tabs, MaybeDoc
  <2>2. Keeps(v, saveDraft(v, t.queued, FALSE, FALSE), S)
    BY <1>1, <2>1, SaveDraftHeld
  <2>3. QED
    BY <1>1, <1>2, <2>2 DEF drainQueue, Keeps
<1>3. QED
  BY <1>2 DEF drainQueue, Keeps

LEMMA FlushHeld ==
  ASSUME NEW t \in Tabs, NEW S, HeldText(t, S), NEW asked \in BOOLEAN
  PROVE  Keeps(t, flush(t, asked), S)
<1> DEFINE v == [t EXCEPT !.timer = None]
<1>1. v \in Tabs /\ HeldText(v, S) /\ v.screen = t.screen
  BY DEF HeldText, AnswersHeld, Tabs, MaybeDoc
<1>2. CASE t.pending # None
  <2>1. t.pending \in Docs
    BY <1>2 DEF Tabs, MaybeDoc
  <2>2. Keeps(v, saveDraft(v, t.pending, FALSE, asked), S)
    BY <1>1, <2>1, SaveDraftHeld
  <2>3. QED
    BY <1>1, <1>2, <2>2 DEF flush, Keeps
<1>3. QED
  BY <1>1, <1>2 DEF flush, Keeps

LEMMA FlushKeepaliveHeld ==
  ASSUME NEW t \in Tabs, NEW S, HeldText(t, S)
  PROVE  Keeps(t, flushKeepalive(t), S)
<1>1. CASE t.pending # None
  <2>1. t.pending \in Docs
    BY <1>1 DEF Tabs, MaybeDoc
  <2>2. QED
    BY <1>1, <2>1, KeepaliveHeld DEF flushKeepalive
<1>2. QED
  BY <1>1 DEF flushKeepalive, Keeps

LEMMA FlushOnUnmountHeld ==
  ASSUME NEW t \in Tabs, NEW S, HeldText(t, S)
  PROVE  Keeps(t, flushOnUnmount(t), S)
<1> DEFINE v == [t EXCEPT !.timer = None]
<1>1. v \in Tabs /\ HeldText(v, S) /\ v.screen = t.screen
  BY DEF HeldText, AnswersHeld, Tabs, MaybeDoc
<1>2. CASE t.pending # None
  <2>1. t.pending \in Docs
    BY <1>2 DEF Tabs, MaybeDoc
  <2>2. /\ Keeps(v, saveDraft(v, t.pending, TRUE, FALSE), S)
        /\ Keeps(v, saveDraftKeepalive(v, t.pending, TRUE), S)
    BY <1>1, <2>1, SaveDraftHeld, KeepaliveHeld
  <2>3. QED
    BY <1>1, <1>2, <2>2 DEF flushOnUnmount, Keeps
<1>3. QED
  BY <1>1, <1>2 DEF flushOnUnmount, Keeps

LEMMA SendResolutionHeld ==
  ASSUME NEW t \in Tabs, NEW S, HeldText(t, S), t.resolving \in Resolvings, NEW seen \in BOOLEAN
  PROVE  Keeps(t, sendResolution(t, seen), S)
<1> DEFINE q == Resolution(t)
<1>2. q \in Requests /\ q.st = "sent"
  <2>1. Blank \in Docs
    BY EditorAssumption DEF Blank, Docs
  <2>2. QED
    BY <2>1 DEF Resolution, Request, Requests, Resolvings
<1>3. [t EXCEPT !.resolving = None] \in Tabs
  BY DEF Tabs
<1> HIDE DEF q
<1>4. [t EXCEPT !.resolving.st = "request", !.sent = @ \cup {q}] \in Tabs
  BY <1>2 DEF Tabs, Resolvings
<1>5. /\ HeldText([t EXCEPT !.resolving = None], S)
      /\ HeldText([t EXCEPT !.resolving.st = "request", !.sent = @ \cup {q}], S)
  BY <1>2 DEF HeldText, AnswersHeld, Tabs
<1>6. QED
  BY <1>3, <1>4, <1>5 DEF sendResolution, Keeps, Tabs, q

\* A render takes over the cache when nothing is dirty, and nothing else.
LEMMA RenderedType ==
  ASSUME NEW t \in Tabs
  PROVE  Rendered(t) \in Tabs
<1>1. DraftKey(t.cache.doc, "server") \in [doc: Docs, order: {"any", "editor", "server"}]
  BY DEF Tabs, Essays, DraftKey
<1>2. laterVersion(t.cache.ver, t.expected) \in Nat
  BY DEF Tabs, Essays, laterVersion
<1>3. adoptSavedDraft(t) \in Tabs
  <2>1. [t EXCEPT !.savedKey = DraftKey(t.cache.doc, "server"),
                  !.expected = laterVersion(t.cache.ver, @),
                  !.savedEssay = t.cache, !.timer = None, !.ui = "saved"] \in Tabs
    <3>1. t.cache \in Essays
      BY DEF Tabs
    <3>2. QED
      BY <1>1, <1>2, <3>1 DEF Tabs, MaybeDoc
  <2>2. QED
    BY <2>1 DEF adoptSavedDraft
<1>4. ASSUME NEW u \in Tabs PROVE resyncContent(u) \in Tabs
  BY DEF resyncContent, Tabs, Essays
<1>5. QED
  BY <1>3, <1>4 DEF Rendered

LEMMA RenderedFields ==
  ASSUME NEW t \in Tabs
  PROVE  LET u == Rendered(t) IN
         /\ u.cache = t.cache /\ u.read = t.read /\ u.adopting = t.adopting
         /\ u.pending = t.pending /\ u.dirty = t.dirty /\ u.inFlight = t.inFlight
         /\ u.direct = t.direct /\ u.queued = t.queued /\ u.needsSave = t.needsSave
         /\ u.mounted = t.mounted /\ u.hidden = t.hidden /\ u.resolving = t.resolving
         /\ u.sent = t.sent
         /\ ~t.mounted => u = t
         /\ t.dirty => u = t
         /\ t.mounted /\ ~t.dirty => u.screen = t.cache.doc
         /\ t.pending # None => /\ u.savedKey = t.savedKey /\ u.savedEssay = t.savedEssay
                               /\ u.timer = t.timer /\ u.ui = t.ui
         /\ t.mounted /\ ~t.dirty /\ t.pending = None =>
              /\ u.savedKey = DraftKey(t.cache.doc, "server") /\ u.savedEssay = t.cache
              /\ u.timer = None /\ u.ui = "saved"
         /\ u.savedKey \in {t.savedKey, DraftKey(t.cache.doc, "server")}
         /\ u.savedEssay \in {t.savedEssay, t.cache}
BY DEF Rendered, resyncContent, adoptSavedDraft, Tabs

\* What it replaces on the screen is the server's.
LEMMA RenderedShows ==
  ASSUME NEW t, NEW u, NEW S, Shows(t, u, S)
  PROVE  Shows(t, Rendered(u), S)
<1>1. u \in Tabs /\ HeldText(u, S)
  BY DEF Shows
<1>2. Rendered(u) \in Tabs
  BY <1>1, RenderedType
<1>3. DraftKey(u.cache.doc, "server").doc = u.cache.doc
  BY DEF DraftKey
<1>4. HeldText(Rendered(u), S)
  BY <1>1, <1>3, RenderedFields DEF HeldText, AnswersHeld, Tabs
<1>5. u.screen.text # Rendered(u).screen.text => u.screen.text \in S
  BY <1>1, RenderedFields DEF HeldText, Tabs
<1>6. QED
  BY <1>1, <1>2, <1>4, <1>5 DEF Shows

\* Typing makes the new document pending, unless it is what was last saved.
LEMMA QueueSaveHeld ==
  ASSUME NEW t \in Tabs, NEW S, HeldText(t, S), t.mounted, NEW d \in Docs
  PROVE  LET u == queueSave([t EXCEPT !.screen = d], d)
         IN  u \in Tabs /\ HeldText(u, S)
<1> DEFINE s == [t EXCEPT !.screen = d]
           n == [s EXCEPT !.needsSave = FALSE]
           a == [n EXCEPT !.pending = d, !.timer = d, !.dirty = TRUE, !.ui = "saving"]
           b == [n EXCEPT !.pending = d, !.timer = None, !.dirty = TRUE, !.ui = "saving",
                          !.queued = IF s.direct # None THEN d ELSE @]
           c == [n EXCEPT !.pending = None, !.timer = None, !.dirty = FALSE, !.ui = "saved"]
<1>1. queueSave(s, d) = IF s.savedKey # DraftKey(d, "editor") THEN a
                        ELSE IF hasConflictingInFlight(s, d) THEN b ELSE c
  BY DEF queueSave
<1>2. n \in Tabs /\ n.screen = d /\ n.savedKey = t.savedKey /\ n.mounted
  BY DEF Tabs
<1>3. /\ n.cache = t.cache /\ n.savedEssay = t.savedEssay /\ n.read = t.read
      /\ n.sent = t.sent
  BY DEF Tabs
<1>4. a \in Tabs /\ c \in Tabs /\ b \in Tabs
  <2>1. ASSUME NEW q \in MaybeDoc PROVE [n EXCEPT !.pending = d, !.timer = None, !.dirty = TRUE, !.ui = "saving",
                          !.queued = q] \in Tabs
    BY <1>2 DEF Tabs, MaybeDoc
  <2>2. n.queued \in MaybeDoc /\ d \in MaybeDoc
    BY <1>2 DEF Tabs, MaybeDoc
  <2> HIDE DEF n
  <2>3. a \in Tabs
    <3>1. ASSUME NEW p \in MaybeDoc
          PROVE  [n EXCEPT !.pending = p, !.timer = p, !.dirty = TRUE, !.ui = "saving"] \in Tabs
      BY <1>2 DEF Tabs
    <3>2. QED
      BY <2>2, <3>1
  <2>4. c \in Tabs
    BY <1>2 DEF Tabs, MaybeDoc
  <2>5. QED
    BY <2>1, <2>2, <2>3, <2>4
<1>5. t.savedKey = DraftKey(d, "editor") => d.text \in S
  BY DEF HeldText, DraftKey
<1>6. s.savedKey = t.savedKey
  BY DEF Tabs
<1> HIDE DEF n
<1>7. HeldText(a, S) /\ HeldText(b, S)
  BY <1>2, <1>3, NoneAssumption DEF HeldText, AnswersHeld, Tabs
<1>8. t.savedKey = DraftKey(d, "editor") => HeldText(c, S)
  BY <1>2, <1>3, <1>5 DEF HeldText, AnswersHeld, Tabs
<1>9. QED
  BY <1>1, <1>4, <1>6, <1>7, <1>8

\* The answer to a resolution spares a dirty page.
LEMMA ResolvedHeld ==
  ASSUME NEW t \in Tabs, NEW S, HeldText(t, S), NEW essay \in Essays, essay.doc.text \in S
  PROVE  Shows(t, resolved(t, essay), S)
<1> DEFINE moved == t.cache.ver > essay.ver
           apply == t.resolving.action \in {"accept", "acceptAll"} /\ ~moved /\ ~t.dirty
           u == IF apply THEN applyToEditor(t, essay) ELSE t
           v == IF moved THEN u ELSE [u EXCEPT !.cache = essay]
           w == invalidateQueries(v, FALSE)
<1>1. resolved(t, essay) = [w EXCEPT !.resolving = None]
  BY DEF resolved
<1>2. Shows(t, u, S)
  BY DEF Shows, applyToEditor, HeldText, AnswersHeld, Tabs, Essays
<1> HIDE DEF u
<1>3. Shows(t, v, S)
  BY <1>2 DEF Shows, HeldText, AnswersHeld, Tabs
<1> HIDE DEF v
<1>4. Keeps(v, w, S)
  BY <1>3, InvalidateHeld DEF Shows
<1> HIDE DEF w
<1>5. Shows(v, [w EXCEPT !.resolving = None], S) /\ [w EXCEPT !.resolving = None].screen = v.screen
  BY <1>4 DEF Keeps, Shows, HeldText, AnswersHeld, Tabs
<1>6. QED
  BY <1>1, <1>3, <1>5 DEF Shows
-----------------------------------------------------------------------------
\* What every step has to show for the first invariant.
StepOK ==
  /\ TypeInv' /\ StoredInv'
  /\ typed' = typed /\ tab'.screen.text # tab.screen.text => tab.screen.text \in hist.stored

LEMMA TabStep ==
  ASSUME TypeInv, StoredInv, Shows(tab, tab', hist.stored),
         UNCHANGED <<server, clock, hist>>, event' \in BOOLEAN, typed' \in 0..MaxTyped, faults' \in 0..MaxFaults
  PROVE  StepOK
BY DEF StepOK, TypeInv, StoredInv, Shows

LEMMA KeepsShows ==
  ASSUME NEW t, NEW u, NEW S, Keeps(t, u, S)
  PROVE  Shows(t, u, S)
BY DEF Keeps, Shows

\* The first invariant holds in the beginning.
LEMMA InitHeld ==
  ASSUME Init
  PROVE  TypeInv /\ StoredInv
<1>1. PICK d \in {Blank, [text |-> 1, edits |-> {}]} :
        LET essay == [doc |-> d, ver |-> 1, sugs |-> {}] IN
        /\ server = essay /\ clock = 1 /\ event = FALSE
        /\ tab = [screen |-> d, cache |-> essay, read |-> None, adopting |-> FALSE,
                  pending |-> None, dirty |-> FALSE, ui |-> "saved", expected |-> 1,
                  savedKey |-> DraftKey(d, "server"), savedEssay |-> essay,
                  inFlight |-> {}, direct |-> None, queued |-> None,
                  needsSave |-> FALSE, timer |-> None, mounted |-> TRUE,
                  hidden |-> FALSE, resolving |-> None, sent |-> {}]
        /\ typed = 0 /\ faults = 0
        /\ hist = [last |-> d.text, stored |-> {d.text}, had |-> {d.text},
                   back |-> FALSE, made |-> {}, hides |-> 0, kept |-> FALSE]
  BY DEF Init
<1>2. d \in Docs
  BY EditorAssumption DEF Blank, Docs
<1>3. [doc |-> d, ver |-> 1, sugs |-> {}] \in Essays
  BY <1>2 DEF Essays
<1>4. DraftKey(d, "server") \in [doc: Docs, order: {"any", "editor", "server"}]
      /\ DraftKey(d, "server").doc = d
  BY <1>2 DEF DraftKey
<1>5. server \in Essays /\ clock \in Nat /\ event \in BOOLEAN /\ typed \in 0..MaxTyped
      /\ faults \in 0..MaxFaults /\ d.text \in Texts
  <2>1. server \in Essays
    BY <1>1, <1>3
  <2>2. clock = 1 /\ event = FALSE /\ typed = 0 /\ faults = 0
    BY <1>1
  <2>3. d.text \in Texts
    BY <1>2 DEF Docs
  <2>4. QED
    <3>1. event \in BOOLEAN /\ clock \in Nat
      BY <2>2
    <3>2. typed \in 0..MaxTyped /\ faults \in 0..MaxFaults
      BY <2>2, EditorAssumption
    <3>3. QED
      BY <2>1, <2>3, <3>1, <3>2
<1>6. hist \in Hists
  BY <1>1, <1>5 DEF Hists
<1>7. tab \in Tabs
  BY <1>1, <1>2, <1>3, <1>4 DEF Tabs, MaybeDoc
<1>8. StoredInv
  BY <1>1, <1>4, NoneAssumption DEF StoredInv, HeldText, AnswersHeld
<1>9. QED
  BY <1>5, <1>6, <1>7, <1>8 DEF TypeInv

\* A step of the server's row.
LEMMA RowStep ==
  ASSUME TypeInv, StoredInv, server' \in Essays, clock' \in Nat, event' \in BOOLEAN,
         hist' \in Hists, server'.doc.text \in hist'.stored, Keeps(tab, tab', hist'.stored),
         UNCHANGED typed, faults' \in 0..MaxFaults
  PROVE  StepOK
BY DEF StepOK, TypeInv, StoredInv, Keeps

\* A request that changes its state.
LEMMA OutcomeHeld ==
  ASSUME TypeInv, NEW r \in tab.sent, NEW st \in {"written", "refused"}, NEW S, NEW U,
         HeldText(tab, S), S \subseteq U,
         st = "written" /\ r.kind \in {"save", "keepalive"} => r.doc.text \in U,
         Outcome(r, st)
  PROVE  Keeps(tab, tab', U)
<1> DEFINE q == [r EXCEPT !.st = st]
<1>1. r \in Requests
  BY DEF TypeInv, Tabs
<1>2. q \in Requests /\ q.kind = r.kind /\ q.doc = r.doc /\ q.st = st
  BY <1>1 DEF Requests
<1> HIDE DEF q
<1>3. tab' = [tab EXCEPT !.sent = (@ \ {r}) \cup {q}]
  BY DEF Outcome, q
<1>4. tab' \in Tabs
  BY <1>2, <1>3 DEF TypeInv, Tabs
<1>5. HeldText(tab', U)
  BY <1>2, <1>3 DEF TypeInv, Tabs, HeldText, AnswersHeld
<1>6. QED
  BY <1>3, <1>4, <1>5 DEF Keeps, TypeInv, Tabs

\* A write of the row.
LEMMA WrittenTypes ==
  ASSUME TypeInv, NEW essay \in Essays, Written(essay)
  PROVE  /\ server' \in Essays /\ clock' \in Nat /\ event' /\ hist' \in Hists
         /\ server'.doc = essay.doc
         /\ hist' = [hist EXCEPT !.stored = hist.stored \cup {essay.doc.text}]
         /\ hist'.stored = hist.stored \cup {essay.doc.text}
<1>1. essay.doc.text \in Texts
  BY DEF Essays, Docs
<1>2. QED
  BY <1>1 DEF Written, Stored, TypeInv, Essays, Hists

\* The server's actions.
LEMMA UpdateStep ==
  ASSUME TypeInv, StoredInv, NEW r \in tab.sent, update_essay(r)
  PROVE  StepOK
<1>1. r \in Requests /\ UNCHANGED typed /\ faults' \in 0..MaxFaults
  BY DEF TypeInv, Tabs, update_essay
<1>2. CASE r.guard \in {None, server.ver}
  <2> DEFINE e == [server EXCEPT !.doc = r.doc]
  <2>1. e \in Essays /\ e.doc = r.doc
    BY <1>1 DEF TypeInv, Essays, Requests
  <2>2. Written(e) /\ Outcome(r, "written")
    BY <1>2 DEF update_essay
  <2> HIDE DEF e
  <2>3. Keeps(tab, tab', hist'.stored)
    BY <2>1, <2>2, WrittenTypes, OutcomeHeld DEF StoredInv
  <2>4. QED
    BY <1>1, <2>1, <2>2, <2>3, WrittenTypes, RowStep
<1>3. CASE r.guard \notin {None, server.ver}
  <2>1. Keeps(tab, tab', hist.stored) /\ UNCHANGED <<server, clock, event, hist>>
    BY <1>3, OutcomeHeld DEF update_essay, Refused, StoredInv
  <2>2. QED
    BY <1>1, <2>1, RowStep DEF TypeInv, StoredInv
<1>4. QED
  BY <1>2, <1>3

LEMMA ResolveStep ==
  ASSUME TypeInv, StoredInv, NEW r \in tab.sent, resolve_suggestion(r)
  PROVE  StepOK
<1>1. r \in Requests /\ UNCHANGED typed /\ faults' \in 0..MaxFaults
      /\ r.kind \notin {"save", "keepalive"}
  BY DEF TypeInv, Tabs, resolve_suggestion
<1> DEFINE rest == [server EXCEPT !.sugs = @ \ r.ids]
           e == IF r.kind = "accept"
                THEN [rest EXCEPT !.doc.edits = @ \cup r.ids] ELSE rest
<1>2. e \in Essays /\ e.doc.text = server.doc.text
  BY <1>1 DEF TypeInv, Essays, Docs, Requests
<1>3. CASE Written(e) /\ Outcome(r, "written")
  <2> HIDE DEF e
  <2>1. Keeps(tab, tab', hist'.stored)
    BY <1>1, <1>2, <1>3, WrittenTypes, OutcomeHeld DEF StoredInv
  <2>2. QED
    BY <1>1, <1>2, <1>3, <2>1, WrittenTypes, RowStep
<1>4. CASE Refused /\ Outcome(r, "refused")
  <2>1. Keeps(tab, tab', hist.stored) /\ UNCHANGED <<server, clock, event, hist>>
    BY <1>4, OutcomeHeld DEF Refused, StoredInv
  <2>2. QED
    BY <1>1, <2>1, RowStep DEF TypeInv, StoredInv
<1>5. QED
  BY <1>3, <1>4 DEF resolve_suggestion

LEMMA ResolveAllStep ==
  ASSUME TypeInv, StoredInv, NEW r \in tab.sent, resolve_all_suggestions(r)
  PROVE  StepOK
<1>1. r \in Requests /\ UNCHANGED typed /\ faults' \in 0..MaxFaults
      /\ r.kind \notin {"save", "keepalive"} /\ Outcome(r, "written")
  BY DEF TypeInv, Tabs, resolve_all_suggestions
<1>2. PICK applied \in SUBSET server.sugs :
        Written([server EXCEPT !.sugs = IF r.kind = "rejectAll" THEN {} ELSE @ \ applied,
                               !.doc.edits = @ \cup applied])
  BY DEF resolve_all_suggestions
<1> DEFINE e == [server EXCEPT !.sugs = IF r.kind = "rejectAll" THEN {} ELSE @ \ applied,
                               !.doc.edits = @ \cup applied]
<1>3. e \in Essays /\ e.doc.text = server.doc.text
  BY <1>1 DEF TypeInv, Essays, Docs
<1> HIDE DEF e
<1>4. Written(e)
  BY <1>2 DEF e
<1>5. Keeps(tab, tab', hist'.stored)
  BY <1>1, <1>3, <1>4, WrittenTypes, OutcomeHeld DEF StoredInv
<1>6. QED
  BY <1>1, <1>3, <1>4, <1>5, WrittenTypes, RowStep

LEMMA GetStep ==
  ASSUME TypeInv, StoredInv, NEW r \in tab.sent, get_essay(r)
  PROVE  StepOK
<1> DEFINE q == [r EXCEPT !.st = "answered", !.essay = server]
<1>1. r \in Requests
  BY DEF TypeInv, Tabs
<1>2. q \in Requests /\ q.kind = r.kind /\ q.doc = r.doc /\ q.essay = server
  BY <1>1 DEF Requests, TypeInv
<1> HIDE DEF q
<1>3. tab' = [tab EXCEPT !.sent = (@ \ {r}) \cup {q}] /\ r.st = "written"
  BY DEF get_essay, q
<1>4. tab' \in Tabs
  BY <1>2, <1>3 DEF TypeInv, Tabs
<1>5. HeldText(tab', hist.stored)
  BY <1>2, <1>3 DEF TypeInv, Tabs, HeldText, AnswersHeld, StoredInv
<1>6. Keeps(tab, tab', hist.stored)
  BY <1>3, <1>4, <1>5 DEF Keeps, TypeInv, Tabs
<1>7. QED
  BY <1>6, RowStep DEF get_essay, TypeInv, StoredInv

\* A step of the page that leaves the screen alone before it renders.
LEMMA PageStep ==
  ASSUME TypeInv, StoredInv, NEW u, Shows(tab, u, hist.stored), tab' = Rendered(u),
         UNCHANGED <<server, clock, hist, typed>>, event' \in BOOLEAN, faults' \in 0..MaxFaults
  PROVE  StepOK
BY RenderedShows, TabStep DEF TypeInv

\* The page's actions.
LEMMA TypeStep ==
  ASSUME TypeInv, StoredInv, NEW text \in Texts, Type(text)
  PROVE  StepOK
<1> DEFINE d == [tab.screen EXCEPT !.text = text]
           u == queueSave([tab EXCEPT !.screen = d], d)
<1>1. d \in Docs
  BY DEF TypeInv, Tabs, Docs
<1>2. u \in Tabs /\ HeldText(u, hist.stored)
  BY <1>1, QueueSaveHeld DEF Type, TypeInv, StoredInv
<1>3. tab' = Rendered(u)
  BY DEF Type
<1>4. Shows(u, tab', hist.stored)
  BY <1>2, <1>3, RenderedShows DEF Shows
<1>5. hist' \in Hists /\ hist'.stored = hist.stored
  <2>1. (hist.back \/ (text \in hist.had /\ typed # 1)) \in BOOLEAN
    OBVIOUS
  <2>2. ASSUME NEW b \in BOOLEAN
        PROVE  [hist EXCEPT !.last = text, !.had = @ \cup {text}, !.back = b] \in Hists
    BY DEF TypeInv, Hists
  <2>3. QED
    BY <2>1, <2>2 DEF Type, TypeInv, Hists
<1>6. typed' = typed + 1 /\ typed' \in 0..MaxTyped
  BY EditorAssumption DEF Type, TypeInv
<1>7. UNCHANGED <<server, clock, event, faults>>
  BY DEF Type
<1>8. typed \in Nat
  BY DEF TypeInv
<1>9. TypeInv'
  BY <1>4, <1>5, <1>6, <1>7 DEF TypeInv, Shows
<1>10. StoredInv'
  BY <1>4, <1>5, <1>7 DEF StoredInv, Shows
<1>11. QED
  BY <1>6, <1>8, <1>9, <1>10 DEF StepOK

LEMMA TimerStep ==
  ASSUME TypeInv, StoredInv, AutosaveTimer
  PROVE  StepOK
<1> DEFINE v == [tab EXCEPT !.timer = None]
           u == saveDraft(v, tab.timer, FALSE, FALSE)
<1>1. tab.timer \in Docs
  BY DEF AutosaveTimer, TypeInv, Tabs, MaybeDoc
<1>2. v \in Tabs /\ HeldText(v, hist.stored) /\ v.screen = tab.screen
  BY DEF HeldText, AnswersHeld, Tabs, MaybeDoc, TypeInv, StoredInv
<1> HIDE DEF v
<1>3. Keeps(v, u, hist.stored)
  BY <1>1, <1>2, SaveDraftHeld
<1>4. Shows(tab, u, hist.stored)
  BY <1>2, <1>3 DEF Keeps, Shows
<1>5. tab' = Rendered(u)
  BY DEF AutosaveTimer, v
<1>6. QED
  BY <1>4, <1>5, PageStep DEF AutosaveTimer, TypeInv

LEMMA FlushStep ==
  ASSUME TypeInv, StoredInv, Blur \/ Retry
  PROVE  StepOK
<1>1. PICK asked \in BOOLEAN : tab' = Rendered(flush(tab, asked))
  BY DEF Blur, Retry
<1>2. Shows(tab, flush(tab, asked), hist.stored)
  BY FlushHeld, KeepsShows DEF TypeInv, StoredInv
<1>3. QED
  BY <1>1, <1>2, PageStep DEF Blur, Retry, TypeInv

LEMMA HideStep ==
  ASSUME TypeInv, StoredInv, Hide
  PROVE  StepOK
<1> DEFINE v == [tab EXCEPT !.hidden = TRUE]
<1>1. v \in Tabs /\ HeldText(v, hist.stored) /\ v.screen = tab.screen
  BY DEF HeldText, AnswersHeld, Tabs, TypeInv, StoredInv
<1>2. tab' = Rendered(flushKeepalive(v))
  BY DEF Hide
<1> HIDE DEF v
<1>3. Keeps(v, flushKeepalive(v), hist.stored)
  BY <1>1, FlushKeepaliveHeld
<1>4. Shows(tab, tab', hist.stored)
  BY <1>1, <1>2, <1>3, RenderedShows DEF Keeps, Shows
<1>5. hist' \in Hists /\ hist'.stored = hist.stored
  <2>1. ASSUME NEW b \in BOOLEAN
        PROVE  [hist EXCEPT !.hides = @ + 1, !.kept = b] \in Hists
    <3>1. hist \in Hists /\ hist.hides + 1 \in Nat
      BY DEF TypeInv, Hists
    <3>2. QED
      BY <3>1 DEF Hists
  <2>2. (hist.kept \/ tab.pending # None) \in BOOLEAN
    OBVIOUS
  <2>3. QED
    BY <2>1, <2>2 DEF Hide, TypeInv, Hists
<1>6. UNCHANGED <<server, clock, event, typed, faults>>
  BY DEF Hide
<1>7. TypeInv' /\ StoredInv'
  BY <1>4, <1>5, <1>6 DEF TypeInv, StoredInv, Shows
<1>8. QED
  BY <1>4, <1>7 DEF StepOK, Shows

LEMMA ShowStep ==
  ASSUME TypeInv, StoredInv, Show
  PROVE  StepOK
<1>1. [st |-> "sent"] \in Reads
  BY DEF Reads
<1>2. tab' \in Tabs
  BY <1>1 DEF Show, TypeInv, Tabs
<1>3. HeldText(tab', hist.stored) /\ tab'.screen = tab.screen
  BY DEF Show, HeldText, AnswersHeld, Tabs, TypeInv, StoredInv
<1>4. QED
  BY <1>2, <1>3, TabStep DEF Show, Shows, TypeInv

LEMMA LeaveStep ==
  ASSUME TypeInv, StoredInv, Leave
  PROVE  StepOK
<1> DEFINE v == [tab EXCEPT !.mounted = FALSE, !.read = None]
<1>1. v \in Tabs /\ v.screen = tab.screen
  BY DEF Tabs, TypeInv
<1>2. HeldText(v, hist.stored)
  BY NoneAssumption DEF HeldText, AnswersHeld, Tabs, TypeInv, StoredInv
<1> HIDE DEF v
<1>3. Keeps(v, flushOnUnmount(v), hist.stored)
  BY <1>1, <1>2, FlushOnUnmountHeld
<1>4. tab' = flushOnUnmount(v)
  BY DEF Leave, v
<1>5. QED
  BY <1>1, <1>3, <1>4, TabStep DEF Leave, Keeps, Shows, TypeInv

LEMMA FlushKeepsResolving ==
  ASSUME NEW t \in Tabs, NEW asked \in BOOLEAN
  PROVE  flush(t, asked).resolving = t.resolving
<1> DEFINE v == [t EXCEPT !.timer = None]
<1>1. v \in Tabs /\ v.resolving = t.resolving
  BY DEF Tabs, MaybeDoc
<1> HIDE DEF v
<1>2. saveDraft(v, t.pending, FALSE, asked).resolving = v.resolving
  BY <1>1 DEF saveDraft, Saving, Tabs
<1>3. QED
  BY <1>1, <1>2 DEF flush, v

LEMMA ResolveBegins ==
  ASSUME TypeInv, StoredInv, NEW action \in Resolutions, NEW ids \in SUBSET Sugs,
         resolve(action, ids)
  PROVE  StepOK
<1> DEFINE v == [tab EXCEPT !.resolving = [action |-> action, ids |-> ids, st |-> "flush"]]
           u == flush(v, FALSE)
           w == IF tab.pending # None /\ u.direct # None THEN u ELSE sendResolution(u, u.dirty)
<1>1. v \in Tabs /\ HeldText(v, hist.stored) /\ v.screen = tab.screen
      /\ v.resolving = [action |-> action, ids |-> ids, st |-> "flush"]
  BY DEF HeldText, AnswersHeld, Tabs, TypeInv, StoredInv, Resolvings
<1>2. tab' = Rendered(w)
  BY DEF resolve
<1> HIDE DEF v
<1>3. Keeps(v, u, hist.stored)
  BY <1>1, FlushHeld
<1>4. Keeps(v, w, hist.stored)
  <2>1. u.resolving \in Resolvings
    <3>1. v.resolving \in Resolvings
      BY <1>1 DEF Resolvings
    <3>2. flush(v, FALSE).resolving = v.resolving
      BY <1>1, FlushKeepsResolving
    <3>3. QED
      BY <3>1, <3>2
  <2>2. u.dirty \in BOOLEAN
    BY <1>3 DEF Keeps, Tabs
  <2> HIDE DEF u
  <2>3. Keeps(u, sendResolution(u, u.dirty), hist.stored)
    BY <1>3, <2>1, <2>2, SendResolutionHeld DEF Keeps
  <2>4. QED
    BY <1>3, <2>3 DEF Keeps
<1>5. Shows(tab, w, hist.stored)
  BY <1>1, <1>4 DEF Keeps, Shows
<1>6. QED
  BY <1>2, <1>5, PageStep DEF resolve, TypeInv

LEMMA LoseStep ==
  ASSUME TypeInv, StoredInv, NEW r \in tab.sent, Lose(r)
  PROVE  StepOK
<1>1. Keeps(tab, tab', hist.stored) /\ UNCHANGED <<server, clock, event, hist, typed>>
  BY OutcomeHeld DEF Lose, StoredInv
<1>2. faults' \in 0..MaxFaults
  BY EditorAssumption DEF Lose, TypeInv
<1>3. QED
  BY <1>1, <1>2, RowStep DEF TypeInv, StoredInv

LEMMA AppendStep ==
  ASSUME TypeInv, StoredInv, NEW s \in Sugs, append_suggestions(s)
  PROVE  StepOK
<1> DEFINE e == [server EXCEPT !.sugs = @ \cup {s}]
<1>1. e \in Essays /\ e.doc = server.doc
  BY DEF TypeInv, Essays
<1>2. Stored(e)
  BY DEF append_suggestions
<1> HIDE DEF e
<1>3. server' \in Essays /\ server'.doc = server.doc /\ clock' \in Nat /\ event' \in BOOLEAN
  BY <1>1, <1>2 DEF Stored, TypeInv, Essays
<1>4. hist' \in Hists /\ hist'.stored = hist.stored
  BY DEF append_suggestions, TypeInv, Hists
<1>5. UNCHANGED <<tab, typed, faults>>
  BY DEF append_suggestions
<1>6. QED
  BY <1>3, <1>4, <1>5, RowStep DEF TypeInv, StoredInv, Keeps

LEMMA ReadAnsweredStep ==
  ASSUME TypeInv, StoredInv, ReadAnswered
  PROVE  StepOK
<1>1. [st |-> "answered", essay |-> server] \in Reads
  BY DEF Reads, TypeInv
<1>2. tab' \in Tabs
  BY <1>1 DEF ReadAnswered, TypeInv, Tabs
<1>3. HeldText(tab', hist.stored) /\ tab'.screen = tab.screen
  BY DEF ReadAnswered, HeldText, AnswersHeld, Tabs, TypeInv, StoredInv
<1>4. QED
  BY <1>2, <1>3, TabStep DEF ReadAnswered, Shows, TypeInv

LEMMA ChangeStep ==
  ASSUME TypeInv, StoredInv, ChangeEvent
  PROVE  StepOK
<1>1. Shows(tab, invalidateQueries(tab, FALSE), hist.stored)
  BY InvalidateHeld, KeepsShows DEF TypeInv, StoredInv
<1>2. QED
  BY <1>1, PageStep DEF ChangeEvent, TypeInv

LEMMA ReadReturnsStep ==
  ASSUME TypeInv, StoredInv, ReadReturns
  PROVE  StepOK
<1> DEFINE c == IF tab.read.st = "answered" THEN tab.read.essay ELSE tab.cache
           t == [tab EXCEPT !.read = None, !.adopting = FALSE,
                            !.cache = IF tab.read.st = "answered" THEN tab.read.essay ELSE @]
           u == IF tab.adopting
                THEN [t EXCEPT !.expected = laterVersion(t.cache.ver, @)] ELSE t
<1>1. tab.read \in Reads
  BY DEF ReadReturns, TypeInv, Tabs
<1>2. c \in Essays /\ c.doc.text \in hist.stored
  BY <1>1 DEF Reads, TypeInv, StoredInv, HeldText, Tabs
<1>3. t = [tab EXCEPT !.read = None, !.adopting = FALSE, !.cache = c]
  BY DEF TypeInv, Tabs
<1> HIDE DEF c
<1>4. t \in Tabs /\ t.cache = c
  <2>1. [tab EXCEPT !.read = None, !.adopting = FALSE, !.cache = c] \in Tabs
    BY <1>2 DEF TypeInv, Tabs
  <2>2. [tab EXCEPT !.read = None, !.adopting = FALSE, !.cache = c].cache = c
    BY DEF TypeInv, Tabs
  <2>3. QED
    BY <1>3, <2>1, <2>2
<1>5. HeldText(t, hist.stored) /\ t.screen = tab.screen
  <2>1. /\ t.read = None /\ t.screen = tab.screen /\ t.savedEssay = tab.savedEssay
        /\ t.savedKey = tab.savedKey /\ t.sent = tab.sent /\ t.dirty = tab.dirty
        /\ t.mounted = tab.mounted /\ t.pending = tab.pending
    BY DEF TypeInv, Tabs
  <2> HIDE DEF t
  <2>2. QED
    BY <1>2, <1>4, <2>1, NoneAssumption DEF HeldText, AnswersHeld, StoredInv
<1>6. tab' = Rendered(u)
  BY DEF ReadReturns
<1> HIDE DEF t
<1>7. laterVersion(t.cache.ver, t.expected) \in Nat
  BY <1>4 DEF Tabs, Essays, laterVersion
<1>8. u \in Tabs
  BY <1>4, <1>7 DEF Tabs
<1>9. HeldText(u, hist.stored) /\ u.screen = t.screen
  BY <1>4, <1>5 DEF HeldText, AnswersHeld, Tabs
<1>10. faults' \in 0..MaxFaults
  BY EditorAssumption DEF ReadReturns, TypeInv
<1>11. QED
  BY <1>5, <1>6, <1>8, <1>9, <1>10, PageStep DEF ReadReturns, Shows, TypeInv

LEMMA AfterFlushHeld ==
  ASSUME NEW t \in Tabs, NEW S, HeldText(t, S), NEW ends, NEW seen \in BOOLEAN,
         NEW w \in afterFlush(t, ends, seen)
  PROVE  Keeps(t, w, S)
BY SendResolutionHeld DEF afterFlush, Keeps, Tabs

LEMMA SaveReturnsStep ==
  ASSUME TypeInv, StoredInv, NEW r \in tab.sent, SaveReturns(r)
  PROVE  StepOK
<1> DEFINE t == [tab EXCEPT !.sent = @ \ {r}, !.direct = None]
           u == IF r.st = "answered" THEN handleSaveSuccess(t, r.doc, r.essay)
                ELSE handleSaveError(t, r.doc)
           v == drainQueue(u)
<1>1. r \in Requests /\ r.doc \in Docs
  BY DEF TypeInv, Tabs, Requests
<1>2. t \in Tabs /\ HeldText(t, hist.stored) /\ t.screen = tab.screen
  <2>1. t \in Tabs
    BY DEF TypeInv, Tabs, MaybeDoc
  <2>2. HeldText(t, hist.stored) /\ t.screen = tab.screen
    BY DEF TypeInv, StoredInv, Tabs, HeldText, AnswersHeld
  <2>3. QED
    BY <2>1, <2>2
<1>3. r.st = "answered" => r.doc.text \in hist.stored /\ r.essay \in Essays
                           /\ r.essay.doc.text \in hist.stored
  BY DEF SaveReturns, StoredInv, HeldText, AnswersHeld
<1>4. PICK w \in afterFlush(v, v.direct = None, tab.dirty) : tab' = Rendered(w)
  BY DEF SaveReturns
<1>5. UNCHANGED <<server, clock, event, typed, faults, hist>>
  BY DEF SaveReturns
<1>6. tab.dirty \in BOOLEAN
  BY DEF TypeInv, Tabs
<1> HIDE DEF t
<1>7. Keeps(t, u, hist.stored)
  BY <1>1, <1>2, <1>3, SaveSuccessHeld, SaveErrorHeld
<1> HIDE DEF u
<1>8. Keeps(u, v, hist.stored)
  BY <1>7, DrainHeld DEF Keeps
<1> HIDE DEF v
<1>9. Keeps(v, w, hist.stored)
  BY <1>4, <1>6, <1>8, AfterFlushHeld DEF Keeps
<1>10. Shows(tab, w, hist.stored)
  BY <1>2, <1>7, <1>8, <1>9 DEF Keeps, Shows
<1>11. QED
  BY <1>4, <1>5, <1>10, PageStep DEF TypeInv

LEMMA KeepaliveReturnsStep ==
  ASSUME TypeInv, StoredInv, NEW r \in tab.sent, KeepaliveReturns(r)
  PROVE  StepOK
<1> DEFINE t == [tab EXCEPT !.sent = @ \ {r}]
           q == [t EXCEPT !.queued = IF @ = r.doc THEN None ELSE @]
           u == IF r.st = "answered" THEN handleSaveSuccess(q, r.doc, r.essay)
                ELSE handleSaveError(t, r.doc)
<1>1. r \in Requests /\ r.doc \in Docs
  BY DEF TypeInv, Tabs, Requests
<1>2. t \in Tabs /\ HeldText(t, hist.stored) /\ t.screen = tab.screen
  BY DEF TypeInv, StoredInv, Tabs, HeldText, AnswersHeld
<1>3. r.st = "answered" => r.doc.text \in hist.stored /\ r.essay \in Essays
                           /\ r.essay.doc.text \in hist.stored
  BY DEF KeepaliveReturns, StoredInv, HeldText, AnswersHeld
<1>4. tab' = Rendered(u)
  BY DEF KeepaliveReturns
<1>5. UNCHANGED <<server, clock, event, typed, faults, hist>>
  BY DEF KeepaliveReturns
<1> HIDE DEF t
<1>6. q \in Tabs /\ HeldText(q, hist.stored) /\ q.screen = t.screen
  BY <1>2 DEF Tabs, MaybeDoc, HeldText, AnswersHeld
<1> HIDE DEF q
<1>7. Keeps(t, u, hist.stored)
  BY <1>1, <1>2, <1>3, <1>6, SaveSuccessHeld, SaveErrorHeld DEF Keeps
<1>8. Shows(tab, u, hist.stored)
  BY <1>2, <1>7 DEF Keeps, Shows
<1>9. QED
  BY <1>4, <1>5, <1>8, PageStep DEF TypeInv

LEMMA ResolutionReturnsStep ==
  ASSUME TypeInv, StoredInv, NEW r \in tab.sent, ResolutionReturns(r)
  PROVE  StepOK
<1> DEFINE t == [tab EXCEPT !.sent = @ \ {r}]
           u == IF r.st = "answered" THEN resolved(t, r.essay) ELSE [t EXCEPT !.resolving = None]
<1>1. t \in Tabs /\ HeldText(t, hist.stored) /\ t.screen = tab.screen
  BY DEF TypeInv, StoredInv, Tabs, HeldText, AnswersHeld
<1>2. r.st = "answered" => r.essay \in Essays /\ r.essay.doc.text \in hist.stored
  BY DEF StoredInv, HeldText, AnswersHeld
<1>3. tab' = Rendered(u)
  BY DEF ResolutionReturns
<1>4. UNCHANGED <<server, clock, event, typed, faults, hist>>
  BY DEF ResolutionReturns
<1> HIDE DEF t
<1>5. Shows(t, [t EXCEPT !.resolving = None], hist.stored)
  BY <1>1 DEF Shows, Tabs, HeldText, AnswersHeld
<1>6. Shows(t, u, hist.stored)
  BY <1>1, <1>2, <1>5, ResolvedHeld
<1>7. QED
  BY <1>1, <1>3, <1>4, <1>6, PageStep DEF TypeInv, Shows

\* Every step keeps the first invariant, and replaces only what has been stored.
LEMMA EveryStep ==
  ASSUME TypeInv, StoredInv, [Next]_vars
  PROVE  StepOK
<1>1. CASE UNCHANGED vars
  BY <1>1 DEF vars, StepOK, TypeInv, StoredInv
<1>2. CASE Student
  <2>1. tab.cache.sugs \in SUBSET Sugs
    BY DEF TypeInv, Tabs, Essays
  <2>2. QED
    BY <1>2, <2>1, TypeStep, FlushStep, HideStep, ShowStep, LeaveStep, ResolveBegins
       DEF Student, Resolutions
<1>3. CASE AutosaveTimer
  BY <1>3, TimerStep
<1>4. CASE Network
  BY <1>4, UpdateStep, ResolveStep, ResolveAllStep, GetStep, SaveReturnsStep,
     KeepaliveReturnsStep, ResolutionReturnsStep, ReadAnsweredStep, ReadReturnsStep, ChangeStep
     DEF Network, Serve, Returns
<1>5. CASE \E r \in tab.sent : Lose(r)
  BY <1>5, LoseStep
<1>6. CASE \E s \in Sugs : append_suggestions(s)
  BY <1>6, AppendStep
<1>7. QED
  BY <1>1, <1>2, <1>3, <1>4, <1>5, <1>6 DEF Next

\* Words that exist nowhere but on the screen are not replaced there by an answer,
\* a read or a resolution (useEssaySuggestions.ts, rules 1 and 4), for any number
\* of texts, keystrokes and faults, and with the tab hidden, left or reopened.
THEOREM UnsavedStays == Spec => UnsavedStaysOnScreen
<1>1. Init => TypeInv /\ StoredInv
  BY InitHeld
<1>2. TypeInv /\ StoredInv /\ [Next]_vars => StepOK
  BY EveryStep
<1>3. StepOK => /\ TypeInv' /\ StoredInv'
                /\ [tab'.screen.text # tab.screen.text /\ typed' = typed
                       => tab.screen.text \in hist.stored]_vars
  BY DEF StepOK
<1>4. QED
  BY <1>1, <1>2, <1>3, PTL DEF Spec, UnsavedStaysOnScreen
-----------------------------------------------------------------------------
\* A render keeps the page in step with the server, and makes it clean.
LEMMA RenderedSync ==
  ASSUME NEW t \in Tabs, NEW S, HeldText(t, S), NEW x, NEW h, NEW n, NEW ev, Sync(t, x, h, n, ev)
  PROVE  Sync(Rendered(t), x, h, n, ev) /\ Clean(Rendered(t))
<1> DEFINE u == Rendered(t)
<1>1. DraftKey(t.cache.doc, "server").doc = t.cache.doc
  BY DEF DraftKey
<1>2. t.mounted /\ (t.dirty <=> t.pending # None)
  BY DEF Sync, HeldText
<1>3. /\ u.cache = t.cache /\ u.read = t.read /\ u.pending = t.pending /\ u.dirty = t.dirty
      /\ u.inFlight = t.inFlight /\ u.direct = t.direct /\ u.queued = t.queued
      /\ u.needsSave = t.needsSave /\ u.mounted = t.mounted /\ u.sent = t.sent
      /\ t.pending # None => u = t
      /\ t.pending = None => /\ u.screen = t.cache.doc
                            /\ u.savedKey = DraftKey(t.cache.doc, "server")
                            /\ u.savedEssay = t.cache /\ u.timer = None /\ u.ui = "saved"
  BY <1>2, RenderedFields
<1> HIDE DEF u
<1>4. CASE t.pending # None
  BY <1>2, <1>3, <1>4 DEF Clean, u
<1>5. CASE t.pending = None
  <2>1. OneSave(u) /\ Drafts(u, x, h) /\ Answers(u, x)
    BY <1>3, <1>5 DEF Sync, OneSave, Drafts, Answers
  <2>2. Known(u) /\ Clean(u)
    BY <1>1, <1>3, <1>5 DEF Known, Clean
  <2>3. Undone(u, x, h) /\ First(u, h, n) /\ ReadsTrue(u, x, ev)
    BY <1>3, <1>5 DEF Sync, Undone, First, ReadsTrue
  <2>4. QED
    BY <1>2, <1>3, <2>1, <2>2, <2>3 DEF Sync, u
<1>6. QED
  BY <1>4, <1>5

\* saveDraft in the regime: the draft is under way already, it waits behind
\* another, or it is sent.
LEMMA SaveAgain ==
  ASSUME NEW t \in Tabs, t.mounted, OneSave(t), NEW d \in Docs, NEW asked \in BOOLEAN,
         d = t.direct
  PROVE  saveDraft(t, d, FALSE, asked) = [t EXCEPT !.queued = None]
BY NoneAssumption DEF saveDraft, OneSave

LEMMA SaveWaits ==
  ASSUME NEW t \in Tabs, t.mounted, OneSave(t), NEW d \in Docs, NEW asked \in BOOLEAN,
         d # t.direct, t.direct # None
  PROVE  saveDraft(t, d, FALSE, asked) = [t EXCEPT !.queued = d, !.ui = "saving"]
<1>1. d \notin t.inFlight
  BY DEF OneSave
<1>2. [t EXCEPT !.queued = d].mounted
  BY DEF Tabs
<1>3. saveDraft(t, d, FALSE, asked) = [[t EXCEPT !.queued = d] EXCEPT !.ui = "saving"]
  BY <1>1, <1>2 DEF saveDraft, Saving
<1>4. QED
  BY <1>3 DEF Tabs

LEMMA SaveSends ==
  ASSUME NEW t \in Tabs, t.mounted, OneSave(t), NEW d \in Docs, NEW asked \in BOOLEAN,
         t.direct = None
  PROVE  saveDraft(t, d, FALSE, asked)
           = [t EXCEPT !.direct = d, !.inFlight = {d}, !.ui = "saving",
                       !.sent = @ \cup {Request("save", d, {}, t.expected, asked)}]
<1> DEFINE q == Request("save", d, {}, t.expected, asked)
           v == [t EXCEPT !.direct = d, !.inFlight = @ \cup {d}, !.sent = @ \cup {q}]
<1>1. t.inFlight = {} /\ ~hasConflictingInFlight(t, d)
  BY DEF OneSave, hasConflictingInFlight
<1>2. v.mounted
  BY DEF Tabs
<1>3. saveDraft(t, d, FALSE, asked) = [v EXCEPT !.ui = "saving"]
  BY <1>1, <1>2 DEF saveDraft, Saving
<1> HIDE DEF q
<1>4. [v EXCEPT !.ui = "saving"]
        = [t EXCEPT !.direct = d, !.inFlight = {d}, !.ui = "saving", !.sent = @ \cup {q}]
  BY <1>1 DEF Tabs
<1>5. QED
  BY <1>3, <1>4 DEF q

\* A flush of the pending draft.
LEMMA FlushSync ==
  ASSUME NEW t \in Tabs, NEW x, NEW h, NEW n, NEW ev, Sync(t, x, h, n, ev), Texted(h),
         t.pending # None, NEW asked \in BOOLEAN
  PROVE  Sync(saveDraft([t EXCEPT !.timer = None], t.pending, FALSE, asked), x, h, n, ev)
<1> DEFINE p == t.pending
           v == [t EXCEPT !.timer = None]
           u == saveDraft(v, p, FALSE, asked)
           q == Request("save", p, {}, t.expected, asked)
<1>1. p \in Docs /\ p # None
  BY DEF Tabs, MaybeDoc
<1>2. v \in Tabs /\ v.mounted /\ OneSave(v) /\ v.direct = t.direct /\ v.expected = t.expected
  BY DEF Tabs, MaybeDoc, Sync, OneSave
<1>3. q.kind = "save" /\ q.doc = p /\ q.st = "sent"
  BY DEF Request
<1> HIDE DEF q, v, p
<1>4. CASE p = t.direct
  <2>1. u = [v EXCEPT !.queued = None]
    <3>1. p = v.direct /\ v \in Tabs /\ v.mounted /\ OneSave(v) /\ p \in Docs
      BY <1>1, <1>2, <1>4
    <3>2. saveDraft(v, p, FALSE, asked) = [v EXCEPT !.queued = None]
      BY <3>1, SaveAgain
    <3>3. QED
      BY <3>2
  <2>2. u = [t EXCEPT !.timer = None, !.queued = None]
    BY <2>1 DEF Tabs, v
  <2> HIDE DEF u
  <2>3. Sync(u, x, h, n, ev)
    BY <1>1, <1>4, <2>2 DEF Sync, OneSave, Drafts, Answers, Known, Undone, First, ReadsTrue, Tabs, p
  <2>4. QED
    BY <2>3 DEF u, v, p
<1>5. CASE p # t.direct /\ t.direct # None
  <2>1. u = [v EXCEPT !.queued = p, !.ui = "saving"]
    <3>1. p # v.direct /\ v.direct # None /\ v \in Tabs /\ v.mounted /\ OneSave(v) /\ p \in Docs
      BY <1>1, <1>2, <1>5
    <3>2. saveDraft(v, p, FALSE, asked) = [v EXCEPT !.queued = p, !.ui = "saving"]
      BY <3>1, SaveWaits
    <3>3. QED
      BY <3>2
  <2>2. u = [t EXCEPT !.timer = None, !.queued = p, !.ui = "saving"]
    BY <2>1 DEF Tabs, v
  <2> HIDE DEF u
  <2>3. Sync(u, x, h, n, ev)
    BY <1>1, <1>5, <2>2 DEF Sync, OneSave, Drafts, Answers, Known, Undone, First, ReadsTrue, Tabs, Texted, p
  <2>4. QED
    BY <2>3 DEF u, v, p
<1>6. CASE t.direct = None
  <2>1. u = [v EXCEPT !.direct = p, !.inFlight = {p}, !.ui = "saving", !.sent = @ \cup {q}]
    <3>1. v.direct = None /\ v \in Tabs /\ v.mounted /\ OneSave(v) /\ p \in Docs
      BY <1>1, <1>2, <1>6
    <3>2. saveDraft(v, p, FALSE, asked)
            = [v EXCEPT !.direct = p, !.inFlight = {p}, !.ui = "saving",
                        !.sent = @ \cup {Request("save", p, {}, v.expected, asked)}]
      BY <3>1, SaveSends
    <3>3. QED
      BY <1>2, <3>2 DEF q
  <2>2. u = [t EXCEPT !.timer = None, !.direct = p, !.inFlight = {p}, !.ui = "saving", !.sent = @ \cup {q}]
    BY <2>1 DEF Tabs, v
  <2>3. \A r \in t.sent : r.kind # "save" /\ r.kind # "keepalive"
    BY <1>6, NoneAssumption DEF Sync, OneSave, Tabs, Requests
  <2>4. u.sent = t.sent \cup {q}
    BY <2>2 DEF Tabs
  <2>5. \A r \in u.sent : r.kind # "keepalive" /\ (r.kind = "save" => r = q)
    BY <1>3, <2>3, <2>4
  <2> HIDE DEF u
  <2>6. OneSave(u)
    BY <1>1, <1>3, <2>2, <2>5 DEF OneSave, Tabs
  <2>7. Drafts(u, x, h) /\ Known(u) /\ ReadsTrue(u, x, ev) /\ u.mounted
    BY <1>1, <1>6, <2>2 DEF Sync, Drafts, Known, ReadsTrue, Tabs, Texted, p
  <2>8. Answers(u, x) /\ Undone(u, x, h) /\ First(u, h, n)
    BY <1>1, <1>3, <1>6, <2>2, <2>5 DEF Sync, Drafts, Answers, Undone, First, Tabs, p
  <2>9. QED
    BY <2>6, <2>7, <2>8 DEF Sync, u, v, p
<1>7. QED
  BY <1>4, <1>5, <1>6

\* Requests other than saves may come and go.
LEMMA SentSync ==
  ASSUME NEW t, NEW x, NEW h, NEW n, NEW ev, Sync(t, x, h, n, ev),
         NEW u, \A r \in u.sent : r \in t.sent \/ r.kind \notin {"save", "keepalive"},
         u.mounted, u.pending = t.pending, u.ui = t.ui, u.timer = t.timer,
         u.direct = t.direct, u.queued = t.queued, u.needsSave = t.needsSave,
         u.inFlight = t.inFlight, u.savedKey = t.savedKey, u.savedEssay = t.savedEssay,
         u.cache = t.cache, u.read = t.read
  PROVE  Sync(u, x, h, n, ev)
<1>2. OneSave(u)
  BY DEF Sync, OneSave
<1>3. Drafts(u, x, h) /\ Known(u) /\ ReadsTrue(u, x, ev)
  BY DEF Sync, Drafts, Known, ReadsTrue
<1>4. Answers(u, x)
  BY DEF Sync, Answers
<1>5. Undone(u, x, h) /\ First(u, h, n)
  BY DEF Sync, Undone, First
<1>6. QED
  BY <1>2, <1>3, <1>4, <1>5 DEF Sync

\* So may the request of a resolution.
LEMMA ResolutionSync ==
  ASSUME NEW t \in Tabs, NEW x, NEW h, NEW n, NEW ev, Sync(t, x, h, n, ev),
         t.resolving \in Resolvings, NEW seen \in BOOLEAN
  PROVE  Sync(sendResolution(t, seen), x, h, n, ev)
<1> DEFINE q == Resolution(t)
           u == sendResolution(t, seen)
<1>1. q.kind \notin {"save", "keepalive"}
  BY DEF Resolution, Request, Resolvings, Resolutions
<1> HIDE DEF q
<1>2. u \in {[t EXCEPT !.resolving = None],
            [t EXCEPT !.resolving.st = "request", !.sent = @ \cup {q}]}
  BY DEF sendResolution, q
<1>3. t.mounted
  BY DEF Sync
<1> HIDE DEF u
<1>4. /\ u.sent \subseteq t.sent \cup {q}
      /\ u.mounted /\ u.pending = t.pending /\ u.ui = t.ui /\ u.timer = t.timer
      /\ u.direct = t.direct /\ u.queued = t.queued /\ u.needsSave = t.needsSave
      /\ u.inFlight = t.inFlight /\ u.savedKey = t.savedKey /\ u.savedEssay = t.savedEssay
      /\ u.cache = t.cache /\ u.read = t.read
  BY <1>2, <1>3 DEF Tabs
<1>5. QED
  BY <1>1, <1>4, SentSync DEF u

\* The start of an action of the page: what holds before it, in its regime.
LEMMA RegimeBack ==
  ASSUME TypeInv, SavedInv, Regime', UNCHANGED <<faults, hist>>, tab'.mounted => tab.mounted
  PROVE  Texted(hist) /\ Sync(tab, server.doc.text, hist, typed, event) /\ Clean(tab)
BY DEF SavedInv, Regime

\* Its end.
LEMMA PageSync ==
  ASSUME NEW u \in Tabs, HeldText(u, hist.stored),
         Sync(u, server.doc.text, hist, typed, event), Texted(hist),
         tab' = Rendered(u), UNCHANGED <<server, hist, typed, event>>
  PROVE  SavedInv'
<1>1. Sync(tab', server.doc.text, hist, typed, event) /\ Clean(tab')
  BY RenderedSync
<1>2. QED
  BY <1>1 DEF SavedInv

\* The timer fires.
LEMMA TimerSaved ==
  ASSUME TypeInv, StoredInv, SavedInv, AutosaveTimer
  PROVE  SavedInv'
<1> DEFINE v == [tab EXCEPT !.timer = None]
           u == saveDraft(v, tab.timer, FALSE, FALSE)
<1>1. tab.timer \in Docs
  BY DEF AutosaveTimer, TypeInv, Tabs, MaybeDoc
<1>2. v \in Tabs /\ HeldText(v, hist.stored) /\ v.mounted = tab.mounted
  BY DEF HeldText, AnswersHeld, Tabs, MaybeDoc, TypeInv, StoredInv
<1> HIDE DEF v
<1>3. u \in Tabs /\ HeldText(u, hist.stored)
  BY <1>1, <1>2, SaveDraftHeld DEF Keeps
<1>4. u.mounted = v.mounted
  BY <1>1, <1>2 DEF saveDraft, Saving, Tabs
<1>5. tab' = Rendered(u) /\ UNCHANGED <<server, clock, event, typed, faults, hist>>
      /\ tab.timer # None
  BY DEF AutosaveTimer, v
<1> SUFFICES ASSUME Regime' PROVE SavedInv'
  BY DEF SavedInv
<1>6. tab'.mounted = u.mounted
  <2> HIDE DEF u
  <2> QED
    BY <1>3, <1>5, RenderedFields
<1>7. Texted(hist) /\ Sync(tab, server.doc.text, hist, typed, event)
  BY <1>2, <1>4, <1>5, <1>6, RegimeBack
<1>8. tab.timer = tab.pending /\ tab.pending # None
  BY <1>5, <1>7 DEF Sync, Drafts
<1>9. Sync(u, server.doc.text, hist, typed, event)
  BY <1>7, <1>8, FlushSync DEF TypeInv, v
<1>10. QED
  BY <1>3, <1>5, <1>7, <1>9, PageSync

\* A save changes its state on the server.
LEMMA ReplacedSave ==
  ASSUME NEW t, OneSave(t), NEW r \in t.sent, r.kind = "save",
         NEW q, q.kind = "save", q.doc = r.doc,
         NEW u, u.sent = (t.sent \ {r}) \cup {q}, u.direct = t.direct, u.inFlight = t.inFlight
  PROVE  OneSave(u) /\ \A s \in u.sent : s.kind = "save" => s = q
BY DEF OneSave

\* A change event excuses the reads.
LEMMA EventSync ==
  ASSUME NEW t, NEW x, NEW h, NEW n, NEW ev, Sync(t, x, h, n, ev), NEW e, e
  PROVE  Sync(t, x, h, n, e)
BY DEF Sync, ReadsTrue

\* The save is served: the server's text is the draft's, and an event is coming.
LEMMA UpdateSaved ==
  ASSUME TypeInv, StoredInv, SavedInv, NEW r \in tab.sent, update_essay(r)
  PROVE  SavedInv'
<1> SUFFICES ASSUME Regime' PROVE SavedInv'
  BY DEF SavedInv
<1> DEFINE st == IF r.guard \in {None, server.ver} THEN "written" ELSE "refused"
           q == [r EXCEPT !.st = st]
           x == server.doc.text
<1>1. r \in Requests
  BY DEF TypeInv, Tabs
<1>2. q.kind = r.kind /\ q.doc = r.doc /\ q.st = st
  BY <1>1 DEF Requests
<1>3. Outcome(r, st) /\ UNCHANGED <<typed, faults>> /\ r.st = "sent"
  BY DEF update_essay
<1> HIDE DEF q
<1>4. tab' = [tab EXCEPT !.sent = (@ \ {r}) \cup {q}]
  BY <1>3 DEF Outcome, q
<1>5. /\ tab'.sent = (tab.sent \ {r}) \cup {q}
      /\ tab'.mounted = tab.mounted /\ tab'.pending = tab.pending /\ tab'.ui = tab.ui
      /\ tab'.timer = tab.timer /\ tab'.direct = tab.direct /\ tab'.queued = tab.queued
      /\ tab'.needsSave = tab.needsSave /\ tab'.inFlight = tab.inFlight
      /\ tab'.savedKey = tab.savedKey /\ tab'.savedEssay = tab.savedEssay
      /\ tab'.cache = tab.cache /\ tab'.read = tab.read /\ tab'.dirty = tab.dirty
      /\ tab'.screen = tab.screen
  BY <1>4 DEF TypeInv, Tabs
<1> HIDE DEF st
<1>6. CASE r.guard \in {None, server.ver}
  <2> DEFINE e == [server EXCEPT !.doc = r.doc]
  <2>1. e \in Essays /\ e.doc = r.doc /\ Written(e) /\ st = "written"
    BY <1>1, <1>6 DEF TypeInv, Essays, Requests, update_essay, st
  <2> HIDE DEF e
  <2>2. server'.doc = r.doc /\ event' /\ hist'.stored = hist.stored \cup {r.doc.text}
        /\ hist' = [hist EXCEPT !.stored = hist.stored \cup {r.doc.text}]
    BY <2>1, WrittenTypes
  <2>3. hist'.last = hist.last /\ hist'.had = hist.had /\ hist'.kept = hist.kept
        /\ hist'.back = hist.back
    BY <2>2 DEF TypeInv, Hists
  <2>4. Texted(hist) /\ Sync(tab, x, hist, typed, event) /\ Clean(tab)
    BY <1>3, <1>5, <2>3 DEF SavedInv, Regime
  <2>5. r.kind = "save" /\ r.doc = tab.direct /\ tab.direct # None
    BY <1>1, <2>4, NoneAssumption DEF update_essay, Sync, OneSave, Requests
  <2>6. OneSave(tab') /\ \A s \in tab'.sent : s.kind = "save" => s = q
    BY <1>2, <1>5, <2>4, <2>5, ReplacedSave DEF Sync
  <2>7. Drafts(tab', r.doc.text, hist') /\ Known(tab') /\ Clean(tab') /\ Texted(hist')
    BY <1>5, <2>2, <2>3, <2>4, <2>5 DEF Sync, Drafts, Known, Clean, Texted
  <2>8. Answers(tab', r.doc.text) /\ Undone(tab', r.doc.text, hist') /\ ReadsTrue(tab', r.doc.text, event')
    BY <1>2, <1>5, <2>1, <2>2, <2>3, <2>4, <2>6 DEF Sync, Answers, Undone, ReadsTrue
  <2>9. First(tab', hist', typed')
    BY <1>2, <1>3, <1>5, <2>1, <2>2, <2>3, <2>4, <2>5, <2>6 DEF Sync, First
  <2>10. QED
    BY <1>3, <1>5, <2>2, <2>4, <2>6, <2>7, <2>8, <2>9 DEF SavedInv, Sync
<1>7. CASE r.guard \notin {None, server.ver}
  <2>1. UNCHANGED <<server, event, hist>> /\ st = "refused"
    BY <1>7 DEF update_essay, Refused, st
  <2>2. Texted(hist) /\ Sync(tab, x, hist, typed, event) /\ Clean(tab)
    BY <1>3, <1>5, <2>1 DEF SavedInv, Regime
  <2>3. r.kind = "save" /\ r.doc = tab.direct /\ tab.direct # None
    BY <1>1, <2>2, NoneAssumption DEF update_essay, Sync, OneSave, Requests
  <2>4. OneSave(tab') /\ \A s \in tab'.sent : s.kind = "save" => s = q
    BY <1>2, <1>5, <2>2, <2>3, ReplacedSave DEF Sync
  <2>5. Drafts(tab', x, hist) /\ Known(tab') /\ Clean(tab') /\ ReadsTrue(tab', x, event)
    BY <1>5, <2>2 DEF Sync, Drafts, Known, Clean, ReadsTrue
  <2>6. Answers(tab', x) /\ Undone(tab', x, hist) /\ First(tab', hist, typed)
    BY <1>2, <1>3, <1>5, <2>1, <2>2, <2>3, <2>4 DEF Sync, Answers, Undone, First
  <2>7. Sync(tab', x, hist, typed, event)
    BY <1>5, <2>2, <2>4, <2>5, <2>6 DEF Sync
  <2>8. QED
    BY <1>3, <2>1, <2>2, <2>5, <2>7 DEF SavedInv
<1>8. QED
  BY <1>6, <1>7

\* A request of another kind is replaced, and the text on the server stays.
LEMMA OtherSaved ==
  ASSUME TypeInv, StoredInv, SavedInv, NEW r \in tab.sent, r.kind \notin {"save", "keepalive"},
         NEW q, q.kind = r.kind, tab' = [tab EXCEPT !.sent = (@ \ {r}) \cup {q}],
         server'.doc.text = server.doc.text, UNCHANGED <<typed, faults, hist>>,
         event' \/ UNCHANGED event
  PROVE  SavedInv'
<1> SUFFICES ASSUME Regime' PROVE SavedInv'
  BY DEF SavedInv
<1>1. /\ \A s \in tab'.sent : s \in tab.sent \/ s.kind \notin {"save", "keepalive"}
      /\ tab'.mounted = tab.mounted /\ tab'.pending = tab.pending /\ tab'.ui = tab.ui
      /\ tab'.timer = tab.timer /\ tab'.direct = tab.direct /\ tab'.queued = tab.queued
      /\ tab'.needsSave = tab.needsSave /\ tab'.inFlight = tab.inFlight
      /\ tab'.savedKey = tab.savedKey /\ tab'.savedEssay = tab.savedEssay
      /\ tab'.cache = tab.cache /\ tab'.read = tab.read /\ tab'.dirty = tab.dirty
      /\ tab'.screen = tab.screen
  BY DEF TypeInv, Tabs
<1>2. Texted(hist) /\ Sync(tab, server.doc.text, hist, typed, event) /\ Clean(tab)
  BY <1>1, RegimeBack
<1>3. Sync(tab', server.doc.text, hist, typed, event)
  <2>1. tab'.mounted
    BY <1>1, <1>2 DEF Sync
  <2>2. QED
    BY <1>1, <1>2, <2>1, SentSync
<1>4. Sync(tab', server.doc.text, hist, typed, event')
  BY <1>3, EventSync
<1>5. Clean(tab')
  BY <1>1, <1>2 DEF Clean
<1>6. QED
  BY <1>2, <1>4, <1>5 DEF SavedInv

\* Resolutions leave the text alone.
LEMMA ResolveSaved ==
  ASSUME TypeInv, StoredInv, SavedInv, NEW r \in tab.sent,
         resolve_suggestion(r) \/ resolve_all_suggestions(r)
  PROVE  SavedInv'
<1>1. r \in Requests /\ r.kind \notin {"save", "keepalive"} /\ UNCHANGED <<typed, faults>>
  BY DEF TypeInv, Tabs, resolve_suggestion, resolve_all_suggestions
<1>2. PICK st \in {"written", "refused"} :
        /\ Outcome(r, st)
        /\ \/ Refused
           \/ \E e \in Essays : e.doc.text = server.doc.text /\ Written(e)
  <2>1. CASE resolve_suggestion(r)
    <3> DEFINE rest == [server EXCEPT !.sugs = @ \ r.ids]
               e == IF r.kind = "accept"
                    THEN [rest EXCEPT !.doc.edits = @ \cup r.ids] ELSE rest
    <3>1. e \in Essays /\ e.doc.text = server.doc.text
      BY <1>1 DEF TypeInv, Essays, Docs, Requests
    <3>2. \/ Written(e) /\ Outcome(r, "written")
          \/ Refused /\ Outcome(r, "refused")
      BY <2>1 DEF resolve_suggestion
    <3> HIDE DEF e
    <3>3. QED
      BY <3>1, <3>2
  <2>2. CASE resolve_all_suggestions(r)
    <3>1. PICK applied \in SUBSET server.sugs :
            Written([server EXCEPT !.sugs = IF r.kind = "rejectAll" THEN {} ELSE @ \ applied,
                                   !.doc.edits = @ \cup applied])
      BY <2>2 DEF resolve_all_suggestions
    <3> DEFINE e == [server EXCEPT !.sugs = IF r.kind = "rejectAll" THEN {} ELSE @ \ applied,
                                   !.doc.edits = @ \cup applied]
    <3>2. e \in Essays /\ e.doc.text = server.doc.text
      BY DEF TypeInv, Essays, Docs
    <3>3. Outcome(r, "written") /\ Written(e)
      BY <2>2, <3>1 DEF resolve_all_suggestions
    <3> HIDE DEF e
    <3>4. QED
      BY <3>2, <3>3
  <2>3. QED
    BY <2>1, <2>2
<1> DEFINE q == [r EXCEPT !.st = st]
<1>3. q.kind = r.kind /\ tab' = [tab EXCEPT !.sent = (@ \ {r}) \cup {q}]
  BY <1>1, <1>2 DEF Requests, Outcome
<1> HIDE DEF q
<1>4. CASE Refused
  BY <1>1, <1>3, <1>4, OtherSaved DEF Refused
<1>5. CASE \E e \in Essays : e.doc.text = server.doc.text /\ Written(e)
  <2>1. PICK e \in Essays : e.doc.text = server.doc.text /\ Written(e)
    BY <1>5
  <2>2. server'.doc.text = server.doc.text /\ event'
        /\ hist' = [hist EXCEPT !.stored = hist.stored \cup {server.doc.text}]
    BY <2>1, WrittenTypes
  <2>3. hist.stored \cup {server.doc.text} = hist.stored
    BY DEF StoredInv
  <2>4. hist' = hist
    BY <2>2, <2>3 DEF TypeInv, Hists
  <2>5. QED
    BY <1>1, <1>3, <2>2, <2>4, OtherSaved
<1>6. QED
  BY <1>2, <1>4, <1>5

\* The answer is read from the row: in the regime nobody has written since.
LEMMA GetSaved ==
  ASSUME TypeInv, StoredInv, SavedInv, NEW r \in tab.sent, get_essay(r)
  PROVE  SavedInv'
<1> SUFFICES ASSUME Regime' PROVE SavedInv'
  BY DEF SavedInv
<1> DEFINE q == [r EXCEPT !.st = "answered", !.essay = server]
           x == server.doc.text
<1>1. r \in Requests
  BY DEF TypeInv, Tabs
<1>2. q.kind = r.kind /\ q.doc = r.doc /\ q.st = "answered" /\ q.essay = server
  BY <1>1 DEF Requests
<1> HIDE DEF q
<1>3. r.st = "written" /\ UNCHANGED <<server, clock, event, typed, faults, hist>>
      /\ tab' = [tab EXCEPT !.sent = (@ \ {r}) \cup {q}]
  BY DEF get_essay, q
<1>4. CASE r.kind \notin {"save", "keepalive"}
  BY <1>2, <1>3, <1>4, OtherSaved
<1>5. CASE r.kind \in {"save", "keepalive"}
  <2>1. /\ tab'.sent = (tab.sent \ {r}) \cup {q}
        /\ tab'.mounted = tab.mounted /\ tab'.pending = tab.pending /\ tab'.ui = tab.ui
        /\ tab'.timer = tab.timer /\ tab'.direct = tab.direct /\ tab'.queued = tab.queued
        /\ tab'.needsSave = tab.needsSave /\ tab'.inFlight = tab.inFlight
        /\ tab'.savedKey = tab.savedKey /\ tab'.savedEssay = tab.savedEssay
        /\ tab'.cache = tab.cache /\ tab'.read = tab.read /\ tab'.dirty = tab.dirty
        /\ tab'.screen = tab.screen
    BY <1>3 DEF TypeInv, Tabs
  <2>2. Texted(hist) /\ Sync(tab, x, hist, typed, event) /\ Clean(tab)
    BY <1>3, <2>1, RegimeBack
  <2>3. r.kind = "save"
    BY <1>5, <2>2 DEF Sync, OneSave
  <2>4. OneSave(tab') /\ \A s \in tab'.sent : s.kind = "save" => s = q
    BY <1>2, <2>1, <2>2, <2>3, ReplacedSave DEF Sync
  <2>5. Drafts(tab', x, hist) /\ Known(tab') /\ Clean(tab') /\ ReadsTrue(tab', x, event)
    BY <2>1, <2>2 DEF Sync, Drafts, Known, Clean, ReadsTrue
  <2>6. Answers(tab', x) /\ Undone(tab', x, hist) /\ First(tab', hist, typed)
    BY <1>2, <1>3, <2>1, <2>2, <2>3, <2>4 DEF Sync, Answers, Undone, First
  <2>7. Sync(tab', x, hist, typed, event)
    BY <2>1, <2>2, <2>4, <2>5, <2>6 DEF Sync
  <2>8. QED
    BY <1>3, <2>2, <2>5, <2>7 DEF SavedInv
<1>6. QED
  BY <1>4, <1>5

\* A loss ends the regime.
LEMMA LoseSaved ==
  ASSUME TypeInv, NEW r, Lose(r)
  PROVE  SavedInv'
BY DEF TypeInv, Lose, SavedInv, Regime

\* Histories that agree on the texts.
LEMMA HistSync ==
  ASSUME NEW t, NEW x, NEW h, NEW n, NEW ev, Sync(t, x, h, n, ev),
         NEW g, g.last = h.last, g.had = h.had, g.stored = h.stored
  PROVE  Sync(t, x, g, n, ev)
BY DEF Sync, Drafts, Undone, First

\* The agent's suggestion.
LEMMA AppendSaved ==
  ASSUME TypeInv, SavedInv, NEW s \in Sugs, append_suggestions(s)
  PROVE  SavedInv'
<1> SUFFICES ASSUME Regime' PROVE SavedInv'
  BY DEF SavedInv
<1>1. server'.doc = server.doc /\ event' /\ UNCHANGED <<tab, typed, faults>>
  BY DEF append_suggestions, Stored, TypeInv, Essays
<1>2. hist'.last = hist.last /\ hist'.had = hist.had /\ hist'.stored = hist.stored
      /\ hist'.kept = hist.kept /\ hist'.back = hist.back
  BY DEF append_suggestions, TypeInv, Hists
<1>3. Texted(hist) /\ Sync(tab, server.doc.text, hist, typed, event) /\ Clean(tab)
  BY <1>1, <1>2 DEF SavedInv, Regime
<1>4. Sync(tab, server.doc.text, hist, typed, event')
  BY <1>1, <1>3, EventSync
<1>5. Sync(tab, server.doc.text, hist', typed, event')
  BY <1>2, <1>4, HistSync
<1>6. QED
  BY <1>1, <1>2, <1>3, <1>5 DEF SavedInv, Texted

\* A read that is only under way says nothing.
LEMMA ReadingSync ==
  ASSUME NEW t, NEW x, NEW h, NEW n, NEW ev, NEW e, Sync(t, x, h, n, ev),
         NEW u, \A r \in u.sent : r \in t.sent, u.read = [st |-> "sent"],
         u.mounted, u.pending = t.pending, u.ui = t.ui, u.timer = t.timer,
         u.direct = t.direct, u.queued = t.queued, u.needsSave = t.needsSave,
         u.inFlight = t.inFlight, u.savedKey = t.savedKey, u.savedEssay = t.savedEssay
  PROVE  Sync(u, x, h, n, e)
<1>1. OneSave(u) /\ Drafts(u, x, h) /\ Answers(u, x) /\ Known(u)
  BY DEF Sync, OneSave, Drafts, Answers, Known
<1>2. Undone(u, x, h) /\ First(u, h, n)
  BY DEF Sync, Undone, First
<1>3. u.read \in Reads /\ u.read.st = "sent" /\ u.read # None
  BY NoneAssumption DEF Reads
<1>4. ReadsTrue(u, x, e)
  BY <1>3 DEF ReadsTrue
<1>5. QED
  BY <1>1, <1>2, <1>4 DEF Sync

\* A flush with or without a pending draft.
LEMMA FlushedSync ==
  ASSUME NEW t \in Tabs, NEW x, NEW h, NEW n, NEW ev, Sync(t, x, h, n, ev), Texted(h),
         NEW asked \in BOOLEAN
  PROVE  Sync(flush(t, asked), x, h, n, ev)
<1>1. CASE t.pending # None
  BY <1>1, FlushSync DEF flush
<1>2. CASE t.pending = None
  <2> DEFINE v == [t EXCEPT !.timer = None]
  <2>1. flush(t, asked) = v
    BY <1>2 DEF flush
  <2>2. t.timer = None /\ t.mounted
    BY <1>2 DEF Sync, Drafts
  <2>3. v = t
    BY <2>2 DEF Tabs
  <2>4. QED
    BY <2>1, <2>3
<1>3. QED
  BY <1>1, <1>2

\* Blur and Retry.
LEMMA FlushSaved ==
  ASSUME TypeInv, StoredInv, SavedInv, Blur \/ Retry
  PROVE  SavedInv'
<1> SUFFICES ASSUME Regime' PROVE SavedInv'
  BY DEF SavedInv
<1>1. PICK asked \in BOOLEAN : tab' = Rendered(flush(tab, asked))
  BY DEF Blur, Retry
<1>2. UNCHANGED <<server, clock, event, typed, faults, hist>> /\ tab.mounted
  BY DEF Blur, Retry
<1>3. Texted(hist) /\ Sync(tab, server.doc.text, hist, typed, event)
  BY <1>2, RegimeBack
<1>4. flush(tab, asked) \in Tabs /\ HeldText(flush(tab, asked), hist.stored)
  BY FlushHeld DEF TypeInv, StoredInv, Keeps
<1>5. Sync(flush(tab, asked), server.doc.text, hist, typed, event)
  BY <1>3, FlushedSync DEF TypeInv
<1>6. QED
  BY <1>1, <1>2, <1>3, <1>4, <1>5, PageSync

\* The tab comes back.
LEMMA ShowSaved ==
  ASSUME TypeInv, StoredInv, SavedInv, Show
  PROVE  SavedInv'
<1> SUFFICES ASSUME Regime' PROVE SavedInv'
  BY DEF SavedInv
<1>1. UNCHANGED <<server, clock, event, typed, faults, hist>>
      /\ tab' = [tab EXCEPT !.hidden = FALSE, !.read = IF @ = None THEN [st |-> "sent"] ELSE @]
  BY DEF Show
<1>2. /\ tab'.sent = tab.sent
      /\ tab'.mounted = tab.mounted /\ tab'.pending = tab.pending /\ tab'.ui = tab.ui
      /\ tab'.timer = tab.timer /\ tab'.direct = tab.direct /\ tab'.queued = tab.queued
      /\ tab'.needsSave = tab.needsSave /\ tab'.inFlight = tab.inFlight
      /\ tab'.savedKey = tab.savedKey /\ tab'.savedEssay = tab.savedEssay
      /\ tab'.cache = tab.cache /\ tab'.dirty = tab.dirty /\ tab'.screen = tab.screen
      /\ tab'.read = IF tab.read = None THEN [st |-> "sent"] ELSE tab.read
  BY <1>1 DEF TypeInv, Tabs
<1>3. Texted(hist) /\ Sync(tab, server.doc.text, hist, typed, event) /\ Clean(tab)
  BY <1>1, <1>2, RegimeBack
<1>4. tab'.mounted
  BY <1>2, <1>3 DEF Sync
<1>5. Sync(tab', server.doc.text, hist, typed, event)
  <2>1. CASE tab.read = None
    BY <1>2, <1>3, <1>4, <2>1, ReadingSync
  <2>2. CASE tab.read # None
    BY <1>2, <1>3, <1>4, <2>2, SentSync
  <2>3. QED
    BY <2>1, <2>2
<1>6. Clean(tab')
  BY <1>2, <1>3 DEF Clean
<1>7. QED
  BY <1>1, <1>3, <1>5, <1>6 DEF SavedInv

\* The tab is hidden: with a draft, that ends the regime.
LEMMA HideSaved ==
  ASSUME TypeInv, StoredInv, SavedInv, Hide
  PROVE  SavedInv'
<1> SUFFICES ASSUME Regime' PROVE SavedInv'
  BY DEF SavedInv
<1> DEFINE v == [tab EXCEPT !.hidden = TRUE]
<1>1. UNCHANGED <<server, clock, event, typed, faults>> /\ tab.mounted
      /\ hist' = [hist EXCEPT !.hides = @ + 1, !.kept = @ \/ tab.pending # None]
      /\ tab' = Rendered(flushKeepalive(v))
  BY DEF Hide
<1>2. hist'.last = hist.last /\ hist'.had = hist.had /\ hist'.stored = hist.stored
      /\ hist'.back = hist.back /\ hist'.kept = (hist.kept \/ tab.pending # None)
  BY <1>1 DEF TypeInv, Hists
<1>3. tab.pending = None /\ Texted(hist) /\ Sync(tab, server.doc.text, hist, typed, event)
  BY <1>1, <1>2 DEF SavedInv, Regime
<1>4. flushKeepalive(v) = v
  BY <1>3 DEF flushKeepalive, TypeInv, Tabs
<1>5. v \in Tabs /\ HeldText(v, hist.stored)
  BY DEF HeldText, AnswersHeld, Tabs, TypeInv, StoredInv
<1>6. /\ v.sent = tab.sent /\ v.mounted /\ v.pending = tab.pending /\ v.ui = tab.ui
      /\ v.timer = tab.timer /\ v.direct = tab.direct /\ v.queued = tab.queued
      /\ v.needsSave = tab.needsSave /\ v.inFlight = tab.inFlight
      /\ v.savedKey = tab.savedKey /\ v.savedEssay = tab.savedEssay
      /\ v.cache = tab.cache /\ v.read = tab.read
  BY <1>1 DEF TypeInv, Tabs
<1> HIDE DEF v
<1>7. Sync(v, server.doc.text, hist, typed, event)
  BY <1>3, <1>6, SentSync
<1>8. Sync(tab', server.doc.text, hist, typed, event) /\ Clean(tab')
  BY <1>1, <1>4, <1>5, <1>7, RenderedSync
<1>9. Sync(tab', server.doc.text, hist', typed, event)
  BY <1>2, <1>8, HistSync
<1>10. QED
  BY <1>1, <1>2, <1>3, <1>8, <1>9 DEF SavedInv, Texted

\* Leaving ends it.
LEMMA LeaveSaved ==
  ASSUME TypeInv, StoredInv, Leave
  PROVE  SavedInv'
<1> DEFINE v == [tab EXCEPT !.mounted = FALSE, !.read = None]
<1>1. v \in Tabs /\ ~v.mounted
  BY DEF TypeInv, Tabs
<1> HIDE DEF v
<1>2. ~flushOnUnmount(v).mounted
  BY <1>1 DEF flushOnUnmount, saveDraft, saveDraftKeepalive, Saving, Tabs
<1>3. QED
  BY <1>2 DEF Leave, v, SavedInv, Regime

\* The student accepts or rejects: the typing is flushed first.
LEMMA ResolveSavedFirst ==
  ASSUME TypeInv, StoredInv, SavedInv, NEW action \in Resolutions, NEW ids \in SUBSET Sugs,
         resolve(action, ids)
  PROVE  SavedInv'
<1> SUFFICES ASSUME Regime' PROVE SavedInv'
  BY DEF SavedInv
<1> DEFINE v == [tab EXCEPT !.resolving = [action |-> action, ids |-> ids, st |-> "flush"]]
           u == flush(v, FALSE)
           w == IF tab.pending # None /\ u.direct # None THEN u ELSE sendResolution(u, u.dirty)
           x == server.doc.text
<1>1. tab' = Rendered(w) /\ UNCHANGED <<server, clock, event, typed, faults, hist>> /\ tab.mounted
  BY DEF resolve
<1>2. Texted(hist) /\ Sync(tab, x, hist, typed, event)
  BY <1>1, RegimeBack
<1>3. /\ v \in Tabs /\ HeldText(v, hist.stored)
      /\ v.resolving = [action |-> action, ids |-> ids, st |-> "flush"]
      /\ v.sent = tab.sent /\ v.mounted /\ v.pending = tab.pending /\ v.ui = tab.ui
      /\ v.timer = tab.timer /\ v.direct = tab.direct /\ v.queued = tab.queued
      /\ v.needsSave = tab.needsSave /\ v.inFlight = tab.inFlight
      /\ v.savedKey = tab.savedKey /\ v.savedEssay = tab.savedEssay
      /\ v.cache = tab.cache /\ v.read = tab.read
  BY <1>1 DEF HeldText, AnswersHeld, Tabs, TypeInv, StoredInv, Resolvings
<1> HIDE DEF v
<1>4. Sync(v, x, hist, typed, event)
  BY <1>2, <1>3, SentSync
<1>5. v.resolving \in Resolvings
  BY <1>3 DEF Resolvings
<1>6. Sync(u, x, hist, typed, event)
  BY <1>2, <1>3, <1>4, FlushedSync
<1>7. u \in Tabs /\ HeldText(u, hist.stored)
  BY <1>3, FlushHeld DEF Keeps
<1>8. u.resolving \in Resolvings
  <2>1. flush(v, FALSE).resolving = v.resolving
    BY <1>3, FlushKeepsResolving
  <2>2. QED
    BY <1>5, <2>1
<1>9. u.dirty \in BOOLEAN
  BY <1>7 DEF Tabs
<1> HIDE DEF u
<1>10. Sync(w, x, hist, typed, event)
  BY <1>6, <1>7, <1>8, <1>9, ResolutionSync
<1>11. w \in Tabs /\ HeldText(w, hist.stored)
  BY <1>7, <1>8, <1>9, SendResolutionHeld DEF Keeps
<1> HIDE DEF w
<1>12. QED
  BY <1>1, <1>2, <1>10, <1>11, PageSync

\* A change event has the essay read again.
LEMMA ChangeSaved ==
  ASSUME TypeInv, StoredInv, SavedInv, ChangeEvent
  PROVE  SavedInv'
<1> SUFFICES ASSUME Regime' PROVE SavedInv'
  BY DEF SavedInv
<1> DEFINE u == invalidateQueries(tab, FALSE)
           x == server.doc.text
<1>1. tab' = Rendered(u) /\ event' = FALSE /\ UNCHANGED <<server, clock, typed, faults, hist>>
  BY DEF ChangeEvent
<1>2. u \in Tabs /\ HeldText(u, hist.stored)
  BY InvalidateHeld DEF TypeInv, StoredInv, Keeps
<1>3. u.mounted = tab.mounted
  BY DEF invalidateQueries, TypeInv, Tabs
<1>4. tab'.mounted = u.mounted
  <2> HIDE DEF u
  <2> QED
    BY <1>1, <1>2, RenderedFields
<1>5. Texted(hist) /\ Sync(tab, x, hist, typed, event)
  BY <1>1, <1>3, <1>4, RegimeBack
<1>6. /\ u.sent = tab.sent /\ u.mounted /\ u.pending = tab.pending /\ u.ui = tab.ui
      /\ u.timer = tab.timer /\ u.direct = tab.direct /\ u.queued = tab.queued
      /\ u.needsSave = tab.needsSave /\ u.inFlight = tab.inFlight
      /\ u.savedKey = tab.savedKey /\ u.savedEssay = tab.savedEssay
      /\ u.read = [st |-> "sent"]
  BY <1>5 DEF invalidateQueries, TypeInv, Tabs, Sync
<1> HIDE DEF u
<1>7. Sync(u, x, hist, typed, event')
  BY <1>5, <1>6, ReadingSync
<1>8. Sync(tab', x, hist, typed, event') /\ Clean(tab')
  BY <1>1, <1>2, <1>7, RenderedSync
<1>9. QED
  BY <1>1, <1>5, <1>8 DEF SavedInv

\* The read is served.
LEMMA ReadAnsweredSaved ==
  ASSUME TypeInv, StoredInv, SavedInv, ReadAnswered
  PROVE  SavedInv'
<1> SUFFICES ASSUME Regime' PROVE SavedInv'
  BY DEF SavedInv
<1> DEFINE x == server.doc.text
           q == [st |-> "answered", essay |-> server]
<1>1. UNCHANGED <<server, clock, event, typed, faults, hist>> /\ tab' = [tab EXCEPT !.read = q]
  BY DEF ReadAnswered
<1>2. q \in Reads /\ q.essay = server
  BY DEF Reads, TypeInv
<1> HIDE DEF q
<1>3. /\ tab'.sent = tab.sent
      /\ tab'.mounted = tab.mounted /\ tab'.pending = tab.pending /\ tab'.ui = tab.ui
      /\ tab'.timer = tab.timer /\ tab'.direct = tab.direct /\ tab'.queued = tab.queued
      /\ tab'.needsSave = tab.needsSave /\ tab'.inFlight = tab.inFlight
      /\ tab'.savedKey = tab.savedKey /\ tab'.savedEssay = tab.savedEssay
      /\ tab'.cache = tab.cache /\ tab'.dirty = tab.dirty /\ tab'.screen = tab.screen
      /\ tab'.read = q
  BY <1>1 DEF TypeInv, Tabs
<1>4. Texted(hist) /\ Sync(tab, x, hist, typed, event) /\ Clean(tab)
  BY <1>1, <1>3, RegimeBack
<1>5. OneSave(tab') /\ Drafts(tab', x, hist) /\ Answers(tab', x) /\ Known(tab')
  BY <1>3, <1>4 DEF Sync, OneSave, Drafts, Answers, Known
<1>6. Undone(tab', x, hist) /\ First(tab', hist, typed)
  BY <1>3, <1>4 DEF Sync, Undone, First
<1>7. ReadsTrue(tab', x, event) /\ Clean(tab')
  BY <1>2, <1>3, <1>4, NoneAssumption DEF ReadsTrue, Clean
<1>8. QED
  BY <1>1, <1>3, <1>4, <1>5, <1>6, <1>7 DEF SavedInv, Sync

\* The read lands in the cache.
LEMMA ReadReturnsSaved ==
  ASSUME TypeInv, StoredInv, SavedInv, ReadReturns
  PROVE  SavedInv'
<1> SUFFICES ASSUME Regime' PROVE SavedInv'
  BY DEF SavedInv
<1> DEFINE x == server.doc.text
           t == [tab EXCEPT !.read = None, !.adopting = FALSE,
                            !.cache = IF tab.read.st = "answered" THEN tab.read.essay ELSE @]
           u == IF tab.adopting
                THEN [t EXCEPT !.expected = laterVersion(t.cache.ver, @)] ELSE t
<1>1. tab' = Rendered(u) /\ UNCHANGED <<server, clock, event, typed, hist>>
  BY DEF ReadReturns
<1>2. tab.read \in Reads
  BY DEF ReadReturns, TypeInv, Tabs
<1>3. faults' = faults /\ tab.read.st = "answered"
  BY DEF ReadReturns, Regime, TypeInv
<1>4. tab.read.essay \in Essays /\ tab.read.essay.doc.text \in hist.stored
  BY <1>2, <1>3 DEF Reads, StoredInv, HeldText
<1>5. t = [tab EXCEPT !.read = None, !.adopting = FALSE, !.cache = tab.read.essay]
  BY <1>3 DEF TypeInv, Tabs
<1>6. /\ t.sent = tab.sent /\ t.pending = tab.pending /\ t.ui = tab.ui
      /\ t.timer = tab.timer /\ t.direct = tab.direct /\ t.queued = tab.queued
      /\ t.needsSave = tab.needsSave /\ t.inFlight = tab.inFlight
      /\ t.savedKey = tab.savedKey /\ t.savedEssay = tab.savedEssay /\ t.screen = tab.screen
      /\ t.dirty = tab.dirty /\ t.mounted = tab.mounted
      /\ t.cache = tab.read.essay /\ t.read = None
  BY <1>5 DEF TypeInv, Tabs
<1>7. t \in Tabs
  BY <1>4, <1>5 DEF TypeInv, Tabs
<1>8. HeldText(t, hist.stored)
  BY <1>4, <1>6, NoneAssumption DEF HeldText, AnswersHeld, StoredInv
<1> HIDE DEF t
<1>9. laterVersion(t.cache.ver, t.expected) \in Nat
  BY <1>7 DEF Tabs, Essays, laterVersion
<1>10. u \in Tabs /\ HeldText(u, hist.stored)
  BY <1>7, <1>8, <1>9 DEF Tabs, HeldText, AnswersHeld
<1>11. /\ u.sent = t.sent /\ u.pending = t.pending /\ u.ui = t.ui
       /\ u.timer = t.timer /\ u.direct = t.direct /\ u.queued = t.queued
       /\ u.needsSave = t.needsSave /\ u.inFlight = t.inFlight
       /\ u.savedKey = t.savedKey /\ u.savedEssay = t.savedEssay
       /\ u.mounted = t.mounted /\ u.cache = t.cache /\ u.read = t.read
  BY <1>7 DEF Tabs
<1> HIDE DEF u
<1>12. tab'.mounted = u.mounted
  BY <1>1, <1>10, RenderedFields
<1>13. Texted(hist) /\ Sync(tab, x, hist, typed, event)
  BY <1>1, <1>3, <1>6, <1>11, <1>12, RegimeBack
<1>14. OneSave(u) /\ Drafts(u, x, hist) /\ Answers(u, x) /\ Known(u)
  BY <1>6, <1>11, <1>13 DEF Sync, OneSave, Drafts, Answers, Known
<1>15. Undone(u, x, hist) /\ First(u, hist, typed)
  BY <1>6, <1>11, <1>13 DEF Sync, Undone, First
<1>16. ReadsTrue(u, x, event)
  BY <1>2, <1>3, <1>6, <1>11, <1>13, NoneAssumption DEF Sync, ReadsTrue
<1>17. Sync(u, x, hist, typed, event)
  BY <1>6, <1>11, <1>13, <1>14, <1>15, <1>16 DEF Sync
<1>18. QED
  BY <1>1, <1>10, <1>13, <1>17, PageSync

\* A resolution returns.
LEMMA ResolutionReturnsSaved ==
  ASSUME TypeInv, StoredInv, SavedInv, NEW r \in tab.sent, ResolutionReturns(r)
  PROVE  SavedInv'
<1> SUFFICES ASSUME Regime' PROVE SavedInv'
  BY DEF SavedInv
<1> DEFINE x == server.doc.text
           t == [tab EXCEPT !.sent = @ \ {r}]
           n == [t EXCEPT !.resolving = None]
           u == IF r.st = "answered" THEN resolved(t, r.essay) ELSE n
<1>1. tab' = Rendered(u) /\ UNCHANGED <<server, clock, event, typed, faults, hist>>
  BY DEF ResolutionReturns
<1>2. t \in Tabs /\ HeldText(t, hist.stored)
  BY DEF TypeInv, StoredInv, Tabs, HeldText, AnswersHeld
<1>3. r.st = "answered" => r.essay \in Essays /\ r.essay.doc.text \in hist.stored
  BY DEF StoredInv, HeldText, AnswersHeld
<1>4. /\ t.sent = tab.sent \ {r} /\ t.pending = tab.pending /\ t.ui = tab.ui
      /\ t.timer = tab.timer /\ t.direct = tab.direct /\ t.queued = tab.queued
      /\ t.needsSave = tab.needsSave /\ t.inFlight = tab.inFlight
      /\ t.savedKey = tab.savedKey /\ t.savedEssay = tab.savedEssay
      /\ t.mounted = tab.mounted /\ t.cache = tab.cache /\ t.read = tab.read
  BY DEF TypeInv, Tabs
<1> HIDE DEF t
<1>5. /\ n.sent = t.sent /\ n.pending = t.pending /\ n.ui = t.ui
      /\ n.timer = t.timer /\ n.direct = t.direct /\ n.queued = t.queued
      /\ n.needsSave = t.needsSave /\ n.inFlight = t.inFlight
      /\ n.savedKey = t.savedKey /\ n.savedEssay = t.savedEssay
      /\ n.mounted = t.mounted /\ n.cache = t.cache /\ n.read = t.read
      /\ n \in Tabs
  BY <1>2 DEF Tabs
<1>6. HeldText(n, hist.stored)
  BY <1>2 DEF Tabs, HeldText, AnswersHeld
<1>7. u \in Tabs /\ HeldText(u, hist.stored)
  BY <1>2, <1>3, <1>5, <1>6, ResolvedHeld DEF Shows
<1>8. LET w == resolved(t, r.essay) IN
      /\ w.sent = t.sent /\ w.pending = t.pending /\ w.ui = t.ui
      /\ w.timer = t.timer /\ w.direct = t.direct /\ w.queued = t.queued
      /\ w.needsSave = t.needsSave /\ w.inFlight = t.inFlight
      /\ w.savedKey = t.savedKey /\ w.savedEssay = t.savedEssay
      /\ w.mounted = t.mounted
      /\ t.mounted => w.read = [st |-> "sent"]
  BY <1>2 DEF resolved, applyToEditor, invalidateQueries, Tabs
<1>9. tab'.mounted = tab.mounted
  <2>1. u.mounted = t.mounted
    BY <1>5, <1>8
  <2> HIDE DEF u
  <2>2. QED
    BY <1>1, <1>4, <1>7, <2>1, RenderedFields
<1>10. Texted(hist) /\ Sync(tab, x, hist, typed, event)
  BY <1>1, <1>9, RegimeBack
<1>11. tab.mounted
  BY <1>10 DEF Sync
<1> HIDE DEF n
<1>12. Sync(t, x, hist, typed, event)
  BY <1>4, <1>10, <1>11, SentSync
<1>13. Sync(n, x, hist, typed, event)
  BY <1>4, <1>5, <1>11, <1>12, SentSync
<1>14. Sync(resolved(t, r.essay), x, hist, typed, event)
  <2> DEFINE w == resolved(t, r.essay)
  <2>1. /\ w.sent = t.sent /\ w.pending = t.pending /\ w.ui = t.ui
        /\ w.timer = t.timer /\ w.direct = t.direct /\ w.queued = t.queued
        /\ w.needsSave = t.needsSave /\ w.inFlight = t.inFlight
        /\ w.savedKey = t.savedKey /\ w.savedEssay = t.savedEssay
        /\ w.mounted /\ w.read = [st |-> "sent"]
    BY <1>4, <1>8, <1>11
  <2> HIDE DEF w
  <2>2. Sync(w, x, hist, typed, event)
    BY <1>12, <2>1, ReadingSync
  <2>3. QED
    BY <2>2 DEF w
<1>15. Sync(u, x, hist, typed, event)
  BY <1>13, <1>14
<1> HIDE DEF u
<1>16. QED
  BY <1>1, <1>7, <1>10, <1>15, PageSync

\* The answers to saves do not close the page.
LEMMA SettlePendingMounted ==
  ASSUME NEW t \in Tabs
  PROVE  settlePendingSavedDraft(t).mounted = t.mounted
BY DEF settlePendingSavedDraft, saveDraft, Saving, Settled, syncLatestSavedCache, syncEssayCache, Tabs

LEMMA DrainMounted ==
  ASSUME NEW t \in Tabs
  PROVE  drainQueue(t).mounted = t.mounted
BY DEF drainQueue, saveDraft, Saving, Tabs

LEMMA SaveSuccessMounted ==
  ASSUME NEW t \in Tabs, NEW d, NEW essay \in Essays
  PROVE  handleSaveSuccess(t, d, essay).mounted = t.mounted
<1> DEFINE u == [t EXCEPT !.inFlight = @ \ {d}, !.expected = laterVersion(essay.ver, @)]
           w == [syncEssayCache(u, essay) EXCEPT !.savedKey = DraftKey(d, "editor"),
                                                 !.needsSave = FALSE, !.pending = None]
           b == u.pending # None /\ DraftKey(u.pending, "editor") = u.savedKey
           n == [syncLatestSavedCache(u) EXCEPT !.needsSave = @ \/ b]
<1>1. laterVersion(essay.ver, t.expected) \in Nat
  BY DEF Tabs, Essays, laterVersion
<1>2. u \in Tabs /\ u.mounted = t.mounted
  BY <1>1 DEF Tabs
<1> HIDE DEF u
<1>3. w.mounted = t.mounted /\ Settled(w).mounted = w.mounted
  BY <1>2 DEF syncEssayCache, Settled, Tabs
<1>4. b \in BOOLEAN
  OBVIOUS
<1> HIDE DEF b
<1>5. syncLatestSavedCache(u) \in Tabs
  BY <1>2 DEF syncLatestSavedCache, syncEssayCache, Tabs
<1>6. n \in Tabs
  <2>1. ASSUME NEW v \in Tabs PROVE [v EXCEPT !.needsSave = @ \/ b] \in Tabs
    BY <1>4 DEF Tabs
  <2>2. QED
    BY <1>5, <2>1
<1>7. n.mounted = t.mounted
  BY <1>2 DEF syncLatestSavedCache, syncEssayCache, Tabs
<1> HIDE DEF n, w
<1>8. settlePendingSavedDraft(n).mounted = t.mounted
  BY <1>6, <1>7, SettlePendingMounted
<1>9. handleSaveSuccess(t, d, essay) \in {Settled(w), settlePendingSavedDraft(n)}
  BY DEF handleSaveSuccess, u, w, n, b
<1>10. QED
  BY <1>3, <1>8, <1>9

LEMMA SaveErrorMounted ==
  ASSUME NEW t \in Tabs, NEW d
  PROVE  handleSaveError(t, d).mounted = t.mounted
<1> DEFINE u == [t EXCEPT !.inFlight = @ \ {d}]
           v == markSaveFailed(u)
           c == syncLatestSavedCache(u)
<1>1. u \in Tabs /\ u.mounted = t.mounted
  BY DEF Tabs
<1> HIDE DEF u
<1>2. v.mounted = t.mounted /\ [v EXCEPT !.dirty = TRUE, !.ui = "error"].mounted = t.mounted
  BY <1>1 DEF markSaveFailed, invalidateQueries, Tabs
<1>3. c \in Tabs /\ c.mounted = t.mounted
  BY <1>1 DEF syncLatestSavedCache, syncEssayCache, Tabs
<1> HIDE DEF c
<1>4. settlePendingSavedDraft(c).mounted = t.mounted
  BY <1>3, SettlePendingMounted
<1>5. handleSaveError(t, d)
        \in {v, [v EXCEPT !.dirty = TRUE, !.ui = "error"], settlePendingSavedDraft(c)}
  BY DEF handleSaveError, u, c
<1>6. QED
  BY <1>2, <1>4, <1>5

\* In the regime there is no keepalive that could return.
LEMMA KeepaliveReturnsSaved ==
  ASSUME TypeInv, StoredInv, SavedInv, NEW r \in tab.sent, KeepaliveReturns(r)
  PROVE  SavedInv'
<1> SUFFICES ASSUME Regime' PROVE SavedInv'
  BY DEF SavedInv
<1> DEFINE t == [tab EXCEPT !.sent = @ \ {r}]
           q == [t EXCEPT !.queued = IF @ = r.doc THEN None ELSE @]
           u == IF r.st = "answered" THEN handleSaveSuccess(q, r.doc, r.essay)
                ELSE handleSaveError(t, r.doc)
<1>1. r.doc \in Docs
  BY DEF TypeInv, Tabs, Requests
<1>2. t \in Tabs /\ HeldText(t, hist.stored) /\ t.mounted = tab.mounted
  BY DEF TypeInv, StoredInv, Tabs, HeldText, AnswersHeld
<1>3. r.st = "answered" => r.doc.text \in hist.stored /\ r.essay \in Essays
                           /\ r.essay.doc.text \in hist.stored
  BY DEF KeepaliveReturns, StoredInv, HeldText, AnswersHeld
<1>4. tab' = Rendered(u) /\ UNCHANGED <<server, clock, event, typed, faults, hist>>
  BY DEF KeepaliveReturns
<1> HIDE DEF t
<1>5. q \in Tabs /\ HeldText(q, hist.stored) /\ q.mounted = t.mounted
  BY <1>2 DEF Tabs, MaybeDoc, HeldText, AnswersHeld
<1> HIDE DEF q
<1>6. u \in Tabs /\ u.mounted = tab.mounted
  BY <1>1, <1>2, <1>3, <1>5, SaveSuccessHeld, SaveErrorHeld, SaveSuccessMounted,
     SaveErrorMounted DEF Keeps
<1> HIDE DEF u
<1>7. tab'.mounted = tab.mounted
  BY <1>4, <1>6, RenderedFields
<1>8. Sync(tab, server.doc.text, hist, typed, event)
  BY <1>4, <1>7, RegimeBack
<1>9. QED
  BY <1>8 DEF KeepaliveReturns, Sync, OneSave
-----------------------------------------------------------------------------
\* The page as a save returns to it, before the answer is looked at.
Returned(s, r) == [s EXCEPT !.sent = @ \ {r}, !.direct = None]

LEMMA ReturnedFields ==
  ASSUME NEW s \in Tabs, OneSave(s), NEW r \in s.sent, r.kind = "save"
  PROVE  LET t == Returned(s, r) IN
         /\ t \in Tabs /\ t.direct = None /\ t.sent = s.sent \ {r}
         /\ \A q \in t.sent : q.kind \notin {"save", "keepalive"}
         /\ r.doc \in Docs /\ s.direct = r.doc /\ s.direct # None /\ t.inFlight = {r.doc}
         /\ t.pending = s.pending /\ t.ui = s.ui /\ t.timer = s.timer /\ t.queued = s.queued
         /\ t.needsSave = s.needsSave /\ t.savedKey = s.savedKey
         /\ t.savedEssay = s.savedEssay /\ t.cache = s.cache /\ t.read = s.read
         /\ t.mounted = s.mounted /\ t.dirty = s.dirty /\ t.screen = s.screen
         /\ t.expected = s.expected
<1>1. r.doc \in Docs /\ s.direct = r.doc /\ s.direct # None /\ s.inFlight = {r.doc}
  BY NoneAssumption DEF OneSave, Tabs, Requests
<1>2. \A q \in s.sent \ {r} : q.kind \notin {"save", "keepalive"}
  BY DEF OneSave
<1>3. Returned(s, r) \in Tabs
  BY DEF Returned, Tabs, MaybeDoc
<1>4. QED
  BY <1>1, <1>2, <1>3 DEF Returned, Tabs

\* The newest draft has been saved.
LEMMA SuccessSync ==
  ASSUME NEW s \in Tabs, NEW x, NEW h, NEW n, NEW ev, Sync(s, x, h, n, ev),
         NEW r \in s.sent, r.kind = "save", r.st = "answered", r.essay \in Essays,
         s.pending = r.doc
  PROVE  Sync(drainQueue(handleSaveSuccess(Returned(s, r), r.doc, r.essay)), x, h, n, ev)
<1> DEFINE t == Returned(s, r)
           d == r.doc
           essay == r.essay
           u == [t EXCEPT !.inFlight = @ \ {d}, !.expected = laterVersion(essay.ver, @)]
           w == [syncEssayCache(u, essay) EXCEPT !.savedKey = DraftKey(d, "editor"),
                                                 !.needsSave = FALSE, !.pending = None]
           v == Settled(w)
<1>1. OneSave(s) /\ s.mounted
  BY DEF Sync
<1>2. /\ t \in Tabs /\ t.direct = None /\ t.sent = s.sent \ {r}
      /\ \A q \in t.sent : q.kind \notin {"save", "keepalive"}
      /\ d \in Docs /\ s.direct = d /\ s.direct # None /\ t.inFlight = {d}
      /\ t.pending = s.pending /\ t.timer = s.timer /\ t.queued = s.queued
      /\ t.read = s.read /\ t.mounted
  BY <1>1, ReturnedFields
<1>3. x = h.last /\ d.text = x /\ essay.doc.text = x /\ s.queued = None /\ s.timer = None
  BY <1>2 DEF Sync, Answers, Drafts
<1> HIDE DEF t
<1>4. u.pending = d /\ handleSaveSuccess(t, d, essay) = v
  BY <1>2 DEF handleSaveSuccess, Tabs
<1>5. /\ w.mounted /\ w.sent = t.sent /\ w.direct = None /\ w.queued = None /\ w.timer = None
      /\ w.inFlight = {} /\ w.pending = None /\ ~w.needsSave /\ w.read = s.read
      /\ w.cache = essay /\ w.savedEssay = essay /\ w.savedKey = DraftKey(d, "editor")
  BY <1>2, <1>3 DEF syncEssayCache, Tabs
<1>6. v = [w EXCEPT !.dirty = FALSE, !.ui = "saved"]
  BY <1>5 DEF Settled
<1>7. w \in Tabs
  <2>1. laterVersion(essay.ver, t.expected) \in Nat
    BY <1>2 DEF Tabs, Essays, laterVersion
  <2>2. u \in Tabs
    BY <1>2, <2>1 DEF Tabs
  <2>3. ASSUME NEW y \in Tabs
        PROVE  [y EXCEPT !.savedEssay = essay, !.cache = essay] \in Tabs
    BY DEF Tabs
  <2>4. DraftKey(d, "editor") \in [doc: Docs, order: {"any", "editor", "server"}]
    BY <1>2 DEF DraftKey
  <2>5. ASSUME NEW y \in Tabs, NEW k \in [doc: Docs, order: {"any", "editor", "server"}]
        PROVE  [y EXCEPT !.savedKey = k, !.needsSave = FALSE, !.pending = None] \in Tabs
    BY DEF Tabs, MaybeDoc
  <2> HIDE DEF u
  <2>6. QED
    BY <2>2, <2>3, <2>4, <2>5 DEF syncEssayCache
<1> HIDE DEF w
<1>8. /\ v.mounted /\ v.sent = t.sent /\ v.direct = None /\ v.queued = None /\ v.timer = None
      /\ v.inFlight = {} /\ v.pending = None /\ ~v.needsSave /\ v.read = s.read
      /\ v.cache = essay /\ v.savedEssay = essay /\ v.savedKey = DraftKey(d, "editor")
      /\ v.ui = "saved"
  BY <1>5, <1>6, <1>7 DEF Tabs
<1> HIDE DEF v
<1>9. drainQueue(v) = v
  BY <1>8 DEF drainQueue
<1>10. OneSave(v) /\ Drafts(v, x, h) /\ Answers(v, x)
  BY <1>2, <1>3, <1>8 DEF OneSave, Drafts, Answers
<1>11. Known(v) /\ ReadsTrue(v, x, ev)
  BY <1>3, <1>8 DEF Known, DraftKey, Sync, ReadsTrue
<1>12. Undone(v, x, h) /\ First(v, h, n)
  BY <1>2, <1>8 DEF Undone, Sync, First
<1>13. QED
  BY <1>4, <1>8, <1>9, <1>10, <1>11, <1>12 DEF Sync, t

\* The newest draft was refused.
LEMMA FailureSync ==
  ASSUME NEW s \in Tabs, NEW x, NEW h, NEW n, NEW ev, Sync(s, x, h, n, ev),
         NEW r \in s.sent, r.kind = "save", r.st = "refused", s.pending = r.doc
  PROVE  Sync(drainQueue(handleSaveError(Returned(s, r), r.doc)), x, h, n, ev)
<1> DEFINE t == Returned(s, r)
           d == r.doc
           v == handleSaveError(t, d)
<1>1. OneSave(s) /\ s.mounted
  BY DEF Sync
<1>2. /\ t \in Tabs /\ t.direct = None /\ t.sent = s.sent \ {r}
      /\ \A q \in t.sent : q.kind \notin {"save", "keepalive"}
      /\ d \in Docs /\ s.direct = d /\ s.direct # None /\ t.inFlight = {d}
      /\ t.pending = s.pending /\ t.timer = s.timer /\ t.queued = s.queued
      /\ t.mounted /\ t.needsSave = s.needsSave /\ t.savedKey = s.savedKey
      /\ t.savedEssay = s.savedEssay
  BY <1>1, ReturnedFields
<1>3. s.pending.text = h.last /\ s.queued = None /\ s.timer = None /\ ~s.needsSave
  BY <1>2 DEF Sync, Drafts
<1> HIDE DEF t
<1>4. /\ v.mounted /\ v.sent = t.sent /\ v.direct = None /\ v.queued = None /\ v.timer = None
      /\ v.inFlight = {} /\ v.pending = d /\ ~v.needsSave /\ v.read = [st |-> "sent"]
      /\ v.savedEssay = s.savedEssay /\ v.savedKey = s.savedKey /\ v.ui = "error"
  BY <1>2, <1>3 DEF handleSaveError, markSaveFailed, invalidateQueries, Tabs
<1> HIDE DEF v
<1>5. drainQueue(v) = v
  BY <1>4 DEF drainQueue
<1>6. OneSave(v) /\ Drafts(v, x, h) /\ Answers(v, x)
  BY <1>2, <1>3, <1>4 DEF OneSave, Drafts, Answers
<1>7. v.read \in Reads /\ v.read.st = "sent" /\ v.read # None
  BY <1>4, NoneAssumption DEF Reads
<1>8. Known(v) /\ ReadsTrue(v, x, ev)
  BY <1>4, <1>7 DEF Known, Sync, ReadsTrue
<1>9. Undone(v, x, h) /\ First(v, h, n)
  <2>1. n <= 1 => h.last \notin h.stored
    BY DEF Sync, First
  <2>2. n = 0 => s.pending = None
    BY DEF Sync, First
  <2>3. QED
    BY <1>2, <1>4, <2>1, <2>2 DEF Undone, Sync, First
<1>10. QED
  BY <1>4, <1>5, <1>6, <1>8, <1>9 DEF Sync, v, t

\* The page after the answer to a draft that another has replaced: the draft
\* is no longer in flight, and the cache is what was last known to be saved.
Superseded(s, r, e) ==
  [Returned(s, r) EXCEPT !.inFlight = {}, !.expected = e,
                         !.savedEssay = s.savedEssay, !.cache = s.savedEssay]

LEMMA SupersededFields ==
  ASSUME NEW s \in Tabs, OneSave(s), s.mounted, NEW r \in s.sent, r.kind = "save", NEW e \in Nat
  PROVE  LET c == Superseded(s, r, e) IN
         /\ c \in Tabs /\ OneSave(c) /\ c.direct = None /\ c.sent = s.sent \ {r}
         /\ \A q \in c.sent : q.kind \notin {"save", "keepalive"}
         /\ r.doc \in Docs /\ s.direct = r.doc /\ s.direct # None /\ c.inFlight = {}
         /\ c.pending = s.pending /\ c.ui = s.ui /\ c.timer = s.timer /\ c.queued = s.queued
         /\ c.needsSave = s.needsSave /\ c.savedKey = s.savedKey
         /\ c.savedEssay = s.savedEssay /\ c.cache = s.savedEssay /\ c.read = s.read
         /\ c.mounted
<1> DEFINE t == Returned(s, r)
           c == Superseded(s, r, e)
<1>1. /\ t \in Tabs /\ t.direct = None /\ t.sent = s.sent \ {r}
      /\ \A q \in t.sent : q.kind \notin {"save", "keepalive"}
      /\ r.doc \in Docs /\ s.direct = r.doc /\ s.direct # None
      /\ t.pending = s.pending /\ t.ui = s.ui /\ t.timer = s.timer /\ t.queued = s.queued
      /\ t.needsSave = s.needsSave /\ t.savedKey = s.savedKey
      /\ t.read = s.read /\ t.mounted
  BY ReturnedFields
<1>2. s.savedEssay \in Essays
  BY DEF Tabs
<1> HIDE DEF t
<1>3. c = [t EXCEPT !.inFlight = {}, !.expected = e,
                    !.savedEssay = s.savedEssay, !.cache = s.savedEssay]
  BY DEF Superseded, t
<1> HIDE DEF c
<1>4. c \in Tabs
  BY <1>1, <1>2, <1>3 DEF Tabs
<1>5. /\ c.direct = None /\ c.sent = t.sent /\ c.inFlight = {}
      /\ c.pending = t.pending /\ c.ui = t.ui /\ c.timer = t.timer /\ c.queued = t.queued
      /\ c.needsSave = t.needsSave /\ c.savedKey = t.savedKey
      /\ c.savedEssay = s.savedEssay /\ c.cache = s.savedEssay /\ c.read = t.read
      /\ c.mounted
  BY <1>1, <1>3 DEF Tabs
<1>6. OneSave(c)
  BY <1>1, <1>5 DEF OneSave
<1>7. QED
  BY <1>1, <1>4, <1>5, <1>6 DEF c

\* How it gets there, and what is settled from there.
LEMMA SuccessSupersedes ==
  ASSUME NEW s \in Tabs, OneSave(s), ~s.needsSave, NEW r \in s.sent, r.kind = "save",
         NEW essay \in Essays, s.pending # r.doc
  PROVE  LET e == laterVersion(essay.ver, s.expected)
             b == s.pending # None /\ DraftKey(s.pending, "editor") = s.savedKey
         IN /\ e \in Nat
            /\ handleSaveSuccess(Returned(s, r), r.doc, essay)
                 = settlePendingSavedDraft([Superseded(s, r, e) EXCEPT !.needsSave = b])
<1> DEFINE t == Returned(s, r)
           e == laterVersion(essay.ver, s.expected)
           b == s.pending # None /\ DraftKey(s.pending, "editor") = s.savedKey
           u == [t EXCEPT !.inFlight = @ \ {r.doc}, !.expected = laterVersion(essay.ver, @)]
           n == [syncLatestSavedCache(u) EXCEPT
                   !.needsSave = @ \/ /\ u.pending # None
                                      /\ DraftKey(u.pending, "editor") = u.savedKey]
<1>1. /\ t \in Tabs /\ t.inFlight = {r.doc} /\ t.expected = s.expected
      /\ t.pending = s.pending /\ t.needsSave = s.needsSave /\ t.savedKey = s.savedKey
      /\ t.savedEssay = s.savedEssay
  BY ReturnedFields
<1>2. e \in Nat
  BY DEF laterVersion, Essays, Tabs
<1> HIDE DEF t
<1>3. u = [t EXCEPT !.inFlight = {}, !.expected = e]
  BY <1>1 DEF Tabs
<1> HIDE DEF e
<1>4. /\ u.pending = s.pending /\ u.savedKey = s.savedKey /\ u.needsSave = s.needsSave
      /\ u.savedEssay = s.savedEssay
  BY <1>1, <1>3 DEF Tabs
<1>5. handleSaveSuccess(t, r.doc, essay) = settlePendingSavedDraft(n)
  BY <1>1, <1>4 DEF handleSaveSuccess
<1>6. syncLatestSavedCache(u) = Superseded(s, r, e)
  BY <1>1, <1>3, <1>4 DEF syncLatestSavedCache, syncEssayCache, Superseded, t, Tabs
<1>7. syncLatestSavedCache(u).needsSave = FALSE
  <2> HIDE DEF u
  <2>1. syncLatestSavedCache(u).needsSave = u.needsSave
    BY <1>1, <1>3 DEF syncLatestSavedCache, syncEssayCache, Tabs
  <2>2. u.needsSave \in BOOLEAN
    BY <1>4 DEF Tabs
  <2>3. QED
    BY <2>1, <2>2, <1>4
<1>8. n = [Superseded(s, r, e) EXCEPT !.needsSave = b]
  <2> HIDE DEF u
  <2>1. QED
    BY <1>4, <1>6, <1>7
<1>9. QED
  BY <1>2, <1>5, <1>8 DEF t, e

\* A refusal leads there too.
LEMMA ErrorSupersedes ==
  ASSUME NEW s \in Tabs, OneSave(s), NEW r \in s.sent, r.kind = "save", s.pending # r.doc
  PROVE  handleSaveError(Returned(s, r), r.doc)
           = settlePendingSavedDraft(Superseded(s, r, s.expected))
<1> DEFINE t == Returned(s, r)
           u == [t EXCEPT !.inFlight = @ \ {r.doc}]
<1>1. /\ t \in Tabs /\ t.inFlight = {r.doc} /\ t.expected = s.expected
      /\ t.pending = s.pending /\ t.savedEssay = s.savedEssay
  BY ReturnedFields
<1> HIDE DEF t
<1>2. u.pending = s.pending /\ u.savedEssay = s.savedEssay
  BY <1>1 DEF Tabs
<1>3. handleSaveError(t, r.doc) = settlePendingSavedDraft(syncLatestSavedCache(u))
  BY <1>2 DEF handleSaveError
<1>4. syncLatestSavedCache(u) = Superseded(s, r, s.expected)
  BY <1>1, <1>2 DEF syncLatestSavedCache, syncEssayCache, Superseded, t, Tabs
<1>5. QED
  BY <1>3, <1>4 DEF t

\* The queued draft is sent when the direct save has returned.
LEMMA DrainSends ==
  ASSUME NEW c \in Tabs, c.mounted, OneSave(c), c.direct = None, c.queued # None
  PROVE  drainQueue(c)
           = [c EXCEPT !.queued = None, !.direct = c.queued, !.inFlight = {c.queued},
                       !.ui = "saving",
                       !.sent = @ \cup {Request("save", c.queued, {}, c.expected, FALSE)}]
<1> DEFINE v == [c EXCEPT !.queued = None]
           q == Request("save", c.queued, {}, c.expected, FALSE)
<1>1. c.queued \in Docs
  BY DEF Tabs, MaybeDoc
<1>2. v \in Tabs /\ v.mounted /\ OneSave(v) /\ v.direct = None /\ v.expected = c.expected
  BY DEF Tabs, MaybeDoc, OneSave
<1>3. drainQueue(c) = saveDraft(v, c.queued, FALSE, FALSE)
  BY DEF drainQueue
<1> HIDE DEF v
<1>4. saveDraft(v, c.queued, FALSE, FALSE)
        = [v EXCEPT !.direct = c.queued, !.inFlight = {c.queued}, !.ui = "saving",
                    !.sent = @ \cup {Request("save", c.queued, {}, v.expected, FALSE)}]
  BY <1>1, <1>2, SaveSends
<1> HIDE DEF q
<1>5. drainQueue(c) = [v EXCEPT !.direct = c.queued, !.inFlight = {c.queued}, !.ui = "saving",
                                !.sent = @ \cup {q}]
  BY <1>2, <1>3, <1>4 DEF q
<1>6. drainQueue(c)
        = [c EXCEPT !.queued = None, !.direct = c.queued, !.inFlight = {c.queued},
                    !.ui = "saving", !.sent = @ \cup {q}]
  BY <1>5 DEF v, Tabs
<1>7. QED
  BY <1>6 DEF q

\* A page whose only save has returned, and which sends draft p as the next.
LEMMA NextSave ==
  ASSUME NEW v, NEW s, NEW r, NEW p, NEW e, p # None,
         v.mounted, v.direct = p, v.inFlight = {p}, v.queued = None,
         v.sent = (s.sent \ {r}) \cup {Request("save", p, {}, e, FALSE)},
         \A q \in s.sent \ {r} : q.kind \notin {"save", "keepalive"}
  PROVE  /\ OneSave(v) /\ \A x : Answers(v, x)
<1> DEFINE m == Request("save", p, {}, e, FALSE)
<1>1. m.kind = "save" /\ m.doc = p /\ m.st = "sent"
  BY DEF Request
<1> HIDE DEF m
<1>2. v.sent = (s.sent \ {r}) \cup {m}
  BY DEF m
<1>3. QED
  BY <1>1, <1>2 DEF OneSave, Answers

\* The draft that waits is not the one that was last saved.
LEMMA SupersededSync ==
  ASSUME NEW s \in Tabs, NEW x, NEW h, NEW n, NEW ev, Sync(s, x, h, n, ev), Texted(h),
         s.dirty <=> s.pending # None, Clean(s),
         NEW r \in s.sent, r.kind = "save", s.pending # r.doc, NEW e \in Nat,
         s.pending = None \/ s.savedKey # DraftKey(s.pending, "editor")
  PROVE  Sync(drainQueue(Superseded(s, r, e)), x, h, n, ev)
<1> DEFINE c == Superseded(s, r, e)
           v == drainQueue(c)
<1>1. OneSave(s) /\ s.mounted
  BY DEF Sync
<1>2. /\ c \in Tabs /\ OneSave(c) /\ c.direct = None /\ c.sent = s.sent \ {r}
      /\ \A q \in c.sent : q.kind \notin {"save", "keepalive"}
      /\ r.doc \in Docs /\ s.direct = r.doc /\ s.direct # None /\ c.inFlight = {}
      /\ c.pending = s.pending /\ c.ui = s.ui /\ c.timer = s.timer /\ c.queued = s.queued
      /\ c.needsSave = s.needsSave /\ c.savedKey = s.savedKey
      /\ c.savedEssay = s.savedEssay /\ c.cache = s.savedEssay /\ c.read = s.read
      /\ c.mounted
  BY <1>1, SupersededFields
<1>3. ~(n <= 1)
  BY <1>2 DEF Sync, First
<1>4. s.pending = None => s.savedEssay = s.cache
  BY DEF Clean
<1> HIDE DEF c
<1>5. CASE s.queued = None
  <2>1. v = c
    BY <1>2, <1>5 DEF drainQueue
  <2>2. Drafts(c, x, h) /\ Answers(c, x)
    BY <1>2, <1>5 DEF Sync, Drafts, Answers
  <2>3. Known(c) /\ ReadsTrue(c, x, ev)
    BY <1>2, <1>4 DEF Sync, Known, ReadsTrue
  <2>4. Undone(c, x, h) /\ First(c, h, n)
    BY <1>2, <1>3 DEF Undone, First
  <2>5. QED
    BY <1>2, <2>1, <2>2, <2>3, <2>4 DEF Sync, c
<1>6. CASE s.queued # None
  <2> DEFINE q == s.queued
             m == Request("save", q, {}, c.expected, FALSE)
  <2>1. s.pending # None
    BY <1>2, <1>6 DEF Sync, Drafts
  <2> HIDE DEF m
  <2>2. v = [c EXCEPT !.queued = None, !.direct = q, !.inFlight = {q}, !.ui = "saving",
                      !.sent = @ \cup {m}]
    <3>1. c \in Tabs /\ c.mounted /\ OneSave(c) /\ c.direct = None /\ c.queued # None
      BY <1>2, <1>6
    <3>2. drainQueue(c)
            = [c EXCEPT !.queued = None, !.direct = c.queued, !.inFlight = {c.queued},
                        !.ui = "saving",
                        !.sent = @ \cup {Request("save", c.queued, {}, c.expected, FALSE)}]
      BY <3>1, DrainSends
    <3>3. QED
      BY <1>2, <3>2 DEF m
  <2>3. /\ v.queued = None /\ v.direct = q /\ v.inFlight = {q} /\ v.ui = "saving"
        /\ v.sent = (s.sent \ {r}) \cup {m} /\ v.mounted /\ v.pending = s.pending
        /\ v.timer = s.timer /\ v.needsSave = s.needsSave /\ v.savedKey = s.savedKey
        /\ v.savedEssay = s.savedEssay /\ v.read = s.read
    BY <1>2, <2>2 DEF Tabs
  <2> HIDE DEF v
  <2>4. OneSave(v) /\ Answers(v, x)
    BY <1>2, <1>6, <2>3, NextSave DEF m
  <2>5. Drafts(v, x, h)
    BY <1>6, <2>1, <2>3 DEF Sync, Drafts
  <2>6. Known(v) /\ ReadsTrue(v, x, ev)
    BY <2>1, <2>3 DEF Sync, Known, ReadsTrue
  <2>7. Undone(v, x, h) /\ First(v, h, n)
    BY <1>3, <2>1, <2>3 DEF Undone, First
  <2>8. QED
    BY <2>3, <2>4, <2>5, <2>6, <2>7 DEF Sync, v, c
<1>7. QED
  BY <1>5, <1>6

\* It is: the student has undone what was under way, and p is sent (again).
LEMMA UndoneSync ==
  ASSUME NEW s \in Tabs, NEW x, NEW h, NEW n, NEW ev, Sync(s, x, h, n, ev), Texted(h),
         NEW r \in s.sent, r.kind = "save", s.pending # r.doc, s.pending # None,
         s.savedKey = DraftKey(s.pending, "editor"), NEW e,
         NEW v, v.mounted, v.queued = None, v.direct = s.pending, v.inFlight = {s.pending},
         v.ui = "saving",
         v.sent = (s.sent \ {r}) \cup {Request("save", s.pending, {}, e, FALSE)},
         \A q \in s.sent \ {r} : q.kind \notin {"save", "keepalive"},
         s.direct = r.doc, s.direct # None,
         v.timer = s.timer, ~v.needsSave, v.savedKey = s.savedKey,
         v.savedEssay = s.savedEssay, v.read = s.read,
         \/ v.pending = s.pending
         \/ v.pending = None /\ v.cache = s.savedEssay /\ r.st = "refused"
  PROVE  Sync(v, x, h, n, ev)
<1>1. s.queued = s.pending /\ (r.st = "refused" => x = h.last)
  BY DEF Sync, Undone
<1>2. s.timer = None /\ s.pending.text = h.last /\ h.last \in h.had
  BY <1>1 DEF Sync, Drafts, Texted
<1>3. ~(n <= 1)
  BY DEF Sync, First
<1>4. s.savedEssay.doc.text = h.last
  BY <1>2 DEF Sync, Known, DraftKey
<1>5. OneSave(v) /\ Answers(v, x)
  <2>1. s.pending # None
    OBVIOUS
  <2> DEFINE m == Request("save", s.pending, {}, e, FALSE)
  <2>2. m.kind = "save" /\ m.doc = s.pending /\ m.st = "sent"
    BY DEF Request
  <2> HIDE DEF m
  <2>3. v.sent = (s.sent \ {r}) \cup {m}
    BY DEF m
  <2>4. QED
    BY <2>1, <2>2, <2>3 DEF OneSave, Answers
<1>6. Drafts(v, x, h)
  BY <1>1, <1>2 DEF Drafts
<1>7. Known(v) /\ ReadsTrue(v, x, ev)
  BY <1>1, <1>4 DEF Sync, Known, ReadsTrue
<1>8. Undone(v, x, h) /\ First(v, h, n)
  BY <1>3 DEF Undone, First
<1>9. QED
  BY <1>5, <1>6, <1>7, <1>8 DEF Sync

\* The save of the text that was undone was served: p has to be saved again.
LEMMA SavedAgain ==
  ASSUME NEW s \in Tabs, NEW x, NEW h, NEW n, NEW ev, Sync(s, x, h, n, ev), Texted(h),
         NEW r \in s.sent, r.kind = "save", s.pending # r.doc, s.pending # None,
         s.savedKey = DraftKey(s.pending, "editor"), NEW e \in Nat
  PROVE  Sync(drainQueue(settlePendingSavedDraft(
                [Superseded(s, r, e) EXCEPT !.needsSave = TRUE])), x, h, n, ev)
<1> DEFINE c == Superseded(s, r, e)
           k == [c EXCEPT !.needsSave = TRUE]
           p == s.pending
           m == Request("save", p, {}, c.expected, FALSE)
           w == settlePendingSavedDraft(k)
           z == [w EXCEPT !.queued = None]
           v == drainQueue(w)
<1>1. OneSave(s) /\ s.mounted
  BY DEF Sync
<1>2. /\ c \in Tabs /\ OneSave(c) /\ c.direct = None /\ c.sent = s.sent \ {r}
      /\ \A q \in c.sent : q.kind \notin {"save", "keepalive"}
      /\ r.doc \in Docs /\ s.direct = r.doc /\ s.direct # None /\ c.inFlight = {}
      /\ c.pending = s.pending /\ c.ui = s.ui /\ c.timer = s.timer /\ c.queued = s.queued
      /\ c.needsSave = s.needsSave /\ c.savedKey = s.savedKey
      /\ c.savedEssay = s.savedEssay /\ c.cache = s.savedEssay /\ c.read = s.read
      /\ c.mounted
  BY <1>1, SupersededFields
<1>3. c.needsSave = FALSE
  BY <1>2 DEF Sync, Drafts, Tabs
<1>4. p \in Docs /\ p # None /\ s.queued = p
  BY <1>2 DEF Tabs, MaybeDoc, Sync, Undone
<1> HIDE DEF c
<1>5. /\ k.pending = p /\ k.savedKey = s.savedKey /\ k.inFlight = {} /\ k.needsSave
      /\ [k EXCEPT !.needsSave = FALSE] = c
  <2>1. k.pending = p /\ k.savedKey = s.savedKey /\ k.inFlight = {} /\ k.needsSave
    BY <1>2 DEF Tabs
  <2>2. ASSUME NEW y \in Tabs, y.needsSave = FALSE
        PROVE  [[y EXCEPT !.needsSave = TRUE] EXCEPT !.needsSave = FALSE] = y
    BY <2>2 DEF Tabs
  <2>3. QED
    BY <1>2, <1>3, <2>1, <2>2
<1> HIDE DEF k, p
<1>6. w = saveDraft(c, p, FALSE, FALSE)
  BY <1>4, <1>5 DEF settlePendingSavedDraft, hasConflictingInFlight, p
<1> HIDE DEF m
<1>7. w = [c EXCEPT !.direct = p, !.inFlight = {p}, !.ui = "saving", !.sent = @ \cup {m}]
  <2>1. saveDraft(c, p, FALSE, FALSE)
          = [c EXCEPT !.direct = p, !.inFlight = {p}, !.ui = "saving",
                      !.sent = @ \cup {Request("save", p, {}, c.expected, FALSE)}]
    BY <1>2, <1>4, SaveSends
  <2>2. QED
    BY <1>6, <2>1 DEF m
<1>8. m \in Requests
  BY <1>2, <1>4 DEF Request, Requests, Tabs, m
<1> HIDE DEF w
<1>9. w \in Tabs
  <2>1. ASSUME NEW y \in Tabs, NEW sent \in SUBSET Requests
        PROVE  [y EXCEPT !.direct = p, !.inFlight = {p}, !.ui = "saving", !.sent = sent] \in Tabs
    <3>1. p \in Docs /\ p \in MaybeDoc
      BY <1>4 DEF MaybeDoc
    <3>2. QED
      BY <3>1 DEF Tabs
  <2>2. c.sent \cup {m} \in SUBSET Requests
    BY <1>2, <1>8 DEF Tabs
  <2>3. QED
    BY <1>2, <1>7, <2>1, <2>2
<1>10. /\ w.direct = p /\ w.inFlight = {p} /\ w.ui = "saving" /\ w.sent = (s.sent \ {r}) \cup {m}
       /\ w.queued = p /\ w.mounted /\ w.pending = p /\ w.timer = s.timer /\ ~w.needsSave
       /\ w.savedKey = s.savedKey /\ w.savedEssay = s.savedEssay /\ w.read = s.read
  BY <1>2, <1>3, <1>4, <1>7 DEF Tabs, p
<1>11. z \in Tabs
  BY <1>9 DEF Tabs, MaybeDoc
<1>12. /\ z.direct = p /\ z.inFlight = {p} /\ z.ui = "saving" /\ z.sent = (s.sent \ {r}) \cup {m}
       /\ z.queued = None /\ z.mounted /\ z.pending = p /\ z.timer = s.timer /\ ~z.needsSave
       /\ z.savedKey = s.savedKey /\ z.savedEssay = s.savedEssay /\ z.read = s.read
  BY <1>9, <1>10 DEF Tabs
<1>13. \A q \in s.sent \ {r} : q.kind \notin {"save", "keepalive"}
  BY <1>2
<1>14. v = saveDraft(z, p, FALSE, FALSE)
  BY <1>4, <1>10 DEF drainQueue
<1> HIDE DEF z
<1>15. p \in z.inFlight /\ z.direct = p
  BY <1>12
<1>16. v = [z EXCEPT !.queued = None]
  BY <1>14, <1>15 DEF saveDraft
<1>17. v = z
  BY <1>11, <1>12, <1>16 DEF Tabs
<1>18. Sync(z, x, h, n, ev)
  BY <1>2, <1>4, <1>12, <1>13, UndoneSync DEF m, p
<1>19. QED
  BY <1>17, <1>18 DEF v, w, k, c

\* It was refused: the server has p, and p is sent to make sure.
LEMMA SavedAfterAll ==
  ASSUME NEW s \in Tabs, NEW x, NEW h, NEW n, NEW ev, Sync(s, x, h, n, ev), Texted(h),
         NEW r \in s.sent, r.kind = "save", r.st = "refused",
         s.pending # r.doc, s.pending # None,
         s.savedKey = DraftKey(s.pending, "editor"), NEW e \in Nat
  PROVE  Sync(drainQueue(settlePendingSavedDraft(Superseded(s, r, e))), x, h, n, ev)
<1> DEFINE c == Superseded(s, r, e)
           p == s.pending
           k == [c EXCEPT !.pending = None]
           w == settlePendingSavedDraft(c)
           m == Request("save", p, {}, w.expected, FALSE)
           v == drainQueue(w)
<1>1. OneSave(s) /\ s.mounted
  BY DEF Sync
<1>2. /\ c \in Tabs /\ OneSave(c) /\ c.direct = None /\ c.sent = s.sent \ {r}
      /\ \A q \in c.sent : q.kind \notin {"save", "keepalive"}
      /\ r.doc \in Docs /\ s.direct = r.doc /\ s.direct # None /\ c.inFlight = {}
      /\ c.pending = s.pending /\ c.ui = s.ui /\ c.timer = s.timer /\ c.queued = s.queued
      /\ c.needsSave = s.needsSave /\ c.savedKey = s.savedKey
      /\ c.savedEssay = s.savedEssay /\ c.cache = s.savedEssay /\ c.read = s.read
      /\ c.mounted
  BY <1>1, SupersededFields
<1>3. c.needsSave = FALSE
  BY <1>2 DEF Sync, Drafts, Tabs
<1>4. p \in Docs /\ p # None /\ s.queued = p
  BY <1>2 DEF Tabs, MaybeDoc, Sync, Undone
<1> HIDE DEF c
<1>5. k \in Tabs
  BY <1>2 DEF Tabs, MaybeDoc
<1>6. /\ k.direct = None /\ k.sent = s.sent \ {r} /\ k.inFlight = {} /\ k.pending = None
      /\ k.timer = s.timer /\ k.queued = s.queued /\ k.needsSave = FALSE
      /\ k.savedKey = s.savedKey /\ k.savedEssay = s.savedEssay /\ k.cache = s.savedEssay
      /\ k.read = s.read /\ k.mounted
  BY <1>2, <1>3 DEF Tabs
<1>7. w = Settled(syncLatestSavedCache(k))
  BY <1>2, <1>3, <1>4 DEF settlePendingSavedDraft, hasConflictingInFlight, p
<1> HIDE DEF k, p
<1>8. syncLatestSavedCache(k) = k
  BY <1>5, <1>6 DEF syncLatestSavedCache, syncEssayCache, Tabs
<1>9. w = [k EXCEPT !.dirty = FALSE, !.ui = "saved"]
  BY <1>6, <1>7, <1>8 DEF Settled
<1> HIDE DEF w
<1>10. w \in Tabs
  BY <1>5, <1>9 DEF Tabs
<1>11. /\ w.direct = None /\ w.sent = s.sent \ {r} /\ w.inFlight = {} /\ w.pending = None
       /\ w.timer = s.timer /\ w.queued = p /\ w.needsSave = FALSE
       /\ w.savedKey = s.savedKey /\ w.savedEssay = s.savedEssay /\ w.cache = s.savedEssay
       /\ w.read = s.read /\ w.mounted
  BY <1>4, <1>5, <1>6, <1>9 DEF Tabs
<1>12. OneSave(w)
  BY <1>2, <1>11 DEF OneSave
<1>13. v = [w EXCEPT !.queued = None, !.direct = p, !.inFlight = {p}, !.ui = "saving",
                     !.sent = @ \cup {m}]
  <2>1. w.direct = None /\ w.queued # None /\ w.mounted
    BY <1>4, <1>11
  <2>2. drainQueue(w)
          = [w EXCEPT !.queued = None, !.direct = w.queued, !.inFlight = {w.queued},
                      !.ui = "saving",
                      !.sent = @ \cup {Request("save", w.queued, {}, w.expected, FALSE)}]
    BY <1>10, <1>12, <2>1, DrainSends
  <2>3. QED
    BY <1>11, <2>2
<1> HIDE DEF m
<1>14. /\ v.direct = p /\ v.sent = (s.sent \ {r}) \cup {m} /\ v.inFlight = {p}
       /\ v.pending = None /\ v.ui = "saving"
       /\ v.timer = s.timer /\ v.queued = None /\ v.needsSave = FALSE
       /\ v.savedKey = s.savedKey /\ v.savedEssay = s.savedEssay /\ v.cache = s.savedEssay
       /\ v.read = s.read /\ v.mounted
  BY <1>10, <1>11, <1>13 DEF Tabs
<1> HIDE DEF v
<1>15. \A q \in s.sent \ {r} : q.kind \notin {"save", "keepalive"}
  BY <1>2
<1>16. Sync(v, x, h, n, ev)
  BY <1>2, <1>4, <1>14, <1>15, UndoneSync DEF m, p
<1>17. QED
  BY <1>16 DEF v, w, c

\* A save returns.
LEMMA ReturnSync ==
  ASSUME NEW s \in Tabs, NEW x, NEW h, NEW n, NEW ev, Sync(s, x, h, n, ev), Texted(h),
         s.dirty <=> s.pending # None, Clean(s),
         NEW r \in s.sent, r.kind = "save",
         NEW u, \/ /\ r.st = "answered" /\ r.essay \in Essays
                   /\ u = handleSaveSuccess(Returned(s, r), r.doc, r.essay)
                \/ r.st = "refused" /\ u = handleSaveError(Returned(s, r), r.doc)
  PROVE  Sync(drainQueue(u), x, h, n, ev)
<1>1. OneSave(s) /\ s.mounted /\ ~s.needsSave
  BY DEF Sync, Drafts
<1>2. CASE r.st = "answered" /\ s.pending = r.doc
  BY <1>2, SuccessSync
<1>3. CASE r.st = "refused" /\ s.pending = r.doc
  BY <1>3, FailureSync
<1>4. CASE r.st = "answered" /\ s.pending # r.doc
  <2> DEFINE e == laterVersion(r.essay.ver, s.expected)
             b == s.pending # None /\ DraftKey(s.pending, "editor") = s.savedKey
             c == Superseded(s, r, e)
  <2>1. e \in Nat /\ u = settlePendingSavedDraft([c EXCEPT !.needsSave = b])
    BY <1>1, <1>4, SuccessSupersedes
  <2> HIDE DEF e
  <2>2. CASE b
    <3>1. Sync(drainQueue(settlePendingSavedDraft([c EXCEPT !.needsSave = TRUE])), x, h, n, ev)
      BY <1>4, <2>1, <2>2, SavedAgain
    <3>2. b = TRUE
      BY <2>2
    <3>3. QED
      BY <2>1, <3>1, <3>2
  <2>3. CASE ~b
    <3>1. Sync(drainQueue(c), x, h, n, ev)
      BY <1>4, <2>1, <2>3, SupersededSync
    <3>2. c \in Tabs /\ c.needsSave = s.needsSave /\ c.pending = s.pending
          /\ c.savedKey = s.savedKey
      BY <1>1, <2>1, SupersededFields
    <3>3. c.needsSave = FALSE /\ b = FALSE
      BY <1>1, <2>3, <3>2 DEF Tabs
    <3> HIDE DEF c, b
    <3>4. [c EXCEPT !.needsSave = b] = c
      BY <3>2, <3>3 DEF Tabs
    <3>5. settlePendingSavedDraft(c) = c
      BY <2>3, <3>2 DEF settlePendingSavedDraft, b
    <3>6. QED
      BY <2>1, <3>1, <3>4, <3>5
  <2>4. QED
    BY <2>2, <2>3
<1>5. CASE r.st = "refused" /\ s.pending # r.doc
  <2> DEFINE c == Superseded(s, r, s.expected)
  <2>1. u = settlePendingSavedDraft(c)
    BY <1>1, <1>5, ErrorSupersedes
  <2>2. s.expected \in Nat
    BY DEF Tabs
  <2>3. CASE s.pending # None /\ s.savedKey = DraftKey(s.pending, "editor")
    BY <1>5, <2>1, <2>2, <2>3, SavedAfterAll
  <2>4. CASE s.pending = None \/ s.savedKey # DraftKey(s.pending, "editor")
    <3>1. Sync(drainQueue(c), x, h, n, ev)
      BY <1>5, <2>2, <2>4, SupersededSync
    <3>2. c.pending = s.pending /\ c.savedKey = s.savedKey
      BY <1>1, <2>2, SupersededFields
    <3> HIDE DEF c
    <3>3. settlePendingSavedDraft(c) = c
      BY <2>4, <3>2 DEF settlePendingSavedDraft
    <3>4. QED
      BY <2>1, <3>1, <3>3
  <2>5. QED
    BY <2>3, <2>4
<1>6. QED
  BY <1>2, <1>3, <1>4, <1>5

LEMMA ReturnMounted ==
  ASSUME NEW t \in Tabs, NEW ends, NEW seen \in BOOLEAN, NEW w \in afterFlush(t, ends, seen)
  PROVE  w.mounted = t.mounted
BY DEF afterFlush, sendResolution, Tabs

\* A resolution that waited for the save goes on.
LEMMA AfterFlushSync ==
  ASSUME NEW t \in Tabs, NEW x, NEW h, NEW n, NEW ev, Sync(t, x, h, n, ev),
         NEW ends, NEW seen \in BOOLEAN, NEW w \in afterFlush(t, ends, seen)
  PROVE  Sync(w, x, h, n, ev)
<1>1. t.dirty \in BOOLEAN /\ (t.resolving # None => t.resolving \in Resolvings)
  BY DEF Tabs
<1>2. \/ w = t
      \/ /\ t.resolving # None
         /\ w \in {sendResolution(t, t.dirty), sendResolution(t, seen)}
  BY DEF afterFlush
<1>3. QED
  BY <1>1, <1>2, ResolutionSync

\* A save returns to the page.
LEMMA SaveReturnsSaved ==
  ASSUME TypeInv, StoredInv, SavedInv, NEW r \in tab.sent, SaveReturns(r)
  PROVE  SavedInv'
<1> SUFFICES ASSUME Regime' PROVE SavedInv'
  BY DEF SavedInv
<1> DEFINE t == Returned(tab, r)
           u == IF r.st = "answered" THEN handleSaveSuccess(t, r.doc, r.essay)
                ELSE handleSaveError(t, r.doc)
           v == drainQueue(u)
<1>1. r \in Requests /\ r.doc \in Docs
  BY DEF TypeInv, Tabs, Requests
<1>2. t \in Tabs /\ HeldText(t, hist.stored) /\ t.mounted = tab.mounted
  <2>1. t \in Tabs
    BY DEF TypeInv, Tabs, MaybeDoc, Returned
  <2>2. HeldText(t, hist.stored) /\ t.mounted = tab.mounted
    BY DEF TypeInv, StoredInv, Tabs, HeldText, AnswersHeld, Returned
  <2>3. QED
    BY <2>1, <2>2
<1>3. r.st = "answered" => r.doc.text \in hist.stored /\ r.essay \in Essays
                           /\ r.essay.doc.text \in hist.stored
  BY DEF SaveReturns, StoredInv, HeldText, AnswersHeld
<1>4. PICK w \in afterFlush(v, v.direct = None, tab.dirty) : tab' = Rendered(w)
  BY DEF SaveReturns, Returned
<1>5. UNCHANGED <<server, clock, event, typed, faults, hist>>
      /\ r.kind = "save" /\ r.st \in {"answered", "refused"}
  BY DEF SaveReturns
<1>6. tab.dirty \in BOOLEAN /\ tab \in Tabs
  BY DEF TypeInv, Tabs
<1> HIDE DEF t
<1>7. Keeps(t, u, hist.stored) /\ u.mounted = t.mounted
  BY <1>1, <1>2, <1>3, SaveSuccessHeld, SaveErrorHeld, SaveSuccessMounted, SaveErrorMounted
<1>8. \/ /\ r.st = "answered" /\ r.essay \in Essays
         /\ u = handleSaveSuccess(Returned(tab, r), r.doc, r.essay)
      \/ r.st = "refused" /\ u = handleSaveError(Returned(tab, r), r.doc)
  BY <1>3, <1>5 DEF t
<1> HIDE DEF u
<1>9. Keeps(u, v, hist.stored) /\ v.mounted = u.mounted
  BY <1>7, DrainHeld, DrainMounted DEF Keeps
<1> HIDE DEF v
<1>10. Keeps(v, w, hist.stored) /\ w.mounted = v.mounted
  BY <1>4, <1>6, <1>9, AfterFlushHeld, ReturnMounted DEF Keeps
<1>11. tab'.mounted = tab.mounted
  BY <1>2, <1>4, <1>7, <1>9, <1>10, RenderedFields DEF Keeps
<1>12. Texted(hist) /\ Sync(tab, server.doc.text, hist, typed, event) /\ Clean(tab)
       /\ tab.mounted
  BY <1>5, <1>11, RegimeBack DEF Regime
<1>13. tab.dirty <=> tab.pending # None
  BY <1>12 DEF StoredInv, HeldText
<1>14. Sync(v, server.doc.text, hist, typed, event)
  BY <1>5, <1>6, <1>8, <1>12, <1>13, ReturnSync DEF v
<1>15. Sync(w, server.doc.text, hist, typed, event)
  BY <1>4, <1>6, <1>9, <1>14, AfterFlushSync DEF Keeps
<1>16. QED
  BY <1>4, <1>5, <1>10, <1>12, <1>15, PageSync DEF Keeps

\* Typing: the new text has not been there before, or it undoes the first one.
LEMMA TypedSync ==
  ASSUME NEW t \in Tabs, NEW x, NEW h, NEW n \in Nat, NEW ev, Sync(t, x, h, n, ev),
         Texted(h), Clean(t), HeldText(t, h.stored), x \in h.stored,
         NEW text, NEW d \in Docs, d = [t.screen EXCEPT !.text = text], d # t.screen,
         text \notin h.had \/ n = 1,
         NEW g, g.last = text, g.had = h.had \cup {text}, g.stored = h.stored
  PROVE  Sync(queueSave([t EXCEPT !.screen = d], d), x, g, n + 1, ev)
<1> DEFINE s == [t EXCEPT !.screen = d]
           z == [s EXCEPT !.needsSave = FALSE]
           q == IF s.direct # None THEN d ELSE z.queued
           a == [z EXCEPT !.pending = d, !.timer = d, !.dirty = TRUE, !.ui = "saving"]
           b == [z EXCEPT !.pending = d, !.timer = None, !.dirty = TRUE, !.ui = "saving",
                          !.queued = q]
           c == [z EXCEPT !.pending = None, !.timer = None, !.dirty = FALSE, !.ui = "saved"]
           u == queueSave(s, d)
<1>1. u = IF s.savedKey # DraftKey(d, "editor") THEN a
          ELSE IF hasConflictingInFlight(s, d) THEN b ELSE c
  BY DEF queueSave
<1>2. /\ t.mounted /\ (t.dirty <=> t.pending # None) /\ (t.dirty => t.pending = t.screen)
      /\ t.screen \in Docs /\ t.screen # None /\ d # None /\ DraftKey(d, "editor").doc = d
  BY NoneAssumption DEF Sync, HeldText, Tabs, DraftKey
<1>3. d.text = text /\ text # t.screen.text
  BY <1>2 DEF Docs
<1>4. /\ s.savedKey = t.savedKey /\ s.inFlight = t.inFlight /\ s.direct = t.direct
      /\ z \in Tabs
  BY DEF Tabs
<1>5. /\ z.cache = t.cache /\ z.read = t.read /\ z.inFlight = t.inFlight
      /\ z.direct = t.direct /\ z.queued = t.queued /\ z.needsSave = FALSE
      /\ z.mounted /\ z.sent = t.sent /\ z.savedKey = t.savedKey
      /\ z.savedEssay = t.savedEssay
  BY <1>2 DEF Tabs
<1>6. t.pending = None => t.savedKey # DraftKey(d, "editor")
  <2>1. DraftKey(t.cache.doc, "server").doc = t.cache.doc
    BY DEF DraftKey
  <2>2. QED
    BY <1>2, <2>1 DEF Clean
<1>7. t.savedKey = DraftKey(d, "editor") => text \in h.stored
  <2>1. t.savedKey.doc.text \in h.stored
    BY DEF HeldText
  <2>2. t.savedKey = DraftKey(d, "editor") => t.savedKey.doc = d
    BY <1>2
  <2>3. QED
    BY <1>3, <2>1, <2>2
<1>8. text \in h.had => /\ n = 1 /\ t.queued = None /\ (t.direct # None => t.direct = t.pending)
                        /\ \A e, f \in h.had \ {h.last} : e = f
  BY DEF Sync, First
<1>9. n = 0 => t.pending = None /\ h.had = {h.last} /\ text \notin h.had /\ t.direct = None
               /\ t.queued = None
  BY DEF Sync, First
<1>10. t.pending # None => t.pending = t.screen /\ t.pending.text = h.last /\ text # h.last
  BY <1>2, <1>3 DEF Sync, Drafts
<1>11. /\ t.direct # None => t.direct.text \in h.had /\ t.direct # d /\ t.direct.text # text
       /\ t.queued # None => t.queued.text \in h.had /\ t.queued # d /\ t.queued.text # text
  BY <1>2, <1>3, <1>8, <1>10 DEF Sync, Drafts
<1>12. x \in h.had /\ t.cache.doc.text \in h.had
  BY DEF Texted, HeldText
<1>13. t.direct = None => t.queued = None
  BY DEF Sync, Drafts
<1>14. h.stored \subseteq h.had
  BY DEF Texted
<1> HIDE DEF s, z
<1>15. CASE t.savedKey # DraftKey(d, "editor")
  <2>1. u = a
    BY <1>1, <1>4, <1>15
  <2>2. /\ a.cache = t.cache /\ a.read = t.read /\ a.inFlight = t.inFlight
        /\ a.direct = t.direct /\ a.queued = t.queued /\ a.needsSave = FALSE
        /\ a.mounted /\ a.sent = t.sent /\ a.savedKey = t.savedKey
        /\ a.savedEssay = t.savedEssay /\ a.pending = d /\ a.timer = d /\ a.ui = "saving"
    BY <1>4, <1>5 DEF Tabs
  <2> HIDE DEF a
  <2>3. OneSave(a) /\ Answers(a, x) /\ Known(a) /\ ReadsTrue(a, x, ev)
    BY <1>2, <2>2 DEF Sync, OneSave, Answers, Known, ReadsTrue
  <2>4. Drafts(a, x, g)
    BY <1>2, <1>3, <1>11, <1>13, <2>2 DEF Drafts
  <2>5. Undone(a, x, g)
    BY <1>15, <2>2 DEF Undone
  <2>6. First(a, g, n + 1)
    <3>1. SUFFICES ASSUME n + 1 <= 1 PROVE First(a, g, n + 1)
      BY DEF First
    <3>2. n = 0
      BY <3>1
    <3>3. text \notin g.stored /\ \A e, f \in g.had \ {g.last} : e = f
      BY <1>9, <1>14, <3>2
    <3>4. QED
      BY <1>9, <2>2, <3>2, <3>3 DEF First
  <2>7. QED
    BY <2>1, <2>2, <2>3, <2>4, <2>5, <2>6 DEF Sync, u, s
<1>16. CASE t.savedKey = DraftKey(d, "editor") /\ hasConflictingInFlight(s, d)
  <2>1. u = b
    BY <1>1, <1>4, <1>16
  <2>2. t.direct # None /\ t.pending # None /\ n = 1
    BY <1>4, <1>6, <1>7, <1>8, <1>14, <1>16 DEF hasConflictingInFlight, Sync, OneSave
  <2>3. q = d /\ q \in MaybeDoc
    BY <1>4, <2>2 DEF MaybeDoc
  <2> HIDE DEF q
  <2>4. /\ b.cache = t.cache /\ b.read = t.read /\ b.inFlight = t.inFlight
        /\ b.direct = t.direct /\ b.queued = d /\ b.needsSave = FALSE
        /\ b.mounted /\ b.sent = t.sent /\ b.savedKey = t.savedKey
        /\ b.savedEssay = t.savedEssay /\ b.pending = d /\ b.timer = None /\ b.ui = "saving"
    BY <1>4, <1>5, <2>3 DEF Tabs
  <2> HIDE DEF b
  <2>5. OneSave(b) /\ Answers(b, x) /\ Known(b) /\ ReadsTrue(b, x, ev)
    BY <1>2, <2>4 DEF Sync, OneSave, Answers, Known, ReadsTrue
  <2>6. Drafts(b, x, g)
    BY <1>2, <1>3, <1>11, <2>2, <2>4 DEF Drafts
  <2>7. Undone(b, x, g)
    <3>1. ASSUME NEW r \in t.sent, r.kind = "save", r.st \in {"sent", "refused"}
          PROVE  x = text
      <4>1. h.last \notin h.stored
        BY <2>2, <3>1 DEF Sync, First
      <4>2. QED
        BY <1>7, <1>8, <1>12, <1>14, <1>16, <4>1
    <3>2. QED
      BY <2>4, <3>1 DEF Undone
  <2>8. First(b, g, n + 1)
    BY <2>2 DEF First
  <2>9. QED
    BY <2>1, <2>4, <2>5, <2>6, <2>7, <2>8 DEF Sync, u, s
<1>17. CASE t.savedKey = DraftKey(d, "editor") /\ ~hasConflictingInFlight(s, d)
  <2>1. u = c
    BY <1>1, <1>4, <1>17
  <2>2. t.pending # None /\ n = 1 /\ text \in h.stored
    BY <1>6, <1>7, <1>8, <1>14, <1>17
  <2>3. t.direct = None
    BY <1>4, <1>11, <1>17 DEF hasConflictingInFlight, Sync, OneSave
  <2>4. h.last \notin h.stored
    BY <2>2, <2>3 DEF Sync, First
  <2>5. x = text /\ t.cache.doc.text = text
    BY <1>8, <1>12, <1>14, <2>2, <2>4 DEF HeldText
  <2>6. /\ c.cache = t.cache /\ c.read = t.read /\ c.inFlight = t.inFlight
        /\ c.direct = t.direct /\ c.queued = t.queued /\ c.needsSave = FALSE
        /\ c.mounted /\ c.sent = t.sent /\ c.savedKey = t.savedKey
        /\ c.savedEssay = t.savedEssay /\ c.pending = None /\ c.timer = None
    BY <1>4, <1>5 DEF Tabs
  <2> HIDE DEF c
  <2>7. OneSave(c) /\ Answers(c, x) /\ Known(c) /\ ReadsTrue(c, x, ev)
    BY <2>5, <2>6 DEF Sync, OneSave, Answers, Known, ReadsTrue
  <2>8. Drafts(c, x, g) /\ Undone(c, x, g)
    BY <1>13, <2>3, <2>5, <2>6 DEF Drafts, Undone
  <2>9. First(c, g, n + 1)
    BY <2>2 DEF First
  <2>10. QED
    BY <2>1, <2>6, <2>7, <2>8, <2>9 DEF Sync, u, s
<1>18. QED
  BY <1>15, <1>16, <1>17

\* The student types.
LEMMA TypeSaved ==
  ASSUME TypeInv, StoredInv, SavedInv, NEW text \in Texts, Type(text)
  PROVE  SavedInv'
<1> SUFFICES ASSUME Regime' PROVE SavedInv'
  BY DEF SavedInv
<1> DEFINE d == [tab.screen EXCEPT !.text = text]
           u == queueSave([tab EXCEPT !.screen = d], d)
<1>1. d \in Docs /\ tab \in Tabs /\ HeldText(tab, hist.stored) /\ tab.mounted /\ typed \in Nat
      /\ server.doc.text \in hist.stored
  BY DEF Type, TypeInv, StoredInv, Tabs, Docs
<1>2. d # tab.screen /\ typed' = typed + 1 /\ tab' = Rendered(u)
      /\ UNCHANGED <<server, clock, event, faults>>
  BY DEF Type
<1>3. /\ hist'.last = text /\ hist'.had = hist.had \cup {text} /\ hist'.stored = hist.stored
      /\ hist'.kept = hist.kept
      /\ hist'.back = (hist.back \/ (text \in hist.had /\ typed # 1))
  BY DEF Type, TypeInv, Hists
<1>4. (text \notin hist.had \/ typed = 1) /\ Regime
  BY <1>1, <1>2, <1>3 DEF Regime
<1>5. Texted(hist) /\ Sync(tab, server.doc.text, hist, typed, event) /\ Clean(tab)
  BY <1>4 DEF SavedInv
<1>6. u \in Tabs /\ HeldText(u, hist.stored)
  BY <1>1, QueueSaveHeld
<1>7. Sync(u, server.doc.text, hist', typed + 1, event)
  BY <1>1, <1>2, <1>3, <1>4, <1>5, TypedSync
<1> HIDE DEF u
<1>8. Sync(tab', server.doc.text, hist', typed + 1, event) /\ Clean(tab')
  BY <1>2, <1>6, <1>7, RenderedSync
<1>9. Texted(hist')
  BY <1>3, <1>5 DEF Texted
<1>10. QED
  BY <1>2, <1>8, <1>9 DEF SavedInv

\* The second invariant holds in the beginning.
LEMMA InitSaved ==
  ASSUME Init
  PROVE  SavedInv
<1>1. PICK d \in {Blank, [text |-> 1, edits |-> {}]} :
        LET essay == [doc |-> d, ver |-> 1, sugs |-> {}] IN
        /\ server = essay /\ clock = 1 /\ event = FALSE
        /\ tab = [screen |-> d, cache |-> essay, read |-> None, adopting |-> FALSE,
                  pending |-> None, dirty |-> FALSE, ui |-> "saved", expected |-> 1,
                  savedKey |-> DraftKey(d, "server"), savedEssay |-> essay,
                  inFlight |-> {}, direct |-> None, queued |-> None,
                  needsSave |-> FALSE, timer |-> None, mounted |-> TRUE,
                  hidden |-> FALSE, resolving |-> None, sent |-> {}]
        /\ typed = 0 /\ faults = 0
        /\ hist = [last |-> d.text, stored |-> {d.text}, had |-> {d.text},
                   back |-> FALSE, made |-> {}, hides |-> 0, kept |-> FALSE]
  BY DEF Init
<1>2. DraftKey(d, "server").doc = d
  BY DEF DraftKey
<1>3. Texted(hist) /\ Clean(tab)
  BY <1>1 DEF Texted, Clean
<1>4. OneSave(tab) /\ Answers(tab, server.doc.text) /\ Known(tab)
  BY <1>1, <1>2 DEF OneSave, Answers, Known
<1>5. Drafts(tab, server.doc.text, hist) /\ Undone(tab, server.doc.text, hist)
  BY <1>1 DEF Drafts, Undone
<1>6. First(tab, hist, typed)
  BY <1>1 DEF First
<1>7. ReadsTrue(tab, server.doc.text, event)
  BY <1>1, NoneAssumption DEF ReadsTrue
<1>8. tab.mounted
  BY <1>1
<1>9. QED
  BY <1>3, <1>4, <1>5, <1>6, <1>7, <1>8 DEF SavedInv, Sync

\* Every step keeps the second invariant.
LEMMA EverySaved ==
  ASSUME TypeInv, StoredInv, SavedInv, [Next]_vars
  PROVE  SavedInv'
<1>1. CASE UNCHANGED vars
  BY <1>1 DEF vars, SavedInv, Regime
<1>2. CASE Student
  <2>1. tab.cache.sugs \in SUBSET Sugs
    BY DEF TypeInv, Tabs, Essays
  <2>2. QED
    BY <1>2, <2>1, TypeSaved, FlushSaved, HideSaved, ShowSaved, LeaveSaved, ResolveSavedFirst
       DEF Student, Resolutions
<1>3. CASE AutosaveTimer
  BY <1>3, TimerSaved
<1>4. CASE Network
  BY <1>4, UpdateSaved, OtherSaved, ResolveSaved, GetSaved, SaveReturnsSaved,
     KeepaliveReturnsSaved, ResolutionReturnsSaved, ReadAnsweredSaved, ReadReturnsSaved,
     ChangeSaved DEF Network, Serve, Returns
<1>5. CASE \E r \in tab.sent : Lose(r)
  BY <1>5, LoseSaved
<1>6. CASE \E s \in Sugs : append_suggestions(s)
  BY <1>6, AppendSaved
<1>7. QED
  BY <1>1, <1>2, <1>3, <1>4, <1>5, <1>6 DEF Next

\* What the invariant says of a page at rest.
LEMMA AtRest ==
  ASSUME TypeInv, StoredInv, SavedInv
  PROVE  SavedMeansSaved
<1> SUFFICES ASSUME Quiet, tab.mounted, tab.ui = "saved", faults = 0, ~hist.kept, ~hist.back
             PROVE  server.doc.text = hist.last /\ tab.screen.text = hist.last
  BY DEF SavedMeansSaved
<1>1. Sync(tab, server.doc.text, hist, typed, event) /\ Clean(tab)
  BY DEF SavedInv, Regime
<1>2. tab.pending = None /\ server.doc.text = hist.last
  BY <1>1 DEF Sync, Drafts
<1>3. ~tab.dirty
  BY <1>2 DEF StoredInv, HeldText
<1>4. tab.read = None /\ ~event
  BY DEF Quiet
<1>5. tab.cache.doc.text = server.doc.text
  BY <1>1, <1>2, <1>4 DEF Sync, ReadsTrue
<1>6. tab.screen = tab.cache.doc
  BY <1>1, <1>3 DEF Clean
<1>7. QED
  BY <1>2, <1>5, <1>6

\* When all has come to rest and the page says "Saved" (useEssayAutosave.ts), the
\* server has the text typed last and the page shows it, for any number of
\* keystrokes, whatever order timers, blurs, saves, reads and resolutions took.
THEOREM SavedIsSaved == Spec => []SavedMeansSaved
<1>1. Init => TypeInv /\ StoredInv /\ SavedInv
  BY InitHeld, InitSaved
<1>2. TypeInv /\ StoredInv /\ SavedInv /\ [Next]_vars => TypeInv' /\ StoredInv' /\ SavedInv'
  BY EveryStep, EverySaved DEF StepOK
<1>3. TypeInv /\ StoredInv /\ SavedInv => SavedMeansSaved
  BY AtRest
<1>4. QED
  BY <1>1, <1>2, <1>3, PTL DEF Spec
=============================================================================
