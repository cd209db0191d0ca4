----------------------------- MODULE EssayEditor -----------------------------
(***************************************************************************)
(* The essay editor of the web client: the autosave of the student's       *)
(* typing, the resolution of suggested changes, the cached copy of the     *)
(* essay, and the essay on the server they all write to.  A document is    *)
(* the student's text and the suggestions accepted into it; what it says   *)
(* is left out.                                                            *)
(***************************************************************************)
EXTENDS Integers, FiniteSets

CONSTANTS
  Sugs,        \* the suggestions the agent may make
  Texts,       \* the texts there are, 0 is the empty one
  MaxTyped,    \* how often the student types
  MaxHides,    \* how often the tab goes to the background
  MaxFaults,   \* how many requests are lost
  Ops,         \* what happens in the instance, see EditorAssumption
  None

ASSUME EditorAssumption ==
  /\ {0, 1} \subseteq Texts /\ Texts \subseteq Nat
  /\ MaxTyped \in Nat /\ MaxHides \in Nat /\ MaxFaults \in Nat
  /\ Ops \subseteq {"accept", "reject", "acceptAll", "rejectAll", "agent",
                    "blur", "retry", "hide", "leave", "stale"}

VARIABLES
  server,  \* the essay's row: document, updated_at, pending suggestions
  clock,   \* the database's clock
  event,   \* a change event is on its way to the tab
  tab,     \* the editor's state and refs, its cache entry and its requests
  typed,   \* keystrokes so far
  faults,  \* requests lost so far
  hist     \* history: the text typed last, the texts that the server has held,
           \* those that the student has had, whether he went back to one of
           \* them, the suggestions made, how often the tab was hidden, and
           \* whether a draft was sent as it was

vars == <<server, clock, event, tab, typed, faults, hist>>

Resolutions == {"accept", "reject", "acceptAll", "rejectAll"}
Docs == [text: Texts, edits: SUBSET Sugs]
Blank == [text |-> 0, edits |-> {}]
Essays == [doc: Docs, ver: Nat, sugs: SUBSET Sugs]

\* What a read under way is: issued, or answered with the row.
Reads == [st: {"sent"}] \cup [st: {"answered"}, essay: Essays]

\* The lack of a draft or of a read is not one.
ASSUME NoneAssumption == None \notin Docs /\ None \notin Reads

\* The JSON text of a document, by which drafts are compared.  The server's
\* jsonb column reorders the keys of a text node, so that the same document
\* has another key when it comes from there; an empty one has no text node.
DraftKey(d, from) == [doc |-> d, order |-> IF d = Blank THEN "any" ELSE from]

laterVersion(a, b) == IF a > b THEN a ELSE b

hasConflictingInFlight(t, d) == t.inFlight \ {d} # {}
-----------------------------------------------------------------------------
(* The cache entry of the essay and its background read.                   *)

\* invalidateQueries: a read under way is cancelled and issued again, and who
\* waited for it waits for the new one.  Nothing reads for a closed page.
invalidateQueries(t, adopt) ==
  IF t.mounted
  THEN [t EXCEPT !.read = [st |-> "sent"], !.adopting = @ \/ adopt]
  ELSE t

syncEssayCache(t, essay) == [t EXCEPT !.savedEssay = essay, !.cache = essay]

syncLatestSavedCache(t) == syncEssayCache(t, t.savedEssay)
-----------------------------------------------------------------------------
(* The autosave.                                                           *)

Saving(t, quiet) == IF t.mounted /\ ~quiet THEN [t EXCEPT !.ui = "saving"] ELSE t

Settled(t) == IF t.mounted THEN [t EXCEPT !.dirty = FALSE, !.ui = "saved"] ELSE t

Request(kind, d, ids, guard, asked) ==
  [kind |-> kind, doc |-> d, ids |-> ids, guard |-> guard, asked |-> asked,
   st |-> "sent", essay |-> None]

saveDraft(t, d, quiet, asked) ==
  IF d \in t.inFlight
  THEN IF t.direct = d THEN [t EXCEPT !.queued = None] ELSE t
  ELSE IF t.direct # None
  THEN Saving([t EXCEPT !.queued = d], quiet)
  ELSE IF t.savedKey = DraftKey(d, "editor") /\ hasConflictingInFlight(t, d)
  THEN Saving(t, quiet)
  ELSE Saving([t EXCEPT !.direct = d, !.inFlight = @ \cup {d},
                        !.sent = @ \cup {Request("save", d, {}, t.expected, asked)}], quiet)

saveDraftKeepalive(t, d, quiet) ==
  IF d \in t.inFlight THEN t
  ELSE Saving([t EXCEPT !.timer = None, !.inFlight = @ \cup {d},
                        !.sent = @ \cup {Request("keepalive", d, {}, None, FALSE)}], quiet)

settlePendingSavedDraft(t) ==
  LET p == t.pending IN
  IF \/ p = None
     \/ t.savedKey # DraftKey(p, "editor")
     \/ hasConflictingInFlight(t, p)
     \/ p \in t.inFlight
  THEN t
  ELSE IF t.needsSave
  THEN saveDraft([t EXCEPT !.needsSave = FALSE], p, FALSE, FALSE)
  ELSE Settled(syncLatestSavedCache([t EXCEPT !.pending = None]))

\* Fault: the answer to an older draft settles the newer one.
handleSaveSuccessOfAny(t, d, essay) ==
  Settled([syncEssayCache([t EXCEPT !.inFlight = @ \ {d},
                                    !.expected = laterVersion(essay.ver, @)], essay)
             EXCEPT !.savedKey = DraftKey(d, "editor"),
                    !.needsSave = FALSE, !.pending = None])

handleSaveSuccess(t, d, essay) ==
  LET u == [t EXCEPT !.inFlight = @ \ {d},
                     !.expected = laterVersion(essay.ver, @)]
  IN IF u.pending = d
     THEN Settled([syncEssayCache(u, essay) EXCEPT
                     !.savedKey = DraftKey(d, "editor"),
                     !.needsSave = FALSE, !.pending = None])
     ELSE settlePendingSavedDraft(
            [syncLatestSavedCache(u) EXCEPT
               !.needsSave = @ \/ /\ u.pending # None
                                  /\ DraftKey(u.pending, "editor") = u.savedKey])

\* Fault: the version that the server refused is kept.
markSaveFailedOnly(t) == t

markSaveFailed(t) == invalidateQueries(t, TRUE)

handleSaveError(t, d) ==
  LET u == [t EXCEPT !.inFlight = @ \ {d}]
  IN IF u.pending = d
     THEN LET v == markSaveFailed(u)
          IN IF v.mounted THEN [v EXCEPT !.dirty = TRUE, !.ui = "error"] ELSE v
     ELSE settlePendingSavedDraft(syncLatestSavedCache(u))

drainQueue(t) ==
  IF t.queued = None THEN t
  ELSE saveDraft([t EXCEPT !.queued = None], t.queued, FALSE, FALSE)

queueSave(t, d) ==
  LET u == [t EXCEPT !.needsSave = FALSE]
  IN IF t.savedKey # DraftKey(d, "editor")
     THEN [u EXCEPT !.pending = d, !.timer = d, !.dirty = TRUE, !.ui = "saving"]
     ELSE IF hasConflictingInFlight(t, d)
     THEN [u EXCEPT !.pending = d, !.timer = None, !.dirty = TRUE, !.ui = "saving",
                    !.queued = IF t.direct # None THEN d ELSE @]
     ELSE [u EXCEPT !.pending = None, !.timer = None, !.dirty = FALSE, !.ui = "saved"]

flush(t, asked) ==
  LET u == [t EXCEPT !.timer = None]
  IN IF t.pending = None THEN u ELSE saveDraft(u, t.pending, FALSE, asked)

flushKeepalive(t) ==
  IF t.pending = None THEN t ELSE saveDraftKeepalive(t, t.pending, FALSE)

flushOnUnmount(t) ==
  LET u == [t EXCEPT !.timer = None]
  IN IF t.pending = None THEN u
     ELSE IF hasConflictingInFlight(u, t.pending)
     THEN saveDraftKeepalive(u, t.pending, TRUE)
     ELSE saveDraft(u, t.pending, TRUE, FALSE)

\* The effect that takes over what the server holds, unless a draft waits.
adoptSavedDraft(t) ==
  IF t.dirty \/ t.pending # None THEN t
  ELSE [t EXCEPT !.savedKey = DraftKey(t.cache.doc, "server"),
                 !.expected = laterVersion(t.cache.ver, @),
                 !.savedEssay = t.cache, !.timer = None, !.ui = "saved"]

\* The effect that brings the document on the screen up to the cache entry.
resyncContent(t) == IF t.dirty THEN t ELSE [t EXCEPT !.screen = t.cache.doc]

\* What React does after every step of the page: render and run the effects.
Rendered(t) == IF t.mounted THEN resyncContent(adoptSavedDraft(t)) ELSE t
-----------------------------------------------------------------------------
(* Accepting and rejecting suggestions.                                    *)

Resolution(t) ==
  Request(t.resolving.action, Blank, t.resolving.ids, None, FALSE)

\* After the flush: resolve gives up when the typing has not been saved.
\* `seen' is what isDirtyRef says.
sendResolution(t, seen) ==
  IF seen THEN [t EXCEPT !.resolving = None]
  ELSE [t EXCEPT !.resolving.st = "request", !.sent = @ \cup {Resolution(t)}]

\* A direct save has come back and nothing was queued behind it, so that who
\* awaits the flush goes on.  isDirtyRef follows with the next render only.
afterFlush(t, chainEnds, rendered) ==
  IF chainEnds /\ t.resolving # None /\ t.resolving.st = "flush"
  THEN {sendResolution(t, t.dirty), sendResolution(t, rendered)}
  ELSE {t}

applyToEditor(t, essay) == [t EXCEPT !.screen = essay.doc]

\* Fault: what the student has typed meanwhile is not looked at.
resolvedBlindly(t, essay) ==
  LET u == [applyToEditor(t, essay) EXCEPT !.cache = essay]
  IN [invalidateQueries(u, FALSE) EXCEPT !.resolving = None]

resolved(t, essay) ==
  LET serverMovedOn == t.cache.ver > essay.ver
      u == IF t.resolving.action \in {"accept", "acceptAll"} /\ ~serverMovedOn /\ ~t.dirty
           THEN applyToEditor(t, essay) ELSE t
      v == IF serverMovedOn THEN u ELSE [u EXCEPT !.cache = essay]
  IN [invalidateQueries(v, FALSE) EXCEPT !.resolving = None]
-----------------------------------------------------------------------------
Init ==
  \E d \in {Blank, [text |-> 1, edits |-> {}]} :
    LET essay == [doc |-> d, ver |-> 1, sugs |-> {}] IN
    /\ server = essay /\ clock = 1 /\ event = FALSE
    /\ tab = [screen |-> d, cache |-> essay, read |-> None, adopting |-> FALSE,
              pending |-> None, dirty |-> FALSE, ui |-> "saved", expected |-> 1,
              savedKey |-> DraftKey(d, "server"), savedEssay |-> essay,
              inFlight |-> {}, direct |-> None, queued |-> None,
              needsSave |-> FALSE, timer |-> None, mounted |-> TRUE,
              hidden |-> FALSE, resolving |-> None, sent |-> {}]
    /\ typed = 0 /\ faults = 0
    /\ hist = [last |-> d.text, stored |-> {d.text}, had |-> {d.text},
               back |-> FALSE, made |-> {}, hides |-> 0, kept |-> FALSE]

\* The student types a new text, or undoes to one that was there before.
Type(text) ==
  LET d == [tab.screen EXCEPT !.text = text] IN
  /\ tab.mounted /\ ~tab.hidden
  /\ typed < MaxTyped /\ d # tab.screen
  /\ typed' = typed + 1
  /\ hist' = [hist EXCEPT !.last = text, !.had = @ \cup {text},
                          !.back = @ \/ (text \in hist.had /\ typed # 1)]
  /\ tab' = Rendered(queueSave([tab EXCEPT !.screen = d], d))
  /\ UNCHANGED <<server, clock, event, faults>>

AutosaveTimer ==
  /\ tab.timer # None
  /\ tab' = Rendered(saveDraft([tab EXCEPT !.timer = None], tab.timer, FALSE, FALSE))
  /\ UNCHANGED <<server, clock, event, typed, faults, hist>>

Blur ==
  /\ "blur" \in Ops /\ tab.mounted /\ tab.pending # None
  /\ tab' = Rendered(flush(tab, FALSE))
  /\ UNCHANGED <<server, clock, event, typed, faults, hist>>

Retry ==
  /\ "retry" \in Ops /\ tab.mounted /\ tab.ui = "error"
  /\ tab' = Rendered(flush(tab, TRUE))
  /\ UNCHANGED <<server, clock, event, typed, faults, hist>>

\* The tab goes to the background, and may come back.
Hide ==
  /\ "hide" \in Ops /\ tab.mounted /\ ~tab.hidden
  /\ hist.hides < MaxHides
  /\ tab' = Rendered(flushKeepalive([tab EXCEPT !.hidden = TRUE]))
  /\ hist' = [hist EXCEPT !.hides = @ + 1, !.kept = @ \/ tab.pending # None]
  /\ UNCHANGED <<server, clock, event, typed, faults>>

Show ==
  /\ tab.hidden
  /\ tab' = [tab EXCEPT !.hidden = FALSE,
                        !.read = IF @ = None THEN [st |-> "sent"] ELSE @]
  /\ UNCHANGED <<server, clock, event, typed, faults, hist>>

\* The student goes to another page of the client.
Leave ==
  /\ "leave" \in Ops /\ tab.mounted /\ ~tab.hidden
  /\ tab' = flushOnUnmount([tab EXCEPT !.mounted = FALSE, !.read = None])
  /\ UNCHANGED <<server, clock, event, typed, faults, hist>>

resolve(action, ids) ==
  /\ action \in Ops /\ tab.mounted
  /\ tab.resolving = None
  /\ LET t == [tab EXCEPT !.resolving = [action |-> action, ids |-> ids, st |-> "flush"]]
         u == flush(t, FALSE)
     IN tab' = Rendered(IF t.pending # None /\ u.direct # None THEN u
                        ELSE sendResolution(u, u.dirty))
  /\ UNCHANGED <<server, clock, event, typed, faults, hist>>
-----------------------------------------------------------------------------
(* The server.  Versions grow in the order of the writes: updated_at is    *)
(* the start of the writing transaction, and no two transactions on the    *)
(* row overlap here.  A request is answered from a read after its          *)
(* transaction.                                                            *)

\* The row after a write of `essay'.
Stored(essay) ==
  /\ clock' = clock + 1
  /\ server' = [essay EXCEPT !.ver = clock + 1]
  /\ event' = TRUE

Written(essay) ==
  /\ Stored(essay)
  /\ hist' = [hist EXCEPT !.stored = @ \cup {essay.doc.text}]

Refused == UNCHANGED <<server, clock, event, hist>>

Outcome(r, st) ==
  tab' = [tab EXCEPT !.sent = (@ \ {r}) \cup {[r EXCEPT !.st = st]}]

update_essay(r) ==
  /\ r.kind \in {"save", "keepalive"} /\ r.st = "sent"
  /\ IF r.guard \in {None, server.ver}
     THEN Written([server EXCEPT !.doc = r.doc]) /\ Outcome(r, "written")
     ELSE Refused /\ Outcome(r, "refused")
  /\ UNCHANGED <<typed, faults>>

\* One suggestion is accepted or rejected; an edit that no longer applies to
\* the text is refused.
resolve_suggestion(r) ==
  /\ r.kind \in {"accept", "reject"} /\ r.st = "sent"
  /\ LET rest == [server EXCEPT !.sugs = @ \ r.ids]
     IN \/ /\ r.ids \subseteq server.sugs
           /\ Written(IF r.kind = "accept"
                         THEN [rest EXCEPT !.doc.edits = @ \cup r.ids] ELSE rest)
           /\ Outcome(r, "written")
        \/ /\ ~(r.ids \subseteq server.sugs) \/ (r.kind = "accept" /\ "stale" \in Ops)
           /\ Refused /\ Outcome(r, "refused")
  /\ UNCHANGED <<typed, faults>>

\* All that are pending are accepted, but for the ones that no longer apply,
\* or rejected.
resolve_all_suggestions(r) ==
  /\ r.kind \in {"acceptAll", "rejectAll"} /\ r.st = "sent"
  /\ \E applied \in IF r.kind = "rejectAll" THEN {{}}
                    ELSE IF "stale" \in Ops THEN SUBSET server.sugs
                    ELSE {server.sugs} :
       Written([server EXCEPT
                     !.sugs = IF r.kind = "rejectAll" THEN {} ELSE @ \ applied,
                     !.doc.edits = @ \cup applied])
  /\ Outcome(r, "written")
  /\ UNCHANGED <<typed, faults>>

\* The answer to a request that wrote is read from the row as it is by then.
get_essay(r) ==
  /\ r.st = "written"
  /\ tab' = [tab EXCEPT !.sent = (@ \ {r}) \cup
               {[r EXCEPT !.st = "answered", !.essay = server]}]
  /\ UNCHANGED <<server, clock, event, typed, faults, hist>>

\* A request, or the answer to it, is lost.
Lose(r) ==
  /\ faults < MaxFaults /\ r.st \in {"sent", "written"}
  /\ faults' = faults + 1
  /\ Outcome(r, "refused")
  /\ UNCHANGED <<server, clock, event, typed, hist>>

\* The agent suggests a change.
append_suggestions(s) ==
  /\ "agent" \in Ops
  /\ s \notin hist.made
  /\ Stored([server EXCEPT !.sugs = @ \cup {s}])
  /\ hist' = [hist EXCEPT !.made = @ \cup {s}]
  /\ UNCHANGED <<tab, typed, faults>>
-----------------------------------------------------------------------------
(* What comes back to the tab.                                             *)

SaveReturns(r) ==
  /\ r.kind = "save" /\ r.st \in {"answered", "refused"}
  /\ LET t == [tab EXCEPT !.sent = @ \ {r}, !.direct = None]
         u == IF r.st = "answered" THEN handleSaveSuccess(t, r.doc, r.essay)
              ELSE handleSaveError(t, r.doc)
         v == drainQueue(u)
     IN \E w \in afterFlush(v, v.direct = None, tab.dirty) : tab' = Rendered(w)
  /\ UNCHANGED <<server, clock, event, typed, faults, hist>>

KeepaliveReturns(r) ==
  /\ r.kind = "keepalive" /\ r.st \in {"answered", "refused"}
  /\ LET t == [tab EXCEPT !.sent = @ \ {r}]
         u == IF r.st = "answered"
              THEN handleSaveSuccess(
                     [t EXCEPT !.queued = IF @ = r.doc THEN None ELSE @],
                     r.doc, r.essay)
              ELSE handleSaveError(t, r.doc)
     IN tab' = Rendered(u)
  /\ UNCHANGED <<server, clock, event, typed, faults, hist>>

ResolutionReturns(r) ==
  /\ r.kind \in Resolutions /\ r.st \in {"answered", "refused"}
  /\ LET t == [tab EXCEPT !.sent = @ \ {r}]
     IN tab' = Rendered(IF r.st = "answered" THEN resolved(t, r.essay)
                        ELSE [t EXCEPT !.resolving = None])
  /\ UNCHANGED <<server, clock, event, typed, faults, hist>>

ReadAnswered ==
  /\ tab.read # None /\ tab.read.st = "sent"
  /\ tab' = [tab EXCEPT !.read = [st |-> "answered", essay |-> server]]
  /\ UNCHANGED <<server, clock, event, typed, faults, hist>>

\* The read lands in the cache, or fails; a failed save waits for it.
ReadReturns ==
  /\ tab.read # None
  /\ \/ tab.read.st = "answered" /\ faults' = faults
     \/ tab.read.st = "sent" /\ faults < MaxFaults /\ faults' = faults + 1
  /\ LET t == [tab EXCEPT !.read = None, !.adopting = FALSE,
                 !.cache = IF tab.read.st = "answered" THEN tab.read.essay ELSE @]
         u == IF tab.adopting
              THEN [t EXCEPT !.expected = laterVersion(t.cache.ver, @)] ELSE t
     IN tab' = Rendered(u)
  /\ UNCHANGED <<server, clock, event, typed, hist>>

ChangeEvent ==
  /\ event
  /\ event' = FALSE
  /\ tab' = Rendered(invalidateQueries(tab, FALSE))
  /\ UNCHANGED <<server, clock, typed, faults, hist>>
-----------------------------------------------------------------------------
Serve(r) ==
  \/ update_essay(r) \/ resolve_suggestion(r)
  \/ resolve_all_suggestions(r) \/ get_essay(r)

Returns(r) == SaveReturns(r) \/ KeepaliveReturns(r) \/ ResolutionReturns(r)

Student ==
  \/ \E text \in Texts : Type(text)
  \/ Blur \/ Retry \/ Hide \/ Show \/ Leave
  \/ \E s \in Sugs, a \in {"accept", "reject"} : s \in tab.cache.sugs /\ resolve(a, {s})
  \/ \E a \in {"acceptAll", "rejectAll"} :
       tab.cache.sugs # {} /\ resolve(a, tab.cache.sugs)

Network ==
  \/ \E r \in tab.sent : Serve(r) \/ Returns(r)
  \/ ReadAnswered \/ ReadReturns \/ ChangeEvent

Next ==
  \/ Student \/ AutosaveTimer \/ Network
  \/ \E r \in tab.sent : Lose(r)
  \/ \E s \in Sugs : append_suggestions(s)

\* What was asked is answered and comes back, reads are not starved by new
\* ones, and a student who sees a failed save tries it again.
Spec ==
  /\ Init /\ [][Next]_vars
  /\ WF_vars(AutosaveTimer) /\ WF_vars(Retry) /\ WF_vars(ChangeEvent)
  /\ SF_vars(ReadAnswered) /\ SF_vars(ReadReturns)
  /\ WF_vars(\E r \in tab.sent : Serve(r)) /\ WF_vars(\E r \in tab.sent : Returns(r))
-----------------------------------------------------------------------------
Requests ==
  [kind: {"save", "keepalive"} \cup Resolutions, doc: Docs, ids: SUBSET Sugs,
   guard: Nat \cup {None}, asked: BOOLEAN,
   st: {"sent", "written", "answered", "refused"}, essay: Essays \cup {None}]

MaybeDoc == Docs \cup {None}

\* The state of the page and of the row stays within what the code declares:
\* in particular an answered request always carries an essay, and a draft that
\* is directly in flight is among the drafts in flight.
TypeOK ==
  /\ server \in Essays /\ clock \in Nat /\ event \in BOOLEAN
  /\ typed \in 0..MaxTyped /\ faults \in 0..MaxFaults
  /\ {tab.screen} \cup tab.inFlight \subseteq Docs
  /\ {tab.cache, tab.savedEssay} \subseteq Essays
  /\ {tab.pending, tab.direct, tab.queued, tab.timer} \subseteq MaybeDoc
  /\ tab.direct # None => tab.direct \in tab.inFlight
  /\ {tab.dirty, tab.adopting, tab.needsSave, tab.mounted, tab.hidden} \subseteq BOOLEAN
  /\ tab.ui \in {"saved", "saving", "error"} /\ tab.expected \in Nat
  /\ \A r \in tab.sent : r \in Requests /\ (r.st = "answered" => r.essay # None)

\* Nothing is on its way to or from the tab, and no timer runs.
Quiet == tab.sent = {} /\ tab.timer = None /\ tab.read = None /\ ~event

\* When everything has come to rest and the page says that the essay is saved,
\* the server holds the text that the student typed last and the page shows it:
\* no order of timers, blurs, answers, reads and resolutions drops the newest
\* draft behind a "Saved".  Requests that get lost, and drafts sent unguarded
\* as the tab is hidden, are excepted: the code lets them arrive late.  So are
\* students who go back to a text they had, but by undoing their first change:
\* drafts are told apart by what they say, and an earlier one with the same
\* words is taken for it (SavedIsNewest).
SavedMeansSaved ==
  Quiet /\ tab.mounted /\ tab.ui = "saved" /\ faults = 0 /\ ~hist.kept /\ ~hist.back
    => server.doc.text = hist.last /\ tab.screen.text = hist.last

\* "Their typing is never dropped and never silently overwritten", nor is it
\* where they go back to an earlier text (markSaveFailed).
SavedIsNewest ==
  Quiet /\ tab.mounted /\ tab.ui = "saved" /\ faults = 0 /\ ~hist.kept
    => server.doc.text = hist.last /\ tab.screen.text = hist.last

\* What the page replaces on the screen without the student typing is a text
\* that the server has held: the words that exist nowhere else stay, whatever
\* answer or read arrives (rules 1 and 4 of useEssaySuggestions.ts).
UnsavedStaysOnScreen ==
  [][tab'.screen.text # tab.screen.text /\ typed' = typed
       => tab.screen.text \in hist.stored]_vars

\* A student who retries a failed save gets it saved in the end: the page does
\* not stay behind a version that the server refuses (markSaveFailed,
\* laterVersion).
RetryPrevails == []<>(tab.ui = "saved" \/ ~tab.mounted)

\* "Their text only overwrites the accepted edit if they ask for it": a write
\* that the student did not ask for by a click keeps every accepted edit.
AcceptedIsKept ==
  [][\A r \in tab.sent :
       update_essay(r) /\ ~r.asked => server.doc.edits \subseteq server'.doc.edits]_vars
=============================================================================
