----------------------------- MODULE ChatClient -----------------------------
(***************************************************************************)
(* One chat of the web client: the turn engine that sends, steers, stops,  *)
(* edits, retries and forwards the student's messages, the message list    *)
(* that their bubbles live in and the reads that replace it, the stored    *)
(* cursor, and the server as the engine sees it.  A message is a model     *)
(* value; the answer's text is left out.  TurnRegistry has the server in   *)
(* detail.                                                                 *)
(***************************************************************************)
EXTENDS Integers, Sequences, FiniteSets, SequencesExt

CONSTANTS
  Msgs,        \* what the student may say
  MaxCalls,    \* how many submits, attaches and stops the page starts
  MaxAsks,     \* how often a message is sent and its answer asked for anew
  MaxTurns,    \* how many turns the server runs
  MaxFaults,   \* how many requests or answers are lost and turns fail
  Ops,         \* what else happens in the instance, see ClientAssumption
  None

ASSUME ClientAssumption ==
  /\ {MaxCalls, MaxAsks, MaxTurns, MaxFaults} \subseteq Nat
  /\ Ops \subseteq {"steer", "stop", "regenerate", "retry", "other", "reload", "drop", "timeout",
              "lose", "error"}

VARIABLES
  log,     \* the transcript on the server: a question and an answer per record
  turns,   \* the turns so far: their events, steers and state
  page,    \* the page's memory
  cursor,  \* the stored cursor of the chat: how many events of its turn are seen
  calls,   \* the submits, attaches and stops, each a promise of its own
  faults,
  asked,   \* history: how often the student asked for each message
  heard    \* history: how often the agent got each message

vars == <<log, turns, page, cursor, calls, faults, asked, heard>>

Callers == 1..MaxCalls

\* Message ids: made up by the page, or given by the server.
Temp(c) == [temp |-> TRUE, of |-> c]
Backend(k) == [temp |-> FALSE, of |-> k]

userMessage(id, m) == [kind |-> "user", id |-> id, msg |-> m]
assistantMessage(id, st) == [kind |-> "assistant", id |-> id, msg |-> st]
-----------------------------------------------------------------------------
(* The message list.                                                       *)

\* Fault: the id goes to every bubble of the student's.
reconcileEveryId(list, old, new) ==
  [i \in DOMAIN list |-> IF list[i].kind = "user"
                         THEN [list[i] EXCEPT !.id = new] ELSE list[i]]

\* The optimistic bubble gets the id that the server has given its message.
reconcileMetaIds(list, old, new) ==
  [i \in DOMAIN list |-> IF list[i].id = old /\ list[i].kind = "user"
                         THEN [list[i] EXCEPT !.id = new] ELSE list[i]]

upsertAssistantMessage(list, a) ==
  LET same == {i \in DOMAIN list : list[i].kind = "assistant" /\ list[i].id = a.id}
  IN IF same = {} THEN Append(list, a)
     ELSE [list EXCEPT ![CHOOSE i \in same : \A j \in same : i <= j] = a]

\* A record is a question and its answer.  The prose that precedes the first
\* record, of turns that have none, is left out.
messagesFromTranscript(records) ==
  [i \in 1..2 * Len(records) |->
     LET r == records[(i + 1) \div 2]
     IN IF i % 2 = 1 THEN userMessage(Backend(r.turn), r.msg)
        ELSE assistantMessage(Backend(r.turn), r.st)]

\* The elements of list that are in S, in their order.
Only(list, S) ==
  LET upTo[n \in 0..Len(list)] ==
        IF n = 0 THEN <<>>
        ELSE IF list[n] \in S THEN Append(upTo[n - 1], list[n]) ELSE upTo[n - 1]
  IN upTo[Len(list)]
-----------------------------------------------------------------------------
(* The engine's steps, on s = [page, cursor, calls].                       *)

Now == [page |-> page, cursor |-> cursor, calls |-> calls]
Set(s) == page' = s.page /\ cursor' = s.cursor /\ calls' = s.calls

Idle == [pc |-> "idle", net |-> "none", msg |-> None, replace |-> None, own |-> FALSE,
         again |-> FALSE, aborted |-> FALSE, user |-> None, answer |-> None,
         meta |-> FALSE, st |-> "streaming", turn |-> 0, pos |-> 0, segs |-> <<>>]

Over == [Idle EXCEPT !.pc = "over"]

Free(s) == {c \in Callers : s.calls[c].pc = "idle"}
Slot(s) == CHOOSE c \in Free(s) : \A d \in Free(s) : c <= d

\* Fault: the older turn is not aborted.
abortNothing(s, but) == s

\* Only the newest turn has an abort controller that somebody still holds.
abort(s, but) ==
  [s EXCEPT !.calls = [x \in Callers |->
     IF x # but /\ @[x].pc \in {"post", "stream", "open"}
     THEN [@[x] EXCEPT !.aborted = TRUE] ELSE @[x]]]

publishTurn(s, c) == [s EXCEPT !.page.live = c]

\* POST the message and consume its stream; the cursor starts anew.
runTurn(s, c, user, again) ==
  LET sent == s.calls[c] IN
  [publishTurn(abort(s, c), c) EXCEPT
     !.cursor = 0,
     !.page.cancelInFlight = FALSE, !.page.cancelCommitted = FALSE,
     !.calls[c] = [Idle EXCEPT !.pc = "post", !.net = "sent", !.msg = sent.msg,
                     !.replace = sent.replace, !.own = sent.own, !.again = again, !.user = user,
                     !.answer = Temp(c)]]

\* The optimistic bubble, unless an older message is being replaced, and the turn.
startSend(s, c) ==
  LET m == s.calls[c].msg
      old == s.calls[c].replace
      user == IF old = None THEN Temp(c) ELSE old
  IN runTurn([s EXCEPT !.page.list = IF old = None THEN Append(@, userMessage(user, m)) ELSE @,
                       !.page.last = user],
             c, user, FALSE)

\* The send has failed: the message waits for the student to press Retry.
setPendingSend(s, c, bubble) ==
  [s EXCEPT !.page.pending = [msg |-> s.calls[c].msg, replace |-> s.calls[c].replace,
                              bubble |-> bubble]]

\* What the student typed also goes back to where it was typed.
Fail(s, c, bubble) ==
  [setPendingSend(s, c, bubble) EXCEPT
     !.page.composer = IF s.calls[c].own THEN s.calls[c].msg ELSE @,
     !.calls[c] = Over]

\* What is retried takes its bubble off the list, unless it replaces a message.
failedBubble(s, c) == IF s.calls[c].replace = None THEN s.page.last ELSE None

\* A message during an answer steers it, an edit stops it first.
submitMessage(s, m, replace, own) ==
  LET c == Slot(s)
      t == [s EXCEPT !.page.pending = None,
                     !.calls[c] = [Idle EXCEPT !.msg = m, !.replace = replace, !.own = own]]
  IN IF s.page.live = None THEN startSend(t, c)
     ELSE [t EXCEPT !.calls[c].pc = IF replace = None THEN "steer" ELSE "cancel",
                    !.calls[c].net = "sent"]

\* Fault: the answer stays live when its stream is over.
FinallyStaysLive(s) == s

\* The stream is over: nothing is live, whoever was.
Finally(s) == [s EXCEPT !.page.live = None]

\* Fault: the transcript is not read again.
invalidateNothing(s) == s

invalidateSession(s) == [s EXCEPT !.page.read = [st |-> "sent", log |-> <<>>]]

pendingUserSegmentsOf(segs) == Only(segs, {g \in Range(segs) : ~g.injected})

\* Fault: that the agent has taken the message in is not noted.
mergeUserSegmentOnce(segs, m, injected) ==
  IF \E i \in DOMAIN segs : segs[i].msg = m THEN segs
  ELSE Append(segs, [msg |-> m, injected |-> injected])

mergeUserSegment(segs, m, injected) ==
  LET at == {i \in DOMAIN segs : segs[i].msg = m}
  IN IF at = {} THEN Append(segs, [msg |-> m, injected |-> injected])
     ELSE [i \in DOMAIN segs |->
             IF i \in at THEN [segs[i] EXCEPT !.injected = @ \/ injected] ELSE segs[i]]

\* Fault: what the answer did not take in is not forwarded.
TerminalForgets(s, c) ==
  invalidateSession(Finally(
    [s EXCEPT !.page.list = upsertAssistantMessage(@,
                              assistantMessage(s.calls[c].answer, s.calls[c].st)),
              !.calls[c] = Over]))

\* The answer has ended: its bubble is final, what it did not take in is to be
\* sent as messages of their own, and the transcript is read again.
Terminal(s, c) ==
  LET rest == pendingUserSegmentsOf(s.calls[c].segs)
      late == Only(rest, {g \in Range(rest) : g.msg \notin s.page.seen})
  IN invalidateSession(Finally(
       [s EXCEPT !.page.list = upsertAssistantMessage(@,
                                 assistantMessage(s.calls[c].answer, s.calls[c].st)),
                 !.page.queue = @ \o [i \in DOMAIN late |-> late[i].msg],
                 !.page.seen = @ \cup {late[i].msg : i \in DOMAIN late},
                 !.calls[c] = Over]))

\* The stream broke off: after `meta' what there is of the answer stays, and a
\* replaced message has the transcript read again; else the send has failed.
\* An attach has nobody to tell.
Broken(s, c) ==
  IF s.calls[c].meta
  THEN LET t == Finally([s EXCEPT !.page.list = upsertAssistantMessage(@,
                           assistantMessage(s.calls[c].answer, "error")),
                                  !.calls[c] = Over])
       IN IF s.calls[c].replace = None THEN t ELSE invalidateSession(t)
  ELSE IF s.calls[c].msg = None THEN Finally([s EXCEPT !.calls[c] = Over])
  ELSE Fail(Finally(s), c, failedBubble(s, c))

\* One frame: the cursor is stored behind it, and cleared at the end.
consumeEvent(s, c, e) ==
  LET n == s.calls[c].pos + 1
      id == Backend(s.calls[c].turn)
      t == [publishTurn(s, c) EXCEPT !.calls[c].pos = n,
                                     !.cursor = IF e.type = "done" THEN 0 ELSE n]
  IN CASE e.type = "meta" ->
            [t EXCEPT !.calls[c] = [@ EXCEPT !.meta = TRUE, !.user = id, !.answer = id],
                      !.page.list = IF s.calls[c].msg = None THEN @
                                    ELSE reconcileMetaIds(@, s.calls[c].user, id)]
       [] e.type = "user_message" ->
            [t EXCEPT !.calls[c].segs = mergeUserSegment(@, e.msg, e.injected)]
       [] e.type = "done" -> [t EXCEPT !.calls[c].st = e.msg]
-----------------------------------------------------------------------------
Fresh == [list |-> <<>>, live |-> None, queue |-> <<>>, seen |-> {},
          pending |-> None, composer |-> None, last |-> None, read |-> [st |-> "sent", log |-> <<>>],
          data |-> <<>>, hydrated |-> FALSE, cancelInFlight |-> FALSE, cancelCommitted |-> FALSE]

Init ==
  /\ log = <<>> /\ turns = <<>> /\ faults = 0 /\ cursor = 0
  /\ page = Fresh
  /\ calls = [c \in Callers |-> Idle]
  /\ asked = [m \in Msgs |-> 0] /\ heard = [m \in Msgs |-> 0]

\* The student presses Enter, on a new text or on one that has come back.
Submit(m) ==
  /\ page.hydrated /\ Free(Now) # {}
  /\ IF page.composer = None THEN asked[m] = 0 ELSE page.composer = m
  /\ page.live # None => "steer" \in Ops
  /\ Set(submitMessage([Now EXCEPT !.page.composer = None], m, None, TRUE))
  /\ asked' = [asked EXCEPT ![m] = @ + 1]
  /\ UNCHANGED <<log, turns, faults, heard>>

isSubmitting == page.live # None /\ calls[page.live].st = "streaming"

\* The student wants another answer to the last question that has one.
handleRegenerate ==
  /\ "regenerate" \in Ops /\ page.hydrated /\ Free(Now) # {} /\ ~isSubmitting
  /\ \E i, j \in DOMAIN page.list :
       /\ page.list[i].kind = "assistant" /\ ~page.list[i].id.temp
       /\ \A k \in DOMAIN page.list : page.list[k].kind = "assistant" => k <= i
       /\ page.list[j] = userMessage(page.list[i].id, page.list[j].msg)
       /\ page.list[j].msg # None /\ asked[page.list[j].msg] < MaxAsks
       /\ Set(submitMessage(Now, page.list[j].msg, page.list[j].id, FALSE))
       /\ asked' = [asked EXCEPT ![page.list[j].msg] = @ + 1]
  /\ UNCHANGED <<log, turns, faults, heard>>

\* The effect that sends what an answer did not take in.
AutoForward ==
  /\ page.live = None /\ page.queue # <<>> /\ Free(Now) # {}
  /\ Set(submitMessage([Now EXCEPT !.page.queue = Tail(@)], Head(page.queue), None, FALSE))
  /\ UNCHANGED <<log, turns, faults, asked, heard>>

retryLastSend ==
  /\ "retry" \in Ops /\ page.pending # None /\ page.live = None /\ Free(Now) # {}
  /\ LET p == page.pending
         s == [Now EXCEPT !.page.list = Only(@, {b \in Range(@) : b.id # p.bubble})]
     IN Set(submitMessage(s, p.msg, p.replace, FALSE))
  /\ UNCHANGED <<log, turns, faults, asked, heard>>

SteerReturns(c) ==
  /\ calls[c].pc = "steer"
  /\ \/ calls[c].net = "queued" /\ Set([Now EXCEPT !.calls[c] = Over])
     \/ calls[c].net = "idle" /\ Set([Now EXCEPT !.calls[c].pc = "clear"])
     \/ calls[c].net = "lost" /\ Set(Fail(Now, c, None))
  /\ UNCHANGED <<log, turns, faults, asked, heard>>

\* The wait for the answer on the screen to end, or to take too long.
awaitLiveClear(c) ==
  /\ calls[c].pc = "clear"
  /\ \/ page.live = None /\ Set(startSend(Now, c))
     \/ page.live # None /\ "timeout" \in Ops /\ Set(Fail(Now, c, None))
  /\ UNCHANGED <<log, turns, faults, asked, heard>>

\* The same after a stop, which aborts the read when it fails or takes too long.
cancelAndAwaitClear(c) ==
  /\ \/ /\ calls[c].pc = "cancel" /\ calls[c].net \in {"cancelled", "lost"}
        /\ LET s == [Now EXCEPT !.calls[c].pc = "stopped"]
           IN Set(IF calls[c].net = "lost" THEN abort(s, c) ELSE s)
     \/ calls[c].pc = "stopped" /\ page.live = None /\ Set(startSend(Now, c))
     \/ /\ calls[c].pc = "stopped" /\ page.live # None /\ "timeout" \in Ops
        /\ Set(Fail(abort(Now, c), c, None))
  /\ UNCHANGED <<log, turns, faults, asked, heard>>

PostReturns(c) ==
  /\ calls[c].pc = "post" /\ ~calls[c].aborted
  /\ \/ /\ calls[c].net = "open"
        /\ Set([Now EXCEPT !.calls[c].pc = "stream"])
     \/ /\ calls[c].net \in {"lost", "refused"}
             \/ (calls[c].net = "conflict" /\ calls[c].again)
        /\ Set(Broken(Now, c))
     \/ /\ calls[c].net = "conflict" /\ ~calls[c].again
        /\ Set([setPendingSend(Finally(Now), c, None) EXCEPT
                  !.calls[c] = [@ EXCEPT !.pc = "recancel", !.net = "sent"]])
  /\ UNCHANGED <<log, turns, faults, asked, heard>>

\* The turn in the way has been told to stop: the same message goes out again,
\* without a second bubble.
ConflictRetry(c) ==
  /\ calls[c].pc = "recancel"
  /\ \/ /\ calls[c].net = "cancelled"
        /\ Set(runTurn([Now EXCEPT !.page.pending = None], c,
                       IF calls[c].replace = None THEN page.last ELSE calls[c].replace, TRUE))
     \/ /\ calls[c].net = "lost"
        /\ Set(Fail(Now, c, failedBubble(Now, c)))
  /\ UNCHANGED <<log, turns, faults, asked, heard>>

\* The loop over the frames, and what follows it when the server closes the
\* stream, which it does only when the turn has let go of the chat.
consumeStream(c) ==
  /\ calls[c].pc = "stream" /\ ~calls[c].aborted
  /\ LET t == turns[calls[c].turn] IN
     \/ /\ calls[c].pos < Len(t.events)
        /\ Set(consumeEvent(Now, c, t.events[calls[c].pos + 1]))
     \/ /\ calls[c].pos = Len(t.events) /\ ~t.claimed
        /\ Set(IF calls[c].st = "streaming" THEN Broken([Now EXCEPT !.cursor = 0], c)
               ELSE Terminal(Now, c))
  /\ UNCHANGED <<log, turns, faults, asked, heard>>

\* An aborted fetch throws in whoever awaits it.
Aborted(c) ==
  /\ calls[c].aborted /\ calls[c].pc \in {"post", "stream", "open"}
  /\ Set(IF calls[c].pc = "open" THEN [Now EXCEPT !.calls[c] = Over]
         ELSE Broken(Now, c))
  /\ UNCHANGED <<log, turns, faults, asked, heard>>

\* The student presses Stop; one request for an answer is enough.
stopGenerating ==
  /\ "stop" \in Ops /\ Free(Now) # {}
  /\ ~page.cancelInFlight /\ ~page.cancelCommitted
  /\ isSubmitting
  /\ Set([Now EXCEPT !.page.cancelInFlight = TRUE,
                     !.calls[Slot(Now)] = [Idle EXCEPT !.pc = "stop", !.net = "sent"]])
  /\ UNCHANGED <<log, turns, faults, asked, heard>>

\* A stop that fails aborts the read.
StopReturns(c) ==
  /\ calls[c].pc = "stop" /\ calls[c].net \in {"cancelled", "lost"}
  /\ LET s == [Now EXCEPT !.page.cancelInFlight = FALSE, !.calls[c] = Over]
     IN Set(IF calls[c].net = "lost" THEN abort(s, c)
            ELSE [s EXCEPT !.page.cancelCommitted = TRUE])
  /\ UNCHANGED <<log, turns, faults, asked, heard>>

\* The transcript comes in, and replaces the list when it is not the one that
\* was read before (an equal answer keeps its identity in the query cache, and
\* the effect does not run); the first one makes the page ready, which then
\* asks for the stream of a turn under way.
Hydrate ==
  /\ page.read # None /\ page.read.st = "answered"
  /\ LET s == [Now EXCEPT !.page.read = None, !.page.hydrated = TRUE,
                          !.page.data = page.read.log,
                          !.page.list = IF page.hydrated /\ page.read.log = page.data THEN page.list
                                        ELSE messagesFromTranscript(page.read.log)]
     IN /\ page.hydrated \/ Free(Now) # {}
        /\ Set(IF page.hydrated THEN s
               ELSE [s EXCEPT !.calls[Slot(Now)] = [Idle EXCEPT !.pc = "open", !.net = "sent"]])
  /\ UNCHANGED <<log, turns, faults, asked, heard>>

attachActiveTurn(c) ==
  LET tail == IF page.list = <<>> THEN None ELSE Last(page.list)
      seed == IF tail # None /\ tail.kind = "assistant" THEN tail.id ELSE Temp(c)
  IN /\ calls[c].pc = "open" /\ ~calls[c].aborted
     /\ \/ /\ calls[c].net = "inactive"
           /\ Set([Now EXCEPT !.calls[c] = Over, !.cursor = 0])
        \/ /\ calls[c].net = "open"
           /\ Set(publishTurn([Now EXCEPT
                    !.page.cancelInFlight = FALSE, !.page.cancelCommitted = FALSE,
                    !.calls[c] = [@ EXCEPT !.pc = "stream", !.answer = seed]], c))
     /\ UNCHANGED <<log, turns, faults, asked, heard>>

\* The page is loaded anew: what it kept in memory is gone, the cursor is not.
Reload ==
  /\ "reload" \in Ops /\ page.hydrated /\ Free(Now) # {}
  /\ page' = Fresh
  /\ calls' = [c \in Callers |-> IF calls[c].pc = "idle" THEN Idle ELSE Over]
  /\ UNCHANGED <<log, turns, cursor, faults, asked, heard>>
\* What the student sees: the list, without what a message that is being
\* replaced had led to, and the answer under way.
messages ==
  LET c == calls[page.live]
      at == {i \in DOMAIN page.list : page.list[i].id = c.replace}
      kept == IF at = {} THEN page.list
              ELSE SubSeq(page.list, 1, CHOOSE i \in at : \A j \in at : i <= j)
  IN IF page.live = None THEN page.list
     ELSE Append(SelectSeq(kept, LAMBDA b : b.kind = "assistant" => b.id # c.answer),
                 assistantMessage(c.answer, c.st))

-----------------------------------------------------------------------------
(* The server.                                                             *)

Claimed == turns # <<>> /\ Last(turns).claimed
Running == Claimed /\ ~Last(turns).ended

Event(t, m, injected) == [type |-> t, msg |-> m, injected |-> injected]

\* A turn, and the transcript it builds on: a replaced message and what
\* followed it are gone.
Begun(m, replace) ==
  LET from == {i \in DOMAIN log : replace = Backend(log[i].turn)}
      keep == IF from = {} THEN Len(log) ELSE (CHOOSE i \in from : TRUE) - 1
  IN /\ turns' = Append(turns, [msg |-> m,
                                events |-> <<Event("meta", m, FALSE)>>,
                                steers |-> <<>>, cancel |-> FALSE, ended |-> FALSE,
                                claimed |-> TRUE])
     /\ log' = SubSeq(log, 1, keep)

\* POST /messages: refused while a turn holds the chat, when the message to be
\* replaced is not there, and when the server runs too many turns.
ServePost(c) ==
  /\ calls[c].pc = "post" /\ calls[c].net = "sent"
  /\ LET known == calls[c].replace = None
                    \/ \E i \in DOMAIN log : calls[c].replace = Backend(log[i].turn)
         free == known /\ Len(turns) < MaxTurns
     IN \/ /\ Claimed \/ ~free
           /\ calls' = [calls EXCEPT ![c].net = IF Claimed THEN "conflict" ELSE "refused"]
           /\ UNCHANGED <<log, turns, heard>>
        \/ /\ ~Claimed /\ free
           /\ Begun(calls[c].msg, calls[c].replace)
           /\ calls' = [calls EXCEPT ![c].net = "open", ![c].turn = Len(turns) + 1]
           /\ heard' = [heard EXCEPT ![calls[c].msg] = @ + 1]
  /\ UNCHANGED <<page, cursor, faults, asked>>

\* POST /steer: the message is acknowledged in the stream at once.
ServeSteer(c) ==
  /\ calls[c].pc = "steer" /\ calls[c].net = "sent"
  /\ IF Running /\ ~Last(turns).cancel
     THEN /\ turns' = [turns EXCEPT
               ![Len(turns)].steers = Append(@, calls[c].msg),
               ![Len(turns)].events = Append(@, Event("user_message", calls[c].msg, FALSE))]
          /\ calls' = [calls EXCEPT ![c].net = "queued"]
     ELSE calls' = [calls EXCEPT ![c].net = "idle"] /\ turns' = turns
  /\ UNCHANGED <<log, page, cursor, faults, asked, heard>>

\* POST /cancel ends the running turn and answers after that; when somebody
\* else is at it already it answers at once.
ServeCancel(c) ==
  /\ calls[c].pc \in {"cancel", "recancel", "stop"}
  /\ \/ /\ calls[c].net = "sent" /\ Running /\ ~Last(turns).cancel
        /\ turns' = [turns EXCEPT ![Len(turns)].cancel = TRUE]
        /\ calls' = [calls EXCEPT ![c].net = "accepted", ![c].turn = Len(turns)]
     \/ /\ \/ calls[c].net = "sent" /\ (Running => Last(turns).cancel)
           \/ calls[c].net = "accepted" /\ ~turns[calls[c].turn].claimed
        /\ calls' = [calls EXCEPT ![c].net = "cancelled"]
        /\ turns' = turns
  /\ UNCHANGED <<log, page, cursor, faults, asked, heard>>

\* GET /stream resumes behind the cursor that the client sends, or from the
\* beginning when the cursor is of no use.
ServeAttach(c) ==
  /\ calls[c].pc = "open" /\ calls[c].net = "sent"
  /\ calls' = [calls EXCEPT ![c] =
       IF Claimed THEN [@ EXCEPT !.net = "open", !.turn = Len(turns),
                                 !.pos = IF cursor <= Len(Last(turns).events)
                                         THEN cursor ELSE 0]
       ELSE [@ EXCEPT !.net = "inactive"]]
  /\ UNCHANGED <<log, turns, page, cursor, faults, asked, heard>>

ServeRead ==
  /\ page.read # None /\ page.read.st = "sent"
  /\ page' = [page EXCEPT !.read = [st |-> "answered", log |-> log]]
  /\ UNCHANGED <<log, turns, cursor, calls, faults, asked, heard>>

\* The agent takes in what the student has steered with.
Inject ==
  /\ Running /\ ~Last(turns).cancel /\ Last(turns).steers # <<>>
  /\ LET got == Last(turns).steers IN
     /\ turns' = [turns EXCEPT
          ![Len(turns)].steers = <<>>,
          ![Len(turns)].events = @ \o [i \in DOMAIN got |-> Event("user_message", got[i], TRUE)]]
     /\ heard' = [m \in Msgs |-> heard[m] + Cardinality({i \in DOMAIN got : got[i] = m})]
  /\ UNCHANGED <<log, page, cursor, calls, faults, asked>>

Ends(st) ==
  /\ Running
  /\ turns' = [turns EXCEPT ![Len(turns)].ended = TRUE,
                             ![Len(turns)].events = Append(@, Event("done", st, FALSE))]
  /\ UNCHANGED <<page, cursor, calls, asked, heard>>

Recording(st) == log' = Append(log, [turn |-> Len(turns), msg |-> Last(turns).msg, st |-> st])

\* The answer ends as it has been told to, with its record, and after that the
\* turn lets go of the chat.
TurnEnds ==
  LET st == IF Last(turns).cancel THEN "cancelled" ELSE "complete"
  IN Ends(st) /\ Recording(st) /\ UNCHANGED faults

\* Or it ends in an error, or the record of its error or stop is missing: the
\* write has failed, or a resume could not begin.  An answer is never told
\* without its record.
TurnFails ==
  /\ Running /\ "error" \in Ops /\ faults < MaxFaults /\ faults' = faults + 1
  /\ \/ ~Last(turns).cancel /\ Ends("error") /\ Recording("error")
     \/ Ends(IF Last(turns).cancel THEN "cancelled" ELSE "error") /\ UNCHANGED log

TurnReleases ==
  /\ Claimed /\ Last(turns).ended
  /\ turns' = [turns EXCEPT ![Len(turns)].claimed = FALSE]
  /\ UNCHANGED <<log, page, cursor, calls, faults, asked, heard>>

\* Another tab starts a turn in this chat.
OtherTab ==
  /\ "other" \in Ops /\ ~Claimed /\ Len(turns) < MaxTurns
  /\ Begun(None, None)
  /\ UNCHANGED <<page, cursor, calls, faults, asked, heard>>

\* A request or its answer is lost, or a stream breaks off.
Lose(c) ==
  /\ faults < MaxFaults /\ faults' = faults + 1
  /\ \/ /\ "lose" \in Ops
        /\ calls[c].pc \in {"post", "steer", "cancel", "recancel", "stop"}
        /\ calls[c].net # "lost"
        /\ calls' = [calls EXCEPT ![c].net = "lost"]
        /\ UNCHANGED <<page, cursor>>
     \/ /\ "drop" \in Ops /\ calls[c].pc = "stream"
        /\ Set(Broken(Now, c))
  /\ UNCHANGED <<log, turns, asked, heard>>
-----------------------------------------------------------------------------
Client ==
  \/ \E c \in Callers : SteerReturns(c) \/ awaitLiveClear(c) \/ cancelAndAwaitClear(c)
       \/ PostReturns(c) \/ ConflictRetry(c) \/ consumeStream(c) \/ Aborted(c)
       \/ attachActiveTurn(c) \/ StopReturns(c)
  \/ AutoForward \/ Hydrate

Server ==
  \/ \E c \in Callers : ServePost(c) \/ ServeSteer(c) \/ ServeCancel(c) \/ ServeAttach(c)
  \/ ServeRead \/ Inject \/ TurnEnds \/ TurnFails \/ TurnReleases

Student ==
  \/ \E m \in Msgs : Submit(m)
  \/ handleRegenerate \/ retryLastSend \/ stopGenerating \/ Reload

Next == Student \/ Client \/ Server \/ OtherTab \/ \E c \in Callers : Lose(c)

Spec == Init /\ [][Next]_vars /\ WF_vars(Client) /\ WF_vars(Server)
-----------------------------------------------------------------------------
Ids == {Temp(c) : c \in Callers} \cup {Backend(k) : k \in 1..MaxTurns}
Bubbles == {userMessage(id, m) : id \in Ids, m \in Msgs \cup {None}}
             \cup {assistantMessage(id, st) : id \in Ids,
                      st \in {"streaming", "complete", "cancelled", "error"}}

\* The lack of something is not one.
ASSUME NoneAssumption == None \notin Callers /\ None \notin Msgs /\ None \notin Ids

\* The types, and what hangs together in them: who is live is a call that
\* consumes a stream or is about to, the stored cursor lies within its turn,
\* and what is forwarded has been seen.
TypeOK ==
  /\ Range(page.list) \subseteq Bubbles
  /\ page.live # None => page.live \in Callers /\ calls[page.live].pc \in {"post", "stream"}
  /\ Range(page.queue) \subseteq page.seen /\ page.seen \subseteq Msgs
  /\ page.composer \in Msgs \cup {None} /\ page.last \in Ids \cup {None}
  /\ \A c \in Callers :
       /\ calls[c].pc \in {"idle", "steer", "clear", "cancel", "stopped", "post", "stream",
                           "recancel", "stop", "open", "over"}
       /\ calls[c].turn \in 0..Len(turns)
       /\ calls[c].pc = "stream" => calls[c].pos <= Len(turns[calls[c].turn].events)
  /\ Len(turns) <= MaxTurns /\ Len(log) <= Len(turns)
  /\ cursor > 0 => turns # <<>>

\* Nothing is on its way any more.
Settled ==
  /\ \A c \in Callers : calls[c].pc \in {"idle", "over"}
  /\ page.queue = <<>> /\ page.read = None /\ ~Claimed

Waiting(m) == page.composer = m \/ (page.pending # None /\ page.pending.msg = m)

\* When all is quiet, whatever the student has sent has reached the agent (as a
\* message, taken in by an answer under way, or forwarded after it) or is
\* offered back: in the composer or behind Retry.  The steer that an answer did
\* not take in must survive Stop, and the window in which the turn has ended
\* but its stream is still open.
NothingForgotten ==
  Settled => \A m \in Msgs : asked[m] > 0 => heard[m] > 0 \/ Waiting(m)

\* The agent never gets a message more often than the student has asked for it:
\* a steer is not both taken in and forwarded, nor forwarded twice.
HeardOnce == \A m \in Msgs : heard[m] <= asked[m]

\* A bubble that has a server's id has the id of its own message: that id is
\* what a regenerate sends as the message to replace.
BubbleHasItsId ==
  \A i \in DOMAIN page.list :
    LET b == page.list[i] IN
    b.kind = "user" /\ ~b.id.temp => b.msg = turns[b.id.of].msg

Own(list) == SelectSeq(list, LAMBDA b : b.id.temp \/ turns[b.id.of].msg # None)

AtRest == Settled /\ page.pending = None /\ page.composer = None /\ page.hydrated

Recorded(k) == \E i \in DOMAIN log : log[i].turn = k

\* The last turn of this page has left its record.
LastRecorded ==
  \A k \in DOMAIN turns :
    turns[k].msg # None /\ (\A j \in DOMAIN turns : j > k => turns[j].msg = None) => Recorded(k)

\* When all is quiet, the page shows all that a reload would show of its own
\* turns, in that order, and when the last of them has left its record it shows
\* nothing else: no optimistic bubble, partial answer, replaced branch or
\* question of a failed turn is left, although reads, streams and sends have
\* overtaken each other.  What a last turn without a record has left on the
\* screen, a reload does not show.
ScreenMatches ==
  AtRest =>
    /\ Own(messagesFromTranscript(log)) =
         SelectSeq(Own(page.list), LAMBDA b : ~b.id.temp /\ Recorded(b.id.of))
    /\ LastRecorded => Own(page.list) = Own(messagesFromTranscript(log))

\* Whatever is lost, refused, aborted or reloaded, an answer does not stay
\* live for ever: the composer does not keep showing Stop for a turn that is over.
Unblocks == page.live # None ~> page.live = None

\* At most one consumer of a stream has not been aborted: two answers never
\* write the list at the same time.
OneConsumer ==
  \A c, d \in Callers :
    {calls[c].pc, calls[d].pc} \subseteq {"post", "stream"} /\ ~calls[c].aborted
      /\ ~calls[d].aborted => c = d

\* ADR 0028 on a steer that the answer did not take in: it is replayed "so the
\* client can send it as the next normal turn".  When all is quiet, what the
\* server has acknowledged has reached the agent.
AcknowledgedIsHeard ==
  Settled => \A k \in DOMAIN turns : \A i \in DOMAIN turns[k].events :
    LET e == turns[k].events[i] IN
    e.type = "user_message" => heard[e.msg] > 0 \/ Waiting(e.msg)

\* What the student sees is what he finds after a reload.
ScreenIsTranscript == AtRest => Own(page.list) = Own(messagesFromTranscript(log))

\* While a message is being replaced, what it had led to is hidden: the comment
\* on `messages' says so ("hide the stale branch that came after the edited
\* message while the replacement streams in").
StaleBranchHidden ==
  page.live # None /\ calls[page.live].replace # None =>
    \A i \in DOMAIN messages :
       messages[i].kind = "assistant" => messages[i].id # calls[page.live].replace

\* The plan for conflicts: "existing optimistic user message; no duplicate
\* bubble".  A message that the student sent once has one bubble.
OneBubble ==
  \A i, j \in DOMAIN page.list :
    /\ page.list[i].kind = "user" /\ page.list[j].kind = "user"
    /\ page.list[i].msg = page.list[j].msg
    /\ page.list[i].msg # None /\ asked[page.list[i].msg] = 1
    => i = j

\* When Stop is spent, the answer on the screen has been told to stop.
StopIsMeant ==
  page.live # None /\ page.cancelCommitted /\ calls[page.live].pc = "stream" =>
    turns[calls[page.live].turn].cancel
=============================================================================
