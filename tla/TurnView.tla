------------------------------ MODULE TurnView ------------------------------
(* What the student sees of one turn while it runs, and what he sees of it    *)
(* after a reload.  The agent node writes chunks, which it records as it      *)
(* writes them; run_turn takes them from the graph's stream; the registry     *)
(* observes what it puts into the buffer, where a steering message appears    *)
(* without having passed through the node; the page reduces the events to     *)
(* beats (frontend turn-reducer.ts).  The record kept of the turn is built    *)
(* from one of these three feeds, depending on how the turn ends, and a       *)
(* reload reduces that record again.                                          *)
(*                                                                            *)
(* A text is the sequence of the numbers of the chunks it consists of; of a   *)
(* visualisation only its signature counts; sources, usage and times, which   *)
(* are replaced as a whole, are left out, as are records without segments,    *)
(* which earlier releases wrote.                                              *)
EXTENDS Naturals, Sequences

LOCAL INSTANCE SequencesExt

CONSTANTS Steps,      \* the ids of tool calls
          Vizzes,     \* the signatures of visualisations
          Steers,     \* the ids of steering messages
          MaxBeats    \* bound: chunks the node writes

VARIABLES node,       \* the node's emissions
          pipe,       \* chunks written and not yet taken by run_turn
          queue,      \* the run handle's steering_queue
          observed,   \* the registry's turn.emissions
          live,       \* the page's TurnState
          turn,       \* where the turn stands
          record      \* the stored segments, and the status of the record

view == <<node, pipe, queue, observed, live, turn, record>>

-----------------------------------------------------------------------------
(* The reducer.  A protocol event and the emission it becomes are the same    *)
(* record here, and its `type' names both.                                    *)

initialTurnState ==
  [segments |-> <<>>, vizSignatures |-> {}, status |-> "idle",
   lastEventType |-> "none"]

Front1(s) == SubSeq(s, 1, Len(s) - 1)
EndsWith(s, t) == s # <<>> /\ s[Len(s)].type = t
IndexOf(s, Same(_)) ==
  LET at == {i \in DOMAIN s : Same(s[i])}
  IN  IF at = {} THEN 0 ELSE CHOOSE i \in at : \A j \in at : i <= j

\* The text of a beat goes on, or a new beat begins.
Extended(segments, type, text, merge) ==
  IF merge /\ EndsWith(segments, type)
  THEN Append(Front1(segments),
              [type |-> type, text |-> segments[Len(segments)].text \o text])
  ELSE Append(segments, [type |-> type, text |-> text])

appendAnswerText(segments, text) == Extended(segments, "answer", text, TRUE)

appendThinkingSegment(segments, text, shouldCoalesce) ==
  Extended(segments, "thinking", text, shouldCoalesce)

appendViz(state, sig) ==
  IF sig \in state.vizSignatures THEN state
  ELSE [state EXCEPT !.segments = Append(@, [type |-> "viz", sig |-> sig]),
                     !.vizSignatures = @ \cup {sig}]

\* Fault: the end of a step moves it to the end.
mergeToolSegmentAtEnd(segments, step) ==
  Append(SelectSeq(segments, LAMBDA x : x.type # "tool" \/ x.id # step.id),
         [type |-> "tool", id |-> step.id, status |-> step.status])

mergeToolSegment(segments, step) ==
  LET i == IndexOf(segments, LAMBDA x : x.type = "tool" /\ x.id = step.id)
      new == [type |-> "tool", id |-> step.id, status |-> step.status]
  IN  IF i = 0 THEN Append(segments, new) ELSE [segments EXCEPT ![i] = new]

mergeUserSegment(segments, user) ==
  LET i == IndexOf(segments, LAMBDA x : x.type = "user" /\ x.id = user.id)
      new == [type |-> "user", id |-> user.id, injected |-> user.injected]
  IN  IF i = 0 THEN Append(segments, new)
      ELSE [segments EXCEPT ![i].injected = @ \/ user.injected]

reduceSegments(state, e) ==
  LET segments == state.segments IN
  CASE e.type = "delta" -> appendAnswerText(segments, e.text)
    [] e.type = "step" -> mergeToolSegment(segments, e)
    [] e.type = "narration" ->
         Append(segments, [type |-> "narration", text |-> e.text])
    [] e.type = "thinking" ->
         appendThinkingSegment(segments, e.text,
                               state.lastEventType = "thinking")
    [] e.type = "user" -> mergeUserSegment(segments, e)
    [] e.type = "clarify" -> Append(segments, [type |-> "clarify"])
    [] OTHER -> segments

reduceTurn(state, e) ==
  LET next == IF e.type = "viz" THEN appendViz(state, e.sig)
              ELSE [state EXCEPT !.segments = reduceSegments(state, e)]
      status == CASE e.type = "meta" -> "streaming"
                  [] e.type \in {"delta", "user"} /\ state.status = "idle" ->
                       "streaming"
                  [] e.type \in {"done", "error"} -> e.status
                  [] OTHER -> state.status
  IN  [next EXCEPT !.status = status, !.lastEventType = e.type]

Ending(status) ==
  [type |-> IF status = "error" THEN "error" ELSE "done", status |-> status]

withoutPendingUserSegments(segments) ==
  SelectSeq(segments, LAMBDA x : x.type # "user" \/ x.injected)

-----------------------------------------------------------------------------
(* The record: build_segments, and its replay.                                *)

\* build_segments' loop: deltas are held back until something else comes.
FlushDelta(b) ==
  IF b.delta = <<>> THEN b
  ELSE [b EXCEPT !.segments = Append(@, [type |-> "delta", text |-> b.delta]),
                 !.delta = <<>>]

\* A step or a user message is replaced where it stands, anything else follows.
Placed(segments, e) ==
  LET i == IF e.type \in {"step", "user"}
           THEN IndexOf(segments, LAMBDA x : x.type = e.type /\ x.id = e.id)
           ELSE 0
  IN  IF i = 0 THEN Append(segments, e) ELSE [segments EXCEPT ![i] = e]

Built(b, e) ==
  CASE e.type = "delta" -> [b EXCEPT !.delta = @ \o e.text]
    [] e.type = "viz" /\ e.sig \in b.seen -> b
    [] OTHER ->
         LET f == FlushDelta(b)
         IN  [f EXCEPT !.segments = Placed(@, e),
                       !.seen = IF e.type = "viz" THEN @ \cup {e.sig} ELSE @]

build_segments(emissions) ==
  LET b == FoldLeft(Built, [segments |-> <<>>, delta |-> <<>>, seen |-> {}],
                    emissions)
  IN  withoutPendingUserSegments(FlushDelta(b).segments)

Recorded(emissions, status) ==
  [segments |-> build_segments(emissions), status |-> status]

\* transcriptSegmentsToEvents keeps the segments as they are.
reduceTranscriptEntry(entry) ==
  FoldLeft(reduceTurn, initialTurnState,
           Append(entry.segments, Ending(entry.status)))

-----------------------------------------------------------------------------
NoRecord == [segments |-> <<>>, status |-> "none"]

\* The page has received the meta event.
ViewInit ==
  /\ node = <<>> /\ pipe = <<>> /\ queue = <<>> /\ observed = <<>>
  /\ live = reduceTurn(initialTurnState, [type |-> "meta"])
  /\ turn = "running"
  /\ record = NoRecord

Written == Len(SelectSeq(node, LAMBDA e : e.type # "user"))
Statuses(id) == {node[i].status : i \in {j \in DOMAIN node :
                   node[j].type = "step" /\ node[j].id = id}}

\* What the node may write next: a step ends once, and some are reported only
\* when they are over.
Chunks ==
  {[type |-> t, text |-> <<Written + 1>>] : t \in {"delta", "narration", "thinking"}}
  \cup {[type |-> "viz", sig |-> v] : v \in Vizzes}
  \cup {[type |-> "step", id |-> s, status |-> "start"] :
          s \in {x \in Steps : Statuses(x) = {}}}
  \cup {[type |-> "step", id |-> s, status |-> "end"] :
          s \in {x \in Steps : "end" \notin Statuses(x)}}

\* _make_recording_writer: a chunk is recorded and passed on.
recording(chunks) ==
  /\ node' = node \o chunks
  /\ pipe' = pipe \o chunks

Write ==
  /\ turn = "running" /\ Written < MaxBeats
  /\ \E chunk \in Chunks : recording(<<chunk>>)
  /\ UNCHANGED <<queue, observed, live, turn, record>>

\* _observe, and the page that reads the buffer: a repeated visualisation is
\* dropped, by run_turn already.
Observe(e) ==
  IF e.type = "viz" /\ \E i \in DOMAIN observed : observed[i] = e
  THEN UNCHANGED <<observed, live>>
  ELSE /\ observed' = Append(observed, e)
       /\ live' = reduceTurn(live, e)

\* run_turn yields the next chunk of the graph's stream.
Yield ==
  /\ turn \in {"running", "committed"} /\ pipe # <<>>
  /\ pipe' = Tail(pipe)
  /\ Observe(pipe[1])
  /\ UNCHANGED <<node, queue, turn, record>>

\* TurnRegistry.steer: queued, and broadcast at once as not yet injected.
steer(m) ==
  /\ turn \in {"running", "committed"}
  /\ \A i \in DOMAIN observed : observed[i].type = "user" => observed[i].id # m
  /\ queue' = Append(queue, m)
  /\ Observe([type |-> "user", id |-> m, injected |-> FALSE])
  /\ UNCHANGED <<node, pipe, turn, record>>

Users(ids, injected) ==
  [i \in DOMAIN ids |-> [type |-> "user", id |-> ids[i], injected |-> injected]]

\* _emit_injected_steers: before and after every request to the model.
emit_injected_steers ==
  /\ turn = "running" /\ queue # <<>>
  /\ recording(Users(queue, TRUE))
  /\ queue' = <<>>
  /\ UNCHANGED <<observed, live, turn, record>>

\* The node returns, with an answer or a question, and its record is committed.
Commit ==
  /\ turn = "running"
  /\ \E asks \in BOOLEAN :
       LET left == node \o Users(queue, FALSE)
       IN  record' = IF asks
                     THEN Recorded(Append(left, [type |-> "clarify"]), "awaiting_input")
                     ELSE Recorded(left, "complete")
  /\ queue' = <<>>
  /\ turn' = "committed"
  /\ UNCHANGED <<node, pipe, observed, live>>

\* run_turn's end, when the stream is exhausted: the question, then done.
Done ==
  /\ turn = "committed" /\ pipe = <<>>
  /\ LET asked == IF record.status = "awaiting_input"
                  THEN reduceTurn(live, [type |-> "clarify"]) ELSE live
     IN  live' = reduceTurn(asked, Ending(record.status))
  /\ turn' = "ended"
  /\ UNCHANGED <<node, pipe, queue, observed, record>>

\* The feed of run_turn, which the broadcasts of steer do not pass.
RunnerEmissions ==
  SelectSeq(observed, LAMBDA e : e.type = "user" => e.injected)

\* The node raises: _finish_failed_turn records what run_turn has yielded.
Fail ==
  /\ turn = "running"
  /\ record' = Recorded(RunnerEmissions \o Users(queue, FALSE), "error")
  /\ queue' = <<>>
  /\ live' = reduceTurn(live, Ending("error"))
  /\ turn' = "ended" /\ pipe' = <<>>
  /\ UNCHANGED <<node, observed>>

\* The student stops the turn, or the watchdog does: the registry records what
\* it observed, unless the node has committed its own record.
Stop ==
  /\ turn \in {"running", "committed"}
  /\ \E status \in {"cancelled", "error"} :
       /\ record' = IF turn = "committed" THEN record
                    ELSE Recorded(observed, status)
       /\ live' = reduceTurn(live, Ending(status))
  /\ turn' = "ended" /\ pipe' = <<>>
  /\ UNCHANGED <<node, queue, observed>>

ViewNext ==
  \/ Write \/ Yield \/ emit_injected_steers \/ Commit \/ Done \/ Fail \/ Stop
  \/ \E m \in Steers : steer(m)
-----------------------------------------------------------------------------
\* Beats with the steering messages taken out: an answer, or a thought, that
\* one of them or the end of a step had split is one beat again.
Joined(segments, x) ==
  IF x.type \in {"answer", "thinking"}
  THEN Extended(segments, x.type, x.text, TRUE)
  ELSE Append(segments, x)
Beats(segments) ==
  FoldLeft(Joined, <<>>, SelectSeq(segments, LAMBDA x : x.type # "user"))
Heard(segments) == SelectSeq(segments, LAMBDA x : x.type = "user")

\* Once a turn is over, a reload shows what the student saw: the same beats in
\* the same order, each text complete and each step in its last state, and the
\* same steering messages, whichever of the three feeds the record was built
\* from.  Where the messages stand among the beats, and where one of them
\* splits a text, may differ.  A stop that comes after the commit leaves the
\* record complete, and is not compared.
ReloadAgrees ==
  (turn = "ended" /\ live.status = record.status) =>
    LET seen == withoutPendingUserSegments(live.segments)
        reloaded == reduceTranscriptEntry(record)
    IN  /\ Beats(seen) = Beats(reloaded.segments)
        /\ Heard(seen) = Heard(reloaded.segments)
        /\ reloaded.status = live.status

\* agent_node.py: "the record can never drift from what the student saw".  It
\* does: a message stands where it was accepted while the turn runs, and where
\* it was injected after a reload, and it splits an answer only while it runs.
RecordNeverDrifts ==
  (turn = "ended" /\ live.status = record.status) =>
    withoutPendingUserSegments(live.segments)
      = reduceTranscriptEntry(record).segments
=============================================================================
