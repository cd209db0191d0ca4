---------------------------- MODULE TurnRegistry ----------------------------
(***************************************************************************)
(* The lifecycle of a counselor turn: class TurnRegistry of app/turns.py,  *)
(* with the detached task it drives (run_turn and run_continuation_turn of *)
(* app/run_turn.py), the durable checkpoint both write (turn_records and   *)
(* continuation_intent of app/state.py, through app/turn_persistence.py    *)
(* and app/records.py), the acceptance of a clarification                  *)
(* (app/clarify_lifecycle.py) and the deletion of a chat                   *)
(* (app/chat_deletion.py).                                                 *)
(*                                                                         *)
(* Everything runs on one asyncio loop, so what stands between two awaits  *)
(* is one action and every await on the checkpointer or on a task is a     *)
(* point at which any other coroutine may run.  A checkpoint read and the  *)
(* write that follows it are two actions, with the snapshot kept between   *)
(* them.  A checkpoint write may land or fail; a write that is cut off by  *)
(* its timeout may have landed as well.                                    *)
(*                                                                         *)
(* A turn's stream is reduced to its terminal events, the rest of it being *)
(* StreamBuffer's subject; a record is reduced to its identity, its status *)
(* and the facts the lifecycle reads from it.                              *)
(***************************************************************************)
EXTENDS Integers, Sequences, FiniteSets

CONSTANTS
  Sessions,     \* the chats
  Turns,        \* the _Turn objects that may be created
  SessionOf,    \* the chat each of them is created for
  Callers,      \* request handlers (and the lifespan's shutdown)
  Ops,          \* what happens besides plain messages: see OpNames
  InitRecords,  \* the transcripts a chat may have when the process starts
  MaxTurns,     \* settings.max_concurrent_turns
  MaxGoalTurns, \* settings.goal_max_concurrent_turns
  NoTurn,
  NoCaller,
  NoSession,
  OldIds        \* the message_ids of turns of earlier processes

OpNames == {"cancel", "delete", "accept", "edit", "goal", "drain",
            "stale",   \* a text answer the route took for a plain message
            "late"}    \* a run may raise after its node has committed

Statuses == {"complete", "awaiting_input", "cancelled", "error"}

MessageIds == Turns \cup OldIds

Records == [mid : MessageIds, status : Statuses, v2 : BOOLEAN,
            goal : BOOLEAN, editable : BOOLEAN]

ASSUME RegistryAssumption ==
  /\ NoTurn \notin MessageIds
  /\ OldIds \cap Turns = {}
  /\ NoCaller \notin Callers
  /\ Turns \cap Callers = {}
  /\ NoSession \notin Sessions
  /\ IsFiniteSet(Sessions)
  /\ SessionOf \in [Turns -> Sessions]
  /\ Ops \subseteq OpNames
  /\ InitRecords \subseteq Seq(Records)
  /\ MaxTurns \in Nat
  /\ MaxGoalTurns \in Nat

VARIABLES
  (* the registry *)
  turns,      \* _turns: the turn that holds each chat's claim
  handles,    \* RunHandleStore: the turn whose handle is registered
  claim,      \* ClarifyClaimRegistry: the caller accepting an answer
  stopping,   \* "no", "drain" (aclose is running) or "closed" (pools closed)
  drainQueue, \* aclose: the chats still to be terminated
  hooks,      \* turns whose on_turn_complete task is still running
  (* one turn *)
  phase,      \* where its start call, its task or its canceller stands
  isCont,     \* _Turn.is_continuation
  isGoal,     \* _Turn.goal_mode
  why,        \* cancel_requested, and by whom
  mid,        \* _Turn.ids: the message_id once meta was observed
  tsnap,      \* the records its coroutine last read
  stream,     \* the terminal events appended to its buffer
  (* _persist_partial_guarded, run by the turn's watchdog or by a canceller *)
  persist,    \* where it stands, and the attempt
  psnap,      \* the records it read
  (* the checkpoint and the session row *)
  records,    \* turn_records
  intent,     \* continuation_intent's phase
  exists,     \* the thread has checkpoints
  row,        \* the session row: "owned", "gone", or "orphan" (re-inserted)
  (* one request handler *)
  cpc,        \* where it stands
  ckind,      \* what it was called for
  csess,      \* the chat it is about
  ctgt,       \* the turn it waits for
  csnap       \* the records it read

regVars    == <<turns, handles, hooks>>
turnVars   == <<phase, isCont, isGoal, why, mid, tsnap, persist, psnap, stream>>
ckptVars   == <<records, intent, exists, row>>
callerVars == <<cpc, ckind, csess, ctgt, csnap>>
drainVars  == <<stopping, drainQueue>>
vars       == <<regVars, claim, drainVars, turnVars, ckptVars, callerVars>>

Phases == {"new",
           "prep",       \* claimed; start's reads are pending, no task yet
           "rewrite",    \* start is about to write the truncated history
           "rejected",   \* start failed and released the claim
           "spawned",    \* the task exists and has not run its first step
           "prefetch",   \* run_turn's first read
           "meta",       \* identity announced; the session row is ensured
           "input",      \* the graph input is prepared and checkpointed
           "graph",      \* the agent node runs
           "committed",  \* the node's record is durable
           "cleared",    \* a continuation has tried to clear the intent
           "failing",    \* run_turn caught an exception
           "failwrite",  \* it is about to write the error record
           "failed",     \* the error record was written, or could not be
           "expired",    \* the watchdog fired; _handle_timeout persists
           "ended",      \* the task was cancelled and has stopped
           "final"}      \* _finalize ran

\* turn.task is not None and not turn.task.done().
TaskLive == {"spawned", "prefetch", "meta", "input", "graph", "committed",
             "cleared", "failing", "failwrite", "failed", "expired"}

\* Who may be running _persist_partial_guarded.
Persisters == Turns \cup Callers

PersistStates == {"idle", "read", "write", "retryRead", "retryWrite", "done"}

CallerStates == {"idle", "join", "persist", "unparkRead", "unparkWrite",
                 "drop", "dropRow", "acceptRead", "acceptWrite",
                 "acceptResume", "drain"}

(***************************************************************************)
(* app/turn_persistence.py and app/records.py.                             *)
(***************************************************************************)
Latest(recs) == recs[Len(recs)]

IsParked(recs) == recs # <<>> /\ Latest(recs).status = "awaiting_input"

\* records[:-1] + [record]
ReplaceLatest(recs, rec) == [recs EXCEPT ![Len(recs)] = rec]

\* Fault: the status of the question is not looked at.
PendingV2Answered(recs) == recs # <<>> /\ Latest(recs).v2

\* latest_awaiting_v2_clarify_spec, and accept_clarification's tests.
PendingV2(recs) == IsParked(recs) /\ Latest(recs).v2

\* Fault: a resumed turn is appended next to the record it was parked under.
AlwaysAppend(recs, rec) == Append(recs, rec)

\* append_or_replace: only a legacy parked tail with the same id is replaced.
AppendOrReplace(recs, rec) ==
  IF IsParked(recs) /\ Latest(recs).mid = rec.mid /\ ~Latest(recs).v2
  THEN ReplaceLatest(recs, rec)
  ELSE Append(recs, rec)

Committed(recs, m) == \E i \in 1 .. Len(recs) : recs[i].mid = m

\* The record a turn writes.  A resumed turn carries the parked message_id and
\* renders a synthesized answer; neither it nor a continuation can be edited.
RecordOf(t, status) ==
  [mid      |-> mid[t],
   status   |-> status,
   v2       |-> status = "awaiting_input",
   goal     |-> isGoal[t] /\ status = "awaiting_input",
   editable |-> ~isCont[t] /\ mid[t] = t]

(***************************************************************************)
(* Initial state: any transcript an earlier process left behind.           *)
(***************************************************************************)
Init ==
  /\ turns = [s \in Sessions |-> NoTurn]
  /\ handles = [s \in Sessions |-> NoTurn]
  /\ claim = [s \in Sessions |-> NoCaller]
  /\ stopping = "no"
  /\ drainQueue = {}
  /\ hooks = {}
  /\ phase = [t \in Turns |-> "new"]
  /\ isCont = [t \in Turns |-> FALSE]
  /\ isGoal = [t \in Turns |-> FALSE]
  /\ why = [t \in Turns |-> "none"]
  /\ mid = [t \in Turns |-> NoTurn]
  /\ tsnap = [t \in Turns |-> <<>>]
  /\ persist = [p \in Persisters |-> "idle"]
  /\ psnap = [p \in Persisters |-> <<>>]
  /\ stream = [t \in Turns |-> <<>>]
  /\ records \in [Sessions -> InitRecords]
  /\ intent = [s \in Sessions |-> "none"]
  /\ exists = [s \in Sessions |-> records[s] # <<>>]
  /\ row = [s \in Sessions |-> "owned"]
  /\ cpc = [c \in Callers |-> "idle"]
  /\ ckind = [c \in Callers |-> "none"]
  /\ csess = [c \in Callers |-> NoSession]
  /\ ctgt = [c \in Callers |-> NoTurn]
  /\ csnap = [c \in Callers |-> <<>>]

(***************************************************************************)
(* start: claim, read, optionally rewrite, spawn.                          *)
(***************************************************************************)
ActiveTurns == {s \in Sessions : turns[s] # NoTurn}

\* The synchronous checks of start and start_continuation.
SlotFree(s, goal) ==
  /\ turns[s] = NoTurn
  /\ Cardinality(ActiveTurns) < MaxTurns
  /\ goal => Cardinality({x \in ActiveTurns : isGoal[turns[x]]}) < MaxGoalTurns

\* The check-and-claim window: no await, so it is one step.
Claim(t, goal) ==
  LET s == SessionOf[t]
  IN  /\ stopping = "no"
      /\ row[s] = "owned"
      /\ phase[t] = "new"
      /\ goal => "goal" \in Ops
      /\ PendingV2(records[s]) => "stale" \in Ops
      /\ SlotFree(s, goal)
      /\ turns' = [turns EXCEPT ![s] = t]
      /\ handles' = [handles EXCEPT ![s] = t]
      /\ phase' = [phase EXCEPT ![t] = "prep"]
      /\ isGoal' = [isGoal EXCEPT ![t] = goal]
      /\ UNCHANGED <<hooks, claim, drainVars, isCont, why, mid, tsnap, persist,
                     psnap, stream, ckptVars, callerVars>>

\* start's except BaseException: the claim is popped by its key.
ReleaseClaim(t) ==
  /\ phase' = [phase EXCEPT ![t] = "rejected"]
  /\ turns' = [turns EXCEPT ![SessionOf[t]] = NoTurn]
  /\ handles' = [handles EXCEPT ![SessionOf[t]] =
                   IF @ = t THEN NoTurn ELSE @]
  /\ tsnap' = [tsnap EXCEPT ![t] = <<>>]
  /\ UNCHANGED <<hooks, claim, drainVars, isCont, isGoal, why, mid, persist,
                 psnap, stream, ckptVars, callerVars>>

\* A conflicting selection, a disabled mode, a failed read or write.
Reject(t) == phase[t] \in {"prep", "rewrite"} /\ ReleaseClaim(t)

\* The reads and the mode write succeeded: the task is created.
Spawn(t) ==
  /\ phase[t] = "prep"
  /\ phase' = [phase EXCEPT ![t] = "spawned"]
  /\ UNCHANGED <<regVars, claim, drainVars, isCont, isGoal, why, mid, tsnap,
                 persist, psnap, stream, ckptVars, callerVars>>

\* _rewrite_history reads the thread and resolves the edited message.
RewriteRead(t) ==
  LET recs == records[SessionOf[t]]
  IN  /\ phase[t] = "prep"
      /\ "edit" \in Ops
      /\ \E i \in 1 .. Len(recs) :
           /\ recs[i].editable
           /\ tsnap' = [tsnap EXCEPT ![t] = SubSeq(recs, 1, i - 1)]
      /\ phase' = [phase EXCEPT ![t] = "rewrite"]
      /\ UNCHANGED <<regVars, claim, drainVars, isCont, isGoal, why, mid,
                     persist, psnap, stream, ckptVars, callerVars>>

\* The truncated history is written; the turn is spawned under the claim.
RewriteWrite(t) ==
  LET s == SessionOf[t]
  IN  /\ phase[t] = "rewrite"
      /\ records' = [records EXCEPT ![s] = tsnap[t]]
      /\ exists' = [exists EXCEPT ![s] = TRUE]
      /\ phase' = [phase EXCEPT ![t] = "spawned"]
      /\ tsnap' = [tsnap EXCEPT ![t] = <<>>]
      /\ UNCHANGED <<regVars, claim, drainVars, isCont, isGoal, why, mid, persist,
                     psnap, stream, intent, row, callerVars>>

(***************************************************************************)
(* The end of a turn: one terminal event, then _finalize, with no await    *)
(* between them.                                                           *)
(***************************************************************************)
Unregister(t) ==
  handles' = [handles EXCEPT ![SessionOf[t]] = IF @ = t THEN NoTurn ELSE @]

\* The buffer takes nothing once it is closed, and finalizing twice does
\* nothing.
Finalize(t, terminal) ==
  LET first == phase[t] # "final"
  IN  /\ stream' = [stream EXCEPT ![t] = IF first THEN Append(@, terminal) ELSE @]
      /\ phase' = [phase EXCEPT ![t] = "final"]
      /\ turns' = [turns EXCEPT ![SessionOf[t]] =
                     IF first /\ @ = t THEN NoTurn ELSE @]
      /\ hooks' = IF first THEN hooks \cup {t} ELSE hooks

\* What the coroutine held in its locals is gone with it.
DropLocals(t) ==
  /\ tsnap' = [tsnap EXCEPT ![t] = <<>>]
  /\ psnap' = [psnap EXCEPT ![t] = <<>>]
  /\ persist' = [persist EXCEPT ![t] = "idle"]

\* _drive's finally, when nobody asked for the task to be cancelled.
DriveEnds(t, terminal) ==
  /\ why[t] = "none"
  /\ Finalize(t, terminal)
  /\ Unregister(t)
  /\ DropLocals(t)
  /\ UNCHANGED <<claim, drainVars, isCont, isGoal, why, mid, ckptVars,
                 callerVars>>

HookDone(t) ==
  /\ t \in hooks
  /\ hooks' = hooks \ {t}
  /\ UNCHANGED <<turns, handles, claim, drainVars, turnVars, ckptVars,
                 callerVars>>

(***************************************************************************)
(* The detached task: run_turn and run_continuation_turn under _drive.     *)
(* A step that continues after an await needs why[t] = "none": once the    *)
(* task is cancelled, its await raises instead of returning.  A write that *)
(* is under way may still land.                                            *)
(***************************************************************************)
Goto(t, from, to) ==
  /\ phase[t] = from
  /\ phase' = [phase EXCEPT ![t] = to]

\* A continuation announces its identity at once; an ordinary turn reads the
\* thread first.
FirstStep(t) ==
  /\ why[t] = "none"
  /\ Goto(t, "spawned", IF isCont[t] THEN "meta" ELSE "prefetch")
  /\ mid' = [mid EXCEPT ![t] = IF isCont[t] THEN t ELSE @]
  /\ UNCHANGED <<regVars, claim, drainVars, isCont, isGoal, why, tsnap, persist,
                 psnap, stream, ckptVars, callerVars>>

\* Parked detection: a resume reuses the parked record's message_id.
Prefetch(t) ==
  LET recs == records[SessionOf[t]]
  IN  /\ why[t] = "none"
      /\ Goto(t, "prefetch", "meta")
      /\ mid' = [mid EXCEPT ![t] = IF IsParked(recs) THEN Latest(recs).mid ELSE t]
      /\ UNCHANGED <<regVars, claim, drainVars, isCont, isGoal, why, tsnap,
                     persist, psnap, stream, ckptVars, callerVars>>

\* The read failed: meta goes out under a fresh id, then the error path.
PrefetchFails(t) ==
  /\ why[t] = "none"
  /\ Goto(t, "prefetch", "failing")
  /\ mid' = [mid EXCEPT ![t] = t]
  /\ UNCHANGED <<regVars, claim, drainVars, isCont, isGoal, why, tsnap, persist,
                 psnap, stream, ckptVars, callerVars>>

\* An error before meta (a stored selection that is no longer valid, an
\* exception run_turn does not catch) and the failed pre-write of a resume end
\* the stream with an error and leave the transcript alone.
ErrorWithoutRecord(t) ==
  /\ \/ phase[t] = "prefetch"
     \/ phase[t] = "input" /\ ~isCont[t] /\ mid[t] # t
  /\ DriveEnds(t, "error")

\* _ensure_session: the session row is inserted if it is missing, without an
\* owner.
EnsureSession(t) ==
  LET s == SessionOf[t]
  IN  /\ why[t] = "none"
      /\ Goto(t, "meta", "input")
      /\ row' = [row EXCEPT ![s] = IF @ = "gone" THEN "orphan" ELSE @]
      /\ UNCHANGED <<regVars, claim, drainVars, isCont, isGoal, why, mid, tsnap,
                     persist, psnap, stream, records, intent, exists, callerVars>>

\* The input checkpoint is written and the node starts from the thread's
\* records.  A continuation first marks the intent as running, if it can.
EnterGraph(t) ==
  LET s == SessionOf[t]
  IN  /\ why[t] = "none"
      /\ Goto(t, "input", "graph")
      /\ tsnap' = [tsnap EXCEPT ![t] = records[s]]
      /\ exists' = [exists EXCEPT ![s] = TRUE]
      /\ \/ UNCHANGED intent
         \/ /\ isCont[t] /\ intent[s] # "none"
            /\ intent' = [intent EXCEPT ![s] = "running"]
      /\ UNCHANGED <<regVars, claim, drainVars, isCont, isGoal, why, mid, persist,
                     psnap, stream, records, row, callerVars>>

\* Preparing the input, or the run itself, raises: astream also after the node's
\* checkpoint, and so do the closing events, whose usage is validated.
RunFails(t) ==
  /\ why[t] = "none"
  /\ Goto(t, phase[t], "failing")
  /\ \/ phase[t] \in {"meta", "input", "graph"}
     \/ phase[t] \in {"committed", "cleared"} /\ "late" \in Ops
  /\ UNCHANGED <<regVars, claim, drainVars, isCont, isGoal, why, mid, tsnap,
                 persist, psnap, stream, ckptVars, callerVars>>

\* The node's state delta: an answer, or a question to the student, which only
\* a continuation that is not a goal run cannot ask.  The update also reaches
\* the coroutine, in the stream.
NodeCommits(t, status) ==
  LET s    == SessionOf[t]
      recs == AppendOrReplace(tsnap[t], RecordOf(t, status))
  IN  /\ Goto(t, "graph", "committed")
      /\ status = "awaiting_input" => ~isCont[t] \/ isGoal[t]
      /\ records' = [records EXCEPT ![s] = recs]
      /\ tsnap' = [tsnap EXCEPT ![t] = recs]
      /\ exists' = [exists EXCEPT ![s] = TRUE]
      /\ UNCHANGED <<regVars, claim, drainVars, isCont, isGoal, why, mid, persist,
                     psnap, stream, intent, row, callerVars>>

\* A continuation clears the intent after the commit, if it can.
ClearIntent(t) ==
  LET s == SessionOf[t]
  IN  /\ isCont[t]
      /\ Goto(t, "committed", "cleared")
      /\ \/ UNCHANGED <<intent, exists>>
         \/ /\ intent' = [intent EXCEPT ![s] = "none"]
            /\ exists' = [exists EXCEPT ![s] = TRUE]
      /\ UNCHANGED <<regVars, claim, drainVars, isCont, isGoal, why, mid, tsnap,
                     persist, psnap, stream, records, row, callerVars>>

\* Fault: the closing events do not wait for the node's commit.
RunDoneEarly(t) ==
  phase[t] \in {"graph", "committed", "cleared"} /\ DriveEnds(t, "done_complete")

\* The closing events.  An ordinary turn reads the thread to see whether a
\* question is pending and, when that fails, looks at the update it saw in the
\* stream; a continuation does not look.
RunDone(t) ==
  \/ /\ ~isCont[t] /\ phase[t] = "committed"
     /\ \E recs \in {records[SessionOf[t]], tsnap[t]} :
          DriveEnds(t, IF PendingV2(recs) THEN "done_awaiting" ELSE "done_complete")
  \/ /\ isCont[t] /\ phase[t] = "cleared"
     /\ DriveEnds(t, "done_complete")

\* _write_failure_record reads the thread, then writes the error record and, for
\* a continuation, clears the intent in the same update.
FailureRead(t) ==
  /\ why[t] = "none"
  /\ Goto(t, "failing", "failwrite")
  /\ tsnap' = [tsnap EXCEPT ![t] = records[SessionOf[t]]]
  /\ UNCHANGED <<regVars, claim, drainVars, isCont, isGoal, why, mid, persist,
                 psnap, stream, ckptVars, callerVars>>

FailureWrite(t) ==
  LET s == SessionOf[t]
  IN  /\ Goto(t, "failwrite", "failed")
      /\ records' = [records EXCEPT ![s] =
                       AppendOrReplace(tsnap[t], RecordOf(t, "error"))]
      /\ intent' = [intent EXCEPT ![s] = IF isCont[t] THEN "none" ELSE @]
      /\ exists' = [exists EXCEPT ![s] = TRUE]
      /\ UNCHANGED <<regVars, claim, drainVars, isCont, isGoal, why, mid, tsnap,
                     persist, psnap, stream, row, callerVars>>

\* Reading or writing the error record fails: ignored.
FailureUnrecorded(t) ==
  /\ why[t] = "none"
  /\ Goto(t, phase[t], "failed")
  /\ phase[t] \in {"failing", "failwrite"}
  /\ UNCHANGED <<regVars, claim, drainVars, isCont, isGoal, why, mid, tsnap,
                 persist, psnap, stream, ckptVars, callerVars>>

RunError(t) == phase[t] = "failed" /\ DriveEnds(t, "error")

(***************************************************************************)
(* Watchdog, cancellation and the partial record they leave.               *)
(***************************************************************************)

\* asyncio.timeout around the run; a cancellation that is already under way
\* wins over it.
Expire(t) ==
  /\ why[t] = "none"
  /\ phase[t] \in TaskLive \ {"spawned", "expired"}
  /\ phase' = [phase EXCEPT ![t] = "expired"]
  /\ persist' = [persist EXCEPT ![t] = "read"]
  /\ UNCHANGED <<regVars, claim, drainVars, isCont, isGoal, why, mid, tsnap,
                 psnap, stream, ckptVars, callerVars>>

\* Fault: the task's finally gives the claim back although the canceller has
\* not persisted yet.
TaskCancelledFrees(t) ==
  /\ why[t] # "none"
  /\ phase[t] \in TaskLive
  /\ phase' = [phase EXCEPT ![t] = "ended"]
  /\ turns' = [turns EXCEPT ![SessionOf[t]] = NoTurn]
  /\ Unregister(t)
  /\ DropLocals(t)
  /\ UNCHANGED <<hooks, claim, drainVars, isCont, isGoal, why, mid, stream,
                 ckptVars, callerVars>>

\* Fault: the finally does not look at cancel_requested.
TaskCancelledAppends(t) ==
  /\ why[t] # "none"
  /\ phase[t] \in TaskLive
  /\ Finalize(t, "error")
  /\ Unregister(t)
  /\ DropLocals(t)
  /\ UNCHANGED <<claim, drainVars, isCont, isGoal, why, mid, ckptVars, callerVars>>

\* Fault: the watchdog's handler swallows the cancellation.
TaskCancelledNotExpired(t) ==
  /\ why[t] # "none"
  /\ phase[t] \in TaskLive \ {"expired"}
  /\ phase' = [phase EXCEPT ![t] = "ended"]
  /\ Unregister(t)
  /\ DropLocals(t)
  /\ UNCHANGED <<turns, hooks, claim, drainVars, isCont, isGoal, why, mid, stream,
                 ckptVars, callerVars>>

\* The task has stopped.  Its finally ran unless it never took a step, and
\* left the terminal event and the finalization to the canceller.
TaskCancelled(t) ==
  /\ why[t] # "none"
  /\ phase[t] \in TaskLive
  /\ phase' = [phase EXCEPT ![t] = "ended"]
  /\ IF phase[t] = "spawned" THEN UNCHANGED handles ELSE Unregister(t)
  /\ DropLocals(t)
  /\ UNCHANGED <<turns, hooks, claim, drainVars, isCont, isGoal, why, mid, stream,
                 ckptVars, callerVars>>

\* p is inside _persist_partial_guarded on behalf of t: t's own watchdog, or
\* the canceller that has joined t's task.
Persists(p, t) ==
  \/ p = t /\ phase[t] = "expired"
  \/ p \in Callers /\ cpc[p] = "persist" /\ ctgt[p] = t

\* A cancelled watchdog goes no further.
Resumable(p, t) == p = t => why[t] = "none"

\* Before meta there is no identity and nothing is written.
PersistRead(p, t) ==
  /\ Persists(p, t)
  /\ Resumable(p, t)
  /\ persist[p] \in {"read", "retryRead"}
  /\ persist' = [persist EXCEPT ![p] =
                   IF mid[t] = NoTurn THEN "done"
                   ELSE IF @ = "read" THEN "write" ELSE "retryWrite"]
  /\ psnap' = [psnap EXCEPT ![p] = records[SessionOf[t]]]
  /\ UNCHANGED <<regVars, claim, drainVars, phase, isCont, isGoal, why, mid,
                 tsnap, stream, ckptVars, callerVars>>

\* Fault: the write is retried until it succeeds.
PersistFailsForever(p, t) ==
  /\ Persists(p, t)
  /\ Resumable(p, t)
  /\ mid[t] # NoTurn
  /\ persist[p] \in PersistStates \ {"idle", "done"}
  /\ persist' = [persist EXCEPT ![p] = "retryRead"]
  /\ UNCHANGED <<regVars, claim, drainVars, phase, isCont, isGoal, why, mid,
                 tsnap, psnap, stream, ckptVars, callerVars>>

\* A read or a write fails or is cut off by persist_partial_timeout_s: one
\* retry, then the turn goes on without its record.
PersistFails(p, t) ==
  /\ Persists(p, t)
  /\ Resumable(p, t)
  /\ mid[t] # NoTurn
  /\ persist[p] \in PersistStates \ {"idle", "done"}
  /\ persist' = [persist EXCEPT ![p] =
                   IF @ \in {"read", "write"} THEN "retryRead" ELSE "done"]
  /\ UNCHANGED <<regVars, claim, drainVars, phase, isCont, isGoal, why, mid,
                 tsnap, psnap, stream, ckptVars, callerVars>>

\* Fault: every partial record is marked as cancelled.
PartialAlwaysCancelled(p) == "cancelled"

\* Only cancel and delete record "cancelled"; the watchdog and the shutdown
\* drain record an error.
PartialStatus(p) ==
  IF p \in Callers /\ ckind[p] # "drain" THEN "cancelled" ELSE "error"

ReplacesParked(recs, m) ==
  IsParked(recs) /\ Latest(recs).mid = m /\ ~Latest(recs).v2

\* _persist_partial's write: skipped when the turn's own record is already
\* there, unless that record is the legacy parked one it resumes.  The write
\* may be cut off although it landed, and is then retried.
PersistWrite(p, t) ==
  LET s    == SessionOf[t]
      skip == Committed(psnap[p], mid[t]) /\ ~ReplacesParked(psnap[p], mid[t])
  IN  /\ Persists(p, t)
      /\ persist[p] \in {"write", "retryWrite"}
      /\ \/ persist' = [persist EXCEPT ![p] = "done"]
         \/ persist' = [persist EXCEPT ![p] =
                          IF @ = "write" THEN "retryRead" ELSE "done"]
      /\ records' = [records EXCEPT ![s] =
                       IF skip THEN @
                       ELSE AppendOrReplace(psnap[p], RecordOf(t, PartialStatus(p)))]
      /\ intent' = [intent EXCEPT ![s] = IF isCont[t] THEN "none" ELSE @]
      /\ exists' = [exists EXCEPT ![s] = @ \/ ~skip \/ isCont[t]]
      /\ UNCHANGED <<regVars, claim, drainVars, phase, isCont, isGoal, why, mid,
                     tsnap, psnap, stream, row, callerVars>>

PersistStep(p, t) ==
  PersistRead(p, t) \/ PersistFails(p, t) \/ PersistWrite(p, t)

\* _handle_timeout's terminal event, then _drive's finally.
ExpireDone(t) ==
  /\ phase[t] = "expired"
  /\ persist[t] = "done"
  /\ DriveEnds(t, "error")

StartStep(t) == Reject(t) \/ Spawn(t) \/ RewriteRead(t) \/ RewriteWrite(t)

RunStep(t) ==
  \/ FirstStep(t) \/ Prefetch(t) \/ PrefetchFails(t) \/ ErrorWithoutRecord(t)
  \/ EnsureSession(t) \/ EnterGraph(t) \/ RunFails(t)
  \/ \E st \in {"complete", "awaiting_input"} : NodeCommits(t, st)
  \/ ClearIntent(t) \/ RunDone(t)
  \/ FailureRead(t) \/ FailureWrite(t) \/ FailureUnrecorded(t) \/ RunError(t)

StopStep(t) ==
  Expire(t) \/ TaskCancelled(t) \/ PersistStep(t, t) \/ ExpireDone(t)

TurnStep(t) == StartStep(t) \/ RunStep(t) \/ StopStep(t) \/ HookDone(t)

(***************************************************************************)
(* cancel, and the deletion of a chat, which cancels first.                *)
(***************************************************************************)

\* cancel's guard.
Active(s) ==
  /\ turns[s] # NoTurn
  /\ phase[turns[s]] \in TaskLive
  /\ why[turns[s]] = "none"

\* The common start of cancel and of _terminate_for_shutdown: claim the active
\* turn's cancellation in the same step as the test and wait for it, or look
\* for a parked question.
CancelOrUnpark(c, s, cause) ==
  /\ csess' = [csess EXCEPT ![c] = s]
  /\ \/ /\ Active(s)
        /\ why' = [why EXCEPT ![turns[s]] = cause]
        /\ ctgt' = [ctgt EXCEPT ![c] = turns[s]]
        /\ cpc' = [cpc EXCEPT ![c] = "join"]
     \/ /\ ~Active(s)
        /\ cpc' = [cpc EXCEPT ![c] = "unparkRead"]
        /\ UNCHANGED <<why, ctgt>>
  /\ UNCHANGED <<regVars, claim, phase, isCont, isGoal, mid, tsnap, persist,
                 psnap, stream, ckptVars, csnap>>

\* POST /cancel and DELETE /sessions/{id}, for a chat whose row is there.
CancelCall(c, s, kind) ==
  /\ kind \in {"cancel", "delete"} \cap Ops
  /\ stopping = "no"
  /\ row[s] = "owned"
  /\ cpc[c] = "idle"
  /\ ckind' = [ckind EXCEPT ![c] = kind]
  /\ CancelOrUnpark(c, s, "user")
  /\ UNCHANGED drainVars

\* Where a caller goes on when its cancel has returned.
Returned(c) ==
  LET to == IF ckind[c] = "delete" THEN "drop"
            ELSE IF ckind[c] = "drain" THEN "drain" ELSE "idle"
  IN  /\ cpc' = [cpc EXCEPT ![c] = to]
      /\ ckind' = [ckind EXCEPT ![c] = IF to = "idle" THEN "none" ELSE @]
      /\ csess' = [csess EXCEPT ![c] = IF to = "drop" THEN @ ELSE NoSession]
      /\ ctgt' = [ctgt EXCEPT ![c] = NoTurn]
      /\ csnap' = [csnap EXCEPT ![c] = <<>>]

\* _cancel_active and _drain_active_with_error: await the task ...
Joined(c) ==
  /\ cpc[c] = "join"
  /\ phase[ctgt[c]] = "ended"
  /\ cpc' = [cpc EXCEPT ![c] = "persist"]
  /\ persist' = [persist EXCEPT ![c] = "read"]
  /\ UNCHANGED <<regVars, claim, drainVars, phase, isCont, isGoal, why, mid,
                 tsnap, psnap, stream, ckptVars, ckind, csess, ctgt, csnap>>

\* Fault: the shutdown drain ends a turn the way cancel does.
CancelDoneAlike(c) ==
  /\ cpc[c] = "persist"
  /\ persist[c] = "done"
  /\ Finalize(ctgt[c], "done_cancelled")
  /\ persist' = [persist EXCEPT ![c] = "idle"]
  /\ psnap' = [psnap EXCEPT ![c] = <<>>]
  /\ Returned(c)
  /\ UNCHANGED <<handles, claim, drainVars, isCont, isGoal, why, mid, tsnap,
                 ckptVars>>

\* ... persist the partial record, then append the single-shot terminal and
\* finalize, and return.
CancelDone(c) ==
  /\ cpc[c] = "persist"
  /\ persist[c] = "done"
  /\ Finalize(ctgt[c], IF ckind[c] = "drain" THEN "error" ELSE "done_cancelled")
  /\ persist' = [persist EXCEPT ![c] = "idle"]
  /\ psnap' = [psnap EXCEPT ![c] = <<>>]
  /\ Returned(c)
  /\ UNCHANGED <<handles, claim, drainVars, isCont, isGoal, why, mid, tsnap,
                 ckptVars>>

\* _unpark_if_parked reads the thread ...
UnparkRead(c) ==
  LET recs == records[csess[c]]
  IN  /\ cpc[c] = "unparkRead"
      /\ IsParked(recs)
      /\ csnap' = [csnap EXCEPT ![c] = recs]
      /\ cpc' = [cpc EXCEPT ![c] = "unparkWrite"]
      /\ UNCHANGED <<regVars, claim, drainVars, turnVars, ckptVars, ckind, csess,
                     ctgt>>

\* ... and writes the parked record back as cancelled.
UnparkWrite(c) ==
  LET s      == csess[c]
      parked == Latest(csnap[c])
  IN  /\ cpc[c] = "unparkWrite"
      /\ records' = [records EXCEPT ![s] =
           ReplaceLatest(csnap[c], [parked EXCEPT !.status = "cancelled"])]
      /\ exists' = [exists EXCEPT ![s] = TRUE]
      /\ Returned(c)
      /\ UNCHANGED <<regVars, claim, drainVars, turnVars, intent, row>>

\* Nothing is parked, or the read or the write failed.
UnparkIdle(c) ==
  /\ cpc[c] \in {"unparkRead", "unparkWrite"}
  /\ Returned(c)
  /\ UNCHANGED <<regVars, claim, drainVars, turnVars, ckptVars>>

\* adelete_thread.
DropThread(c) ==
  LET s == csess[c]
  IN  /\ cpc[c] = "drop"
      /\ records' = [records EXCEPT ![s] = <<>>]
      /\ intent' = [intent EXCEPT ![s] = "none"]
      /\ exists' = [exists EXCEPT ![s] = FALSE]
      /\ cpc' = [cpc EXCEPT ![c] = "dropRow"]
      /\ UNCHANGED <<regVars, claim, drainVars, turnVars, row, ckind, csess, ctgt,
                     csnap>>

\* The request is over.
Idle(c) ==
  /\ cpc' = [cpc EXCEPT ![c] = "idle"]
  /\ ckind' = [ckind EXCEPT ![c] = "none"]
  /\ csess' = [csess EXCEPT ![c] = NoSession]
  /\ ctgt' = [ctgt EXCEPT ![c] = NoTurn]
  /\ csnap' = [csnap EXCEPT ![c] = <<>>]

\* It failed: the row stays and the delete can be repeated.
DropFails(c) ==
  /\ cpc[c] = "drop"
  /\ Idle(c)
  /\ UNCHANGED <<regVars, claim, drainVars, turnVars, ckptVars>>

DropRow(c) ==
  /\ cpc[c] = "dropRow"
  /\ row' = [row EXCEPT ![csess[c]] = "gone"]
  /\ Idle(c)
  /\ UNCHANGED <<regVars, claim, drainVars, turnVars, records, intent, exists>>

(***************************************************************************)
(* The answer to a clarification: accept_clarification, which makes the    *)
(* answer durable under the clarify claim, then start_continuation.        *)
(***************************************************************************)
\* Fault: the clarify claim is not tested.
AcceptCallUnclaimed(c, s) ==
  /\ "accept" \in Ops
  /\ stopping = "no"
  /\ row[s] = "owned"
  /\ cpc[c] = "idle"
  /\ turns[s] = NoTurn
  /\ claim' = [claim EXCEPT ![s] = c]
  /\ cpc' = [cpc EXCEPT ![c] = "acceptRead"]
  /\ ckind' = [ckind EXCEPT ![c] = "accept"]
  /\ csess' = [csess EXCEPT ![c] = s]
  /\ UNCHANGED <<regVars, drainVars, turnVars, ckptVars, ctgt, csnap>>

\* accept_clarification's synchronous part: no turn, and the clarify claim.
AcceptCall(c, s) ==
  /\ "accept" \in Ops
  /\ stopping = "no"
  /\ row[s] = "owned"
  /\ cpc[c] = "idle"
  /\ turns[s] = NoTurn
  /\ claim[s] = NoCaller
  /\ claim' = [claim EXCEPT ![s] = c]
  /\ cpc' = [cpc EXCEPT ![c] = "acceptRead"]
  /\ ckind' = [ckind EXCEPT ![c] = "accept"]
  /\ csess' = [csess EXCEPT ![c] = s]
  /\ UNCHANGED <<regVars, drainVars, turnVars, ckptVars, ctgt, csnap>>

AcceptRead(c) ==
  LET recs == records[csess[c]]
  IN  /\ cpc[c] = "acceptRead"
      /\ PendingV2(recs)
      /\ csnap' = [csnap EXCEPT ![c] = recs]
      /\ cpc' = [cpc EXCEPT ![c] = "acceptWrite"]
      /\ UNCHANGED <<regVars, claim, drainVars, turnVars, ckptVars, ckind, csess,
                     ctgt>>

\* The answered question and the intent, in one update.
AcceptWrite(c) ==
  LET s == csess[c]
  IN  /\ cpc[c] = "acceptWrite"
      /\ records' = [records EXCEPT ![s] =
           ReplaceLatest(csnap[c], [Latest(csnap[c]) EXCEPT !.status = "complete"])]
      /\ intent' = [intent EXCEPT ![s] = "accepted"]
      /\ exists' = [exists EXCEPT ![s] = TRUE]
      /\ cpc' = [cpc EXCEPT ![c] = "acceptResume"]
      /\ UNCHANGED <<regVars, claim, drainVars, turnVars, row, ckind, csess, ctgt,
                     csnap>>

\* accept_clarification's finally, the caller's request being over.
ReleaseAccept(c) ==
  /\ claim' = [claim EXCEPT ![csess[c]] = NoCaller]
  /\ Idle(c)

\* A stale, mismatched or invalid answer, or a failed read or write.
AcceptFails(c) ==
  /\ cpc[c] \in {"acceptRead", "acceptWrite"}
  /\ ReleaseAccept(c)
  /\ UNCHANGED <<regVars, drainVars, turnVars, ckptVars>>

\* start_continuation takes the session and spawns the second half.
Continue(c, t) ==
  LET s == csess[c]
  IN  /\ cpc[c] = "acceptResume"
      /\ phase[t] = "new"
      /\ SessionOf[t] = s
      /\ SlotFree(s, Latest(csnap[c]).goal)
      /\ turns' = [turns EXCEPT ![s] = t]
      /\ handles' = [handles EXCEPT ![s] = t]
      /\ phase' = [phase EXCEPT ![t] = "spawned"]
      /\ isCont' = [isCont EXCEPT ![t] = TRUE]
      /\ isGoal' = [isGoal EXCEPT ![t] = Latest(csnap[c]).goal]
      /\ ReleaseAccept(c)
      /\ UNCHANGED <<hooks, drainVars, why, mid, tsnap, persist, psnap, stream,
                     ckptVars>>

\* It raises: the session is taken, the process is at capacity, or the mode
\* the question was asked in is switched off.
ContinueFails(c) ==
  /\ cpc[c] = "acceptResume"
  /\ ReleaseAccept(c)
  /\ UNCHANGED <<regVars, drainVars, turnVars, ckptVars>>

(***************************************************************************)
(* aclose.  The server has stopped taking requests and finished the ones   *)
(* it had; only detached turns are left.                                   *)
(***************************************************************************)
DrainBegin(c) ==
  /\ "drain" \in Ops
  /\ stopping = "no"
  /\ \A d \in Callers : cpc[d] = "idle"
  /\ \A t \in Turns : phase[t] \notin {"prep", "rewrite"}
  /\ stopping' = "drain"
  /\ drainQueue' = ActiveTurns
  /\ cpc' = [cpc EXCEPT ![c] = "drain"]
  /\ ckind' = [ckind EXCEPT ![c] = "drain"]
  /\ UNCHANGED <<regVars, claim, turnVars, ckptVars, csess, ctgt, csnap>>

DrainNext(c, s) ==
  /\ cpc[c] = "drain"
  /\ s \in drainQueue
  /\ drainQueue' = drainQueue \ {s}
  /\ CancelOrUnpark(c, s, "shutdown")
  /\ UNCHANGED <<stopping, ckind>>

\* Fault: the hook tasks are not awaited.
DrainDoneEarly(c) ==
  /\ cpc[c] = "drain"
  /\ drainQueue = {}
  /\ stopping' = "closed"
  /\ Idle(c)
  /\ UNCHANGED <<regVars, claim, drainQueue, turnVars, ckptVars>>

\* The hook tasks are gathered, then the caller closes the pools.
DrainDone(c) ==
  /\ cpc[c] = "drain"
  /\ drainQueue = {}
  /\ hooks = {}
  /\ stopping' = "closed"
  /\ Idle(c)
  /\ UNCHANGED <<regVars, claim, drainQueue, turnVars, ckptVars>>

CallerStep(c) ==
  \/ Joined(c) \/ CancelDone(c)
  \/ \E t \in Turns : PersistStep(c, t)
  \/ UnparkRead(c) \/ UnparkWrite(c) \/ UnparkIdle(c)
  \/ DropThread(c) \/ DropFails(c) \/ DropRow(c)
  \/ AcceptRead(c) \/ AcceptWrite(c) \/ AcceptFails(c)
  \/ \E t \in Turns : Continue(c, t)
  \/ ContinueFails(c)
  \/ \E s \in Sessions : DrainNext(c, s)
  \/ DrainDone(c)

Request ==
  \/ \E t \in Turns, goal \in BOOLEAN : Claim(t, goal)
  \/ \E c \in Callers, s \in Sessions :
       AcceptCall(c, s) \/ \E kind \in {"cancel", "delete"} : CancelCall(c, s, kind)
  \/ \E c \in Callers : DrainBegin(c)

Next ==
  \/ Request
  \/ \E t \in Turns : TurnStep(t)
  \/ \E c \in Callers : CallerStep(c)

\* The watchdog ends every run, asyncio.timeout every attempt to persist, and
\* the pools' command timeouts every other read and write, so a coroutine that
\* waits is resumed.  Nobody has to send a request.
Fairness ==
  /\ \A t \in Turns : WF_vars(TurnStep(t))
  /\ \A c \in Callers : WF_vars(CallerStep(c))

Spec == Init /\ [][Next]_vars

FairSpec == Spec /\ Fairness

(***************************************************************************)
(* Correctness.                                                            *)
(***************************************************************************)
Terminals == {"done_complete", "done_awaiting", "done_cancelled", "error"}

\* Every variable holds a value of its kind.
TypeOK ==
  /\ turns \in [Sessions -> Turns \cup {NoTurn}]
  /\ handles \in [Sessions -> Turns \cup {NoTurn}]
  /\ claim \in [Sessions -> Callers \cup {NoCaller}]
  /\ stopping \in {"no", "drain", "closed"}
  /\ drainQueue \in SUBSET Sessions
  /\ hooks \in SUBSET Turns
  /\ phase \in [Turns -> Phases]
  /\ isCont \in [Turns -> BOOLEAN]
  /\ isGoal \in [Turns -> BOOLEAN]
  /\ why \in [Turns -> {"none", "user", "shutdown"}]
  /\ mid \in [Turns -> MessageIds \cup {NoTurn}]
  /\ tsnap \in [Turns -> Seq(Records)]
  /\ persist \in [Persisters -> PersistStates]
  /\ psnap \in [Persisters -> Seq(Records)]
  /\ stream \in [Turns -> Seq(Terminals)]
  /\ records \in [Sessions -> Seq(Records)]
  /\ intent \in [Sessions -> {"none", "accepted", "running"}]
  /\ exists \in [Sessions -> BOOLEAN]
  /\ row \in [Sessions -> {"owned", "gone", "orphan"}]
  /\ cpc \in [Callers -> CallerStates]
  /\ ckind \in [Callers -> {"none", "cancel", "delete", "accept", "drain"}]
  /\ csess \in [Callers -> Sessions \cup {NoSession}]
  /\ ctgt \in [Callers -> Turns \cup {NoTurn}]
  /\ csnap \in [Callers -> Seq(Records)]

\* A start call, a task or a canceller is at work on t's behalf: it has read or
\* may read t's thread, and may write it.
AtWork(t) ==
  \/ phase[t] \in {"prep", "rewrite", "ended"} \cup TaskLive
  \/ \E c \in Callers : cpc[c] \in {"join", "persist"} /\ ctgt[c] = t

\* The single-flight claim covers a turn from the check in start to the very
\* last write of whoever ends it: the task, the watchdog or a canceller in
\* another request.  So at most one turn of a chat can ever write its thread
\* (start, _finalize, _cancel_active, _drain_active_with_error).
ClaimCoversWork == \A t \in Turns : AtWork(t) => turns[SessionOf[t]] = t

\* Only done_complete, done_awaiting and error come from the turn's own task;
\* done_cancelled tells that the student stopped the turn, and a student who
\* did stop it is told nothing else.  A shutdown or a watchdog that races the
\* stop, or the end of the run, never blurs this (_drive's finally,
\* _cancel_active, _drain_active_with_error, _handle_timeout).
TerminalTellsCause ==
  \A t \in Turns : phase[t] = "final" =>
    /\ Len(stream[t]) = 1
    /\ (why[t] = "user") <=> (stream[t][1] = "done_cancelled")
    /\ why[t] = "shutdown" => stream[t][1] = "error"

\* The registry as its callers see it: owner is _turns, a turn runs from its
\* claim to its end, and the terminal events are those in its buffer.
Promised == INSTANCE SingleFlight WITH
  owner   <- turns,
  asked   <- why,
  outcome <- stream,
  state   <- [t \in Turns |->
                IF phase[t] = "new" THEN "new"
                ELSE IF phase[t] \in {"rejected", "final"} THEN "over"
                ELSE "running"]

\* The registry, with all that runs between its awaits, does what SingleFlight
\* promises: one owner, one terminal event that tells the cause, and the chat
\* free in the same step (start, cancel, aclose, _drive, _finalize).
KeepsPromise == Promised!Spec

\* And every turn that holds a chat does end.
KeepsPromiseLive == Promised!FairSpec

\* A record reads "cancelled" only if the student stopped the turn, or let go
\* of the question it had asked (_persist_partial, _unpark_if_parked).  A question
\* of this release is left out: the shutdown, too, puts it away as cancelled when
\* the turn that it was about to drain has just asked and ended.
CancelledByStudent ==
  \A s \in Sessions : \A i \in 1 .. Len(records[s]) :
    LET r == records[s][i]
    IN  r.status = "cancelled" /\ r.mid \in Turns => r.v2 \/ why[r.mid] = "user"

\* One assistant message, one record: whatever raced (the node's commit, the
\* error record, a canceller's or the watchdog's partial record and its retry
\* after a write that landed), no message_id is in the transcript twice
\* (append_or_replace, _persist_partial's already_committed).
OneRecordPerMessage ==
  \A s \in Sessions : \A i, j \in 1 .. Len(records[s]) :
    records[s][i].mid = records[s][j].mid => i = j

\* The transcript is honest: it has one record per message, and says the student
\* stopped a turn only when he did (_persist_partial, whoever calls it).
RecordsHonest == OneRecordPerMessage /\ CancelledByStudent

\* Who may take a settled record away: an edit, which truncates the history,
\* and the deletion of the thread.
Truncates(s) ==
  \/ \E t \in Turns : SessionOf[t] = s /\ RewriteWrite(t)
  \/ \E c \in Callers : csess[c] = s /\ DropThread(c)

\* No lost update: a record that is settled (it is not a pending question)
\* stays, where it is and as it is, in spite of all the read-modify-writes of
\* the whole list (NodeCommits, the error record, _persist_partial,
\* _unpark_if_parked, accept_clarification).
SettledKept ==
  \A s \in Sessions : \A i \in 1 .. Len(records[s]) :
    records[s][i].status # "awaiting_input" /\ ~Truncates(s) =>
      /\ i <= Len(records'[s])
      /\ records'[s][i] = records[s][i]

SettledRecordsStay == [][SettledKept]_vars

\* The records of t's chat that carry t's message_id.
OwnRecords(t) ==
  {records[SessionOf[t]][i] :
     i \in {j \in 1 .. Len(records[SessionOf[t]]) :
              records[SessionOf[t]][j].mid = mid[t]}}

\* Nobody has deleted chat s, or is about to.
Kept(s) ==
  row[s] = "owned" /\ \A c \in Callers : ckind[c] = "delete" => csess[c] # s

\* When a turn says it is done, the answer, or the question, is in the thread
\* under the turn's message_id and with that status, unless a stop request has
\* let go of the question, or a request has answered it, in between; a chat
\* that is being deleted apart (the terminal event follows the commit;
\* run_turn's closing events).
DoneDurable ==
  \A t \in Turns : stream[t] # stream'[t] /\ Kept(SessionOf[t]) =>
    /\ stream'[t] = <<"done_complete">> =>
         \E r \in OwnRecords(t) :
           r.status = "complete" \/ (r.v2 /\ r.status = "cancelled")
    /\ stream'[t] = <<"done_awaiting">> =>
         \E r \in OwnRecords(t) : r.v2

DoneIsDurable == [][DoneDurable]_vars

\* A record that was announced is there, and stays (run_turn's end, and every
\* read and rewrite of the list of records).
RecordsDurable == [][DoneDurable /\ SettledKept]_vars

\* Neither the process nor its goal runs exceed their ceilings, although a
\* goal run can also come back as the continuation of its own question
\* (start, start_continuation, _require_goal_slot).
Ceilings ==
  /\ Cardinality(ActiveTurns) <= MaxTurns
  /\ Cardinality({s \in ActiveTurns : isGoal[turns[s]]}) <= MaxGoalTurns

\* When the pools close, nothing that would still use them is left: every turn
\* that was started has had its terminal event, no canceller is at work and
\* every completion hook has run (aclose and the shutdown order of api/main.py).
NothingOutlivesDrain ==
  stopping = "closed" =>
    /\ hooks = {}
    /\ \A t \in Turns : ~AtWork(t)
    /\ \A c \in Callers : cpc[c] = "idle"

\* An answer is taken once: there are never more continuations than questions
\* that were answered, however many requests answer one question (the clarify
\* claim, accept_clarification's re-read of the pending record).
AnsweredOnce ==
  \A s \in Sessions :
    Cardinality({t \in Turns : SessionOf[t] = s /\ isCont[t]}) <=
      Cardinality({i \in 1 .. Len(records[s]) :
                     records[s][i].v2 /\ records[s][i].status = "complete"})

\* Every stop, delete, answer and shutdown request returns.
CallsReturn == \A c \in Callers : cpc[c] # "idle" ~> cpc[c] = "idle"

(***************************************************************************)
(* What the repository says of this code and the code does not do.         *)
(***************************************************************************)

\* app/chat_deletion.py:3: a live task must not checkpoint after the thread was
\* deleted.  Once the row of a deleted chat is gone, so are its checkpoints.
DeletedStaysDeleted == \A s \in Sessions : row[s] = "gone" => ~exists[s]

\* app/state.py:99: the intent is there from the acceptance of an answer until
\* its continuation is over.  With no turn and no acceptance in progress there
\* is none.
IntentClearedAtRest ==
  \A s \in Sessions :
    turns[s] = NoTurn /\ claim[s] = NoCaller => intent[s] = "none"

\* app/turns.py:505: an acceptance loses to a racing cancel as a whole, with
\* the state untouched, or wins.  An answered question is never turned back
\* into one the student let go of.
AnswerNotOverwritten ==
  [][\A s \in Sessions : \A i \in 1 .. Len(records[s]) :
       records[s][i].v2 /\ records[s][i].status = "complete"
         => ~(i <= Len(records'[s]) /\ records'[s][i].status = "cancelled")]_vars

\* app/turns.py:661: a cancel that races the completion of a turn does
\* nothing.  A turn's settled answer is not turned into a cancelled one.
CancelAfterDoneIsNoOp ==
  [][\A s \in Sessions : \A i \in 1 .. Len(records[s]) :
       records[s][i].status = "complete"
         => ~(i <= Len(records'[s]) /\ records'[s][i].mid = records[s][i].mid
              /\ records'[s][i].status = "cancelled")]_vars

\* app/run_turn.py:572: a continuation cannot ask again, so the stream of one
\* that says it is complete leaves no question pending.
ContinuationNeverAsks ==
  \A t \in Turns :
    isCont[t] /\ stream[t] = <<"done_complete">> =>
      \A i \in 1 .. Len(records[SessionOf[t]]) :
        records[SessionOf[t]][i].mid = t
          => records[SessionOf[t]][i].status # "awaiting_input"
=============================================================================
