---------------------------- MODULE StreamBuffer ----------------------------
(***************************************************************************)
(* The per-turn event buffers of app/turns.py (class _RingBuffer), the     *)
(* byte budget all of them share (TurnRegistry._charge_bytes and           *)
(* _refund_bytes) and the consumers that follow one of them by sequence    *)
(* number (TurnRegistry.attach and _follow; one SSE response each).        *)
(*                                                                         *)
(* A turn's producer appends events; an event is identified with the       *)
(* position at which it was produced, so that a wrong index into the       *)
(* buffer shows up as the wrong event.  An event's payload is abstracted   *)
(* to its size.  Everything runs on one asyncio loop: an action is what    *)
(* happens between two suspension points.                                  *)
(***************************************************************************)
EXTENDS Integers, Sequences, FiniteSets, FiniteSetsExt, SequencesExt

CONSTANTS
  Turns,         \* the turns that may run during the process's lifetime
  Sessions,      \* the chats
  SessionOf,     \* the chat each turn belongs to
  Readers,       \* the clients that attach to streams
  MaxSize,       \* settings.agent_stream_buffer_size
  Budget,        \* settings.stream_buffer_bytes
  Sizes,         \* the sizes an event can have (_event_nbytes)
  MaxConsumers,  \* settings.max_consumers_per_turn
  MaxEvents,     \* bound: events one turn produces
  NoTurn         \* not a turn

ASSUME StreamAssumption ==
  /\ NoTurn \notin Turns
  /\ SessionOf \in [Turns -> Sessions]
  /\ MaxSize \in Nat \ {0}
  /\ Budget \in Nat
  /\ Sizes \subseteq Nat \ {0}
  /\ MaxConsumers \in Nat
  /\ MaxEvents \in Nat \ {0}

VARIABLES
  turnState,   \* "new", "live" (registered, appendable) or "final" (evicted)
  base,        \* seq of the oldest event still held
  events,      \* the events held, oldest first
  sizes,       \* their sizes, as charged to the budget
  closed,      \* _RingBuffer.closed
  used,        \* _buffer_bytes_used
  consumers,   \* _Turn.consumers
  rpc,         \* what each client is doing
  rturn,       \* the turn whose stream the client holds
  after,       \* the Last-Event-ID it presented (id -1 for none), and the turn
               \* whose stream that id came from
  seq,         \* _follow's cursor
  got,         \* the events this stream has delivered, in order
  cursor       \* the client's memory: the last event id it saw, and its turn

bufferVars == <<turnState, base, events, sizes, closed, used>>
readerVars == <<rpc, rturn, after, seq, got, cursor>>
vars == <<bufferVars, consumers, readerVars>>

ReaderStates == {"off",      \* no stream
                 "handle",   \* a handle was returned, its generator not driven
                 "follow",   \* in _follow's loop, runnable
                 "wait",     \* in _follow's loop, suspended on the flag
                 "ended",    \* the stream ended at the buffer's close
                 "behind"}   \* the stream ended with the fell-behind error

NoCursor == [turn |-> NoTurn, id |-> -1]

(***************************************************************************)
(* The ring buffer.                                                        *)
(***************************************************************************)
NextSeq(t) == base[t] + Len(events[t])

EventAt(t, s) == events[t][(s - base[t]) + 1]

SumSeq(s) == SumFunction(s)

\* The number of heads append evicts from a buffer whose sizes, the new event
\* included, are szs when the process as a whole holds total bytes: as few as
\* bring it under both limits, and never the last event.
Evictions(szs, total) ==
  LET fits(k) == /\ Len(szs) - k <= MaxSize
                 /\ total - SumSeq(SubSeq(szs, 1, k)) <= Budget
      ok      == {k \in 0 .. Len(szs) - 1 : fits(k)}
  IN  IF ok = {} THEN Len(szs) - 1 ELSE Min(ok)

\* What is left of a buffer's list when its first k elements are evicted.
Kept(s, k) == SubSeq(s, k + 1, Len(s))

\* _refund_bytes never lets the total go below zero.
Refunded(total, n) == IF total < n THEN 0 ELSE total - n

\* Fault: appending and closing wake nobody.
NotifyNobody(t) == UNCHANGED rpc

\* _notify: every consumer suspended on this buffer's flag becomes runnable.
Notify(t) ==
  rpc' = [r \in Readers |-> IF rpc[r] = "wait" /\ rturn[r] = t
                            THEN "follow" ELSE rpc[r]]

\* Fault: an eviction does not advance base.
PushKeepsBase(t, n) ==
  LET szs == Append(sizes[t], n)
      evs == Append(events[t], NextSeq(t))
      k   == Evictions(szs, used + n)
  IN  /\ events' = [events EXCEPT ![t] = Kept(evs, k)]
      /\ sizes' = [sizes EXCEPT ![t] = Kept(szs, k)]
      /\ base' = base
      /\ used' = Refunded(used + n, SumSeq(SubSeq(szs, 1, k)))

\* _RingBuffer.append of one event of size n.
Push(t, n) ==
  LET szs == Append(sizes[t], n)
      evs == Append(events[t], NextSeq(t))
      k   == Evictions(szs, used + n)
  IN  /\ events' = [events EXCEPT ![t] = Kept(evs, k)]
      /\ sizes' = [sizes EXCEPT ![t] = Kept(szs, k)]
      /\ base' = [base EXCEPT ![t] = @ + k]
      /\ used' = Refunded(used + n, SumSeq(SubSeq(szs, 1, k)))

Init ==
  /\ turnState = [t \in Turns |-> "new"]
  /\ base = [t \in Turns |-> 0]
  /\ events = [t \in Turns |-> <<>>]
  /\ sizes = [t \in Turns |-> <<>>]
  /\ closed = [t \in Turns |-> FALSE]
  /\ used = 0
  /\ consumers = [t \in Turns |-> 0]
  /\ rpc = [r \in Readers |-> "off"]
  /\ rturn = [r \in Readers |-> NoTurn]
  /\ after = [r \in Readers |-> NoCursor]
  /\ seq = [r \in Readers |-> 0]
  /\ got = [r \in Readers |-> <<>>]
  /\ cursor = [r \in Readers |-> NoCursor]

Live(t) == turnState[t] = "live"

\* A fresh handle on t's stream for client r.
Handle(r, t, c) ==
  /\ rpc' = [rpc EXCEPT ![r] = "handle"]
  /\ rturn' = [rturn EXCEPT ![r] = t]
  /\ after' = [after EXCEPT ![r] = c]
  /\ got' = [got EXCEPT ![r] = <<>>]
  /\ seq' = [seq EXCEPT ![r] = 0]
  /\ UNCHANGED cursor

Detached(r) == rpc[r] \in {"off", "ended", "behind"}

(***************************************************************************)
(* The registry side of a stream.                                          *)
(***************************************************************************)

\* start: the session has no turn; the starter gets an uncapped handle.
Start(r, t) ==
  /\ turnState[t] = "new"
  /\ \A u \in Turns : Live(u) => SessionOf[u] # SessionOf[t]
  /\ Detached(r)
  /\ turnState' = [turnState EXCEPT ![t] = "live"]
  /\ Handle(r, t, NoCursor)
  /\ UNCHANGED <<base, events, sizes, closed, used, consumers>>

\* The producer appends a non-terminal event.
Produce(t, n) ==
  /\ Live(t)
  /\ NextSeq(t) < MaxEvents - 1
  /\ Push(t, n)
  /\ Notify(t)
  /\ UNCHANGED <<turnState, closed, consumers, rturn, after, seq, got, cursor>>

\* Fault: drop_all is not called.
FinishKeepsBytes(t, n) ==
  /\ Live(t)
  /\ Push(t, n)
  /\ closed' = [closed EXCEPT ![t] = TRUE]
  /\ turnState' = [turnState EXCEPT ![t] = "final"]
  /\ Notify(t)
  /\ UNCHANGED <<consumers, rturn, after, seq, got, cursor>>

\* The terminal event, and _finalize in the same step: close, refund every
\* byte still charged, evict the turn from the registry.  The events stay
\* readable for the consumers that hold the buffer.
Finish(t, n) ==
  LET szs == Append(sizes[t], n)
      evs == Append(events[t], NextSeq(t))
      k   == Evictions(szs, used + n)
  IN  /\ Live(t)
      /\ events' = [events EXCEPT ![t] = Kept(evs, k)]
      /\ base' = [base EXCEPT ![t] = @ + k]
      /\ used' = Refunded(used + n, SumSeq(szs))
      /\ sizes' = [sizes EXCEPT ![t] = <<>>]
      /\ closed' = [closed EXCEPT ![t] = TRUE]
      /\ turnState' = [turnState EXCEPT ![t] = "final"]
      /\ Notify(t)
      /\ UNCHANGED <<consumers, rturn, after, seq, got, cursor>>

(***************************************************************************)
(* The consumer side.                                                      *)
(***************************************************************************)

\* attach: the cap is tested against the consumers that already iterate.  The
\* client presents no cursor, or the last event id it saw in this chat.
Attach(r, t) ==
  /\ Detached(r)
  /\ Live(t)
  /\ consumers[t] < MaxConsumers
  /\ \E c \in {NoCursor, cursor[r]} :
        /\ c.turn # NoTurn => SessionOf[c.turn] = SessionOf[t]
        /\ Handle(r, t, c)
  /\ UNCHANGED <<bufferVars, consumers>>

\* Where _follow starts: right after the cursor, or at the head when the
\* cursor is ahead of everything this buffer has produced.
FirstSeq(r) ==
  LET t == rturn[r]
  IN  IF after[r].id + 1 > NextSeq(t) THEN base[t] ELSE after[r].id + 1

\* The generator's first iteration claims the consumer slot.
Drive(r) ==
  /\ rpc[r] = "handle"
  /\ rpc' = [rpc EXCEPT ![r] = "follow"]
  /\ seq' = [seq EXCEPT ![r] = FirstSeq(r)]
  /\ consumers' = [consumers EXCEPT ![rturn[r]] = @ + 1]
  /\ UNCHANGED <<bufferVars, rturn, after, got, cursor>>

\* The generator's finally.
Release(r) == consumers' = [consumers EXCEPT ![rturn[r]] = @ - 1]

\* The loop's next iteration hands one event to the client.
Deliver(r) ==
  LET t == rturn[r]
  IN  /\ rpc[r] = "follow"
      /\ seq[r] >= base[t]
      /\ seq[r] < NextSeq(t)
      /\ got' = [got EXCEPT ![r] = Append(@, EventAt(t, seq[r]))]
      /\ cursor' = [cursor EXCEPT ![r] = [turn |-> t, id |-> seq[r]]]
      /\ seq' = [seq EXCEPT ![r] = @ + 1]
      /\ UNCHANGED <<bufferVars, consumers, rpc, rturn, after>>

\* The needed event was evicted: an error event, numbered just below the
\* head, ends the stream.
FallBehind(r) ==
  LET t == rturn[r]
  IN  /\ rpc[r] = "follow"
      /\ seq[r] < base[t]
      /\ rpc' = [rpc EXCEPT ![r] = "behind"]
      /\ cursor' = [cursor EXCEPT ![r] = [turn |-> t, id |-> base[t] - 1]]
      /\ Release(r)
      /\ UNCHANGED <<bufferVars, rturn, after, seq, got>>

CaughtUp(r) == seq[r] >= NextSeq(rturn[r])

\* Nothing to read and the buffer is closed: the stream ends.
EndStream(r) ==
  /\ rpc[r] = "follow"
  /\ CaughtUp(r)
  /\ closed[rturn[r]]
  /\ rpc' = [rpc EXCEPT ![r] = "ended"]
  /\ Release(r)
  /\ UNCHANGED <<bufferVars, rturn, after, seq, got, cursor>>

\* Nothing to read yet: suspend on the flag captured before the tests.
Wait(r) ==
  /\ rpc[r] = "follow"
  /\ CaughtUp(r)
  /\ ~closed[rturn[r]]
  /\ rpc' = [rpc EXCEPT ![r] = "wait"]
  /\ UNCHANGED <<bufferVars, consumers, rturn, after, seq, got, cursor>>

\* The client goes away.  A handle that was never driven holds no slot; the
\* finally of one that was gives its slot back.
Disconnect(r) ==
  /\ rpc[r] \in {"handle", "follow", "wait"}
  /\ rpc' = [rpc EXCEPT ![r] = "off"]
  /\ IF rpc[r] = "handle" THEN UNCHANGED consumers ELSE Release(r)
  /\ UNCHANGED <<bufferVars, rturn, after, seq, got, cursor>>

Follow(r) == Drive(r) \/ Deliver(r) \/ FallBehind(r) \/ EndStream(r) \/ Wait(r)

Next ==
  \/ \E r \in Readers, t \in Turns : Start(r, t) \/ Attach(r, t)
  \/ \E t \in Turns, n \in Sizes : Produce(t, n) \/ Finish(t, n)
  \/ \E r \in Readers : Follow(r) \/ Disconnect(r)

\* A turn always reaches its terminal event (TurnRegistry), and the event loop
\* runs every runnable consumer again; clients are under no obligation.
Fairness ==
  /\ \A t \in Turns : WF_vars(\E n \in Sizes : Finish(t, n))
  /\ \A r \in Readers : WF_vars(Follow(r))

Spec == Init /\ [][Next]_vars

FairSpec == Spec /\ Fairness

(***************************************************************************)
(* Correctness.                                                            *)
(***************************************************************************)

\* Every variable holds a value of its kind.
TypeOK ==
  /\ turnState \in [Turns -> {"new", "live", "final"}]
  /\ base \in [Turns -> Nat]
  /\ events \in [Turns -> Seq(Nat)]
  /\ sizes \in [Turns -> Seq(Nat)]
  /\ closed \in [Turns -> BOOLEAN]
  /\ used \in Nat
  /\ consumers \in [Turns -> Nat]
  /\ rpc \in [Readers -> ReaderStates]
  /\ rturn \in [Readers -> Turns \cup {NoTurn}]
  /\ after \in [Readers -> [turn : Turns \cup {NoTurn}, id : Int]]
  /\ seq \in [Readers -> Nat]
  /\ got \in [Readers -> Seq(Nat)]
  /\ cursor \in [Readers -> [turn : Turns \cup {NoTurn}, id : Int]]

Driven(r) == rpc[r] \in {"follow", "wait"}

FirstGot(r) == seq[r] - Len(got[r])

LiveTurns == {t \in Turns : Live(t)}

\* The size of the newest event a buffer holds.
Newest(szs) == IF szs = <<>> THEN 0 ELSE Last(szs)

\* The shared budget counts exactly the bytes the live buffers hold: whatever
\* mix of appends, evictions and finalizations happened, nothing leaks and
\* nothing is refunded twice (_charge_bytes, _refund_bytes, drop_all).
BudgetExact ==
  used = SumFunctionOnSet([t \in Turns |-> SumSeq(sizes[t])], LiveTurns)

\* One buffer cannot evict another's events, so the budget can be overshot,
\* but by no more than the newest event of each live buffer (the eviction loop
\* of _RingBuffer.append, which never drops the only event).
OvershootBounded ==
  used <= Budget + SumFunctionOnSet([t \in Turns |-> Newest(sizes[t])], LiveTurns)

\* Whoever attaches, whenever, sees the same events under the same numbers and
\* in order, without a hole: what a stream delivered is the run of events that
\* ends just before its cursor (_follow, _RingBuffer.get under eviction).
DeliveryContiguous ==
  \A r \in Readers : rpc[r] \notin {"off", "handle"} =>
    \A i \in 1 .. Len(got[r]) : got[r][i] = FirstGot(r) + i - 1

\* A stream that ends at the close, rather than with the fell-behind error,
\* has gone through the terminal event, the last one the turn produced.
EndedStreamIsComplete ==
  \A r \in Readers :
    rpc[r] = "ended" => /\ closed[rturn[r]]
                        /\ seq[r] = NextSeq(rturn[r])

\* No consumer ever waits for a number its turn has not reached, as a cursor
\* left over from an earlier turn of the chat would make it (_follow's reset).
NoFutureCursor ==
  \A r \in Readers : Driven(r) => seq[r] <= NextSeq(rturn[r])

\* The consumer count of a turn is the number of streams being iterated,
\* through disconnects, undriven handles and every way a stream ends.
SlotsExact ==
  \A t \in Turns :
    consumers[t] = Cardinality({r \in Readers : Driven(r) /\ rturn[r] = t})

\* The accounts of the buffers are exact: the shared budget and how far it can
\* be overshot, and the consumer slots (_charge_bytes, _refund_bytes, _follow).
AccountingExact == BudgetExact /\ OvershootBounded /\ SlotsExact

\* Nothing a turn produced is skipped by a stream, wherever it attached and
\* however the buffer evicted meanwhile: what it delivered has no hole, it is
\* complete when it ends, and it never waits for an event of no turn (_follow,
\* _RingBuffer.get).
NothingSkipped == DeliveryContiguous /\ EndedStreamIsComplete /\ NoFutureCursor

\* A stream being iterated ends: by the close, by falling behind or by its
\* client leaving.  No wakeup is missed (the flag captured before the tests).
DrivenStreamEnds ==
  \A r \in Readers : Driven(r) ~> ~Driven(r)

(***************************************************************************)
(* What the repository says of this code and the code does not do.         *)
(***************************************************************************)

\* config/settings.py:603: at most max_consumers_per_turn streams are attached
\* to one turn at once; the starter's own slot is exempt (app/turns.py:485).
ConsumerCap ==
  \A t \in Turns : consumers[t] <= MaxConsumers + 1

\* app/turns.py:35: events evicted from the head are never skipped silently.
\* A stream whose cursor was reset, because it was ahead of the buffer,
\* starts with the turn's first event.
ResetReplaysFromStart ==
  \A r \in Readers :
    rpc[r] = "ended" /\ FirstGot(r) # after[r].id + 1 => FirstGot(r) = 0

\* api/routes/sessions.py:224: a small cursor left over from a previous turn
\* does not make the stream skip this turn's first events.
ForeignCursorSkipsNothing ==
  \A r \in Readers :
    rpc[r] = "ended" /\ after[r].turn \notin {NoTurn, rturn[r]}
      => FirstGot(r) = 0
=============================================================================
