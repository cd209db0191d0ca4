# Counselle: a TLA+ verification project

Counselle is an AI admissions counselor: a FastAPI server that streams the
answers of a LangGraph agent to students, keeps their transcripts in a
checkpointer, a web client in which they chat, write essays, keep lists and
practise, and a set of background workers that keep the data the counselor
quotes up to date. This project models the parts of it in which several actors
touch the same state, checks them with TLC and proves the most important
results with TLAPS. Paths are relative to the repository.

## 1. Inventory

### The chat server

| Component | Code | State | Operations |
|---|---|---|---|
| Turn registry | `app/turns.py` | `_turns` (one `_Turn` per chat, the *claim*), run handles, hook tasks, `cancel_requested`, `terminal_appended` | `start` (with `_rewrite_history` for an edit), `accept_clarification`, `start_continuation`, `attach`, `steer`, `cancel`, `aclose`, `_drive`, `_finalize`, the watchdog |
| Stream buffer | `app/turns.py` `_RingBuffer`, `_follow`; `api/routes/sessions.py` | per turn: events, base, sizes, closed, wake-up flag; per process: the byte total | `append`, `close`, `drop_all`, `attach`, `_follow` |
| Turn execution | `app/run_turn.py`, `app/agent_node.py` | locals of one coroutine; the checkpoint | `run_turn`, `run_continuation_turn`, the failure records, the node's commit |
| Records and persistence | `app/records.py`, `app/turn_persistence.py` | `turn_records` of the checkpoint | `append_or_replace`, `replace_latest_pending_v2`, `build_terminal_update` |
| Clarification | `app/clarification.py`, `app/clarify_lifecycle.py` | the pending question (a record), `continuation_intent`, the acceptance claims | classify, claim, accept, continue |
| Chat deletion | `app/chat_deletion.py`, `api/routes/sessions.py` | thread, session row | cancel, drop the thread, drop the row |
| Steering | `app/run_handle.py`, `app/agent_node.py` | a queue on the run handle | enqueue, drain into the run, report the rest |
| Goal mode | `domain/goal.py`, `app/goal_loop.py`, `app/goal_judge.py` | budgets, rounds, verdicts | rounds, judge, stop reasons |
| Titles, sources, tool budget, prompt, skills | `app/` | mostly local to one coroutine | |

All of it runs on one asyncio loop: what stands between two awaits is atomic,
and every await is a point at which any other request may run. The components
meet in three places. The registry's dictionary decides who may write a chat's
thread. The checkpoint is read, changed and written back as a whole by four
different writers: the agent node, the error path of the turn, the canceller
and the watchdog. The buffer connects the detached turn to clients that come
and go.

What is hard: a stop, a delete, the watchdog and the shutdown may all end the
same turn; the checkpoint has no transaction across a read and the write that
follows it; a write may be cut off by its timeout and yet land; an answer
becomes durable before the turn that continues from it starts; clients
reattach with cursors of earlier turns.

What makes it correct: a chat has one writer at a time; every stream ends with
exactly one terminal event that tells why; "stopped by the student" is only
recorded when the student stopped it; one record per assistant message; no
settled record is lost; "done" is only said of what is durable; a question is
answered once; nothing outlives the shutdown's drain; every request returns and
every chat becomes free again; byte accounting is exact; no event is skipped
silently.

### The facts pipeline

| Component | Code | State | Operations |
|---|---|---|---|
| Job queue | `adapters/facts_jobs_store.py`, `app/facts/jobs.py`, `app/facts/__main__.py`, `api/routes/admin_facts.py` | `facts_jobs` (status, claim, lease), `crawl_runs` | enqueue (daily, button, command line), claim, renew, sweep, complete, mark crashed |
| Crawl pass | `app/facts/crawl.py`, `adapters/facts_store.py` | advisory lock, the run's counters, `last_attempted_at` | open, lock, discover, one transaction per school, counts, close, abort, remap |
| Retirement, history | `adapters/facts_store.py` | `retired_at`, valid-from/valid-to rows | `retire_absent_slugs`, `write_facts` |

Several server processes and the command line share one database. What is hard:
a process dies between any two statements; a lease runs out under a live
worker; a superseded worker goes on; a run is opened before the lock is tried.
What makes it correct: every job is finished; a pass is resumed rather than
restarted and leaves no school out; a run is closed by the worker inside it;
only the holder of the claim finishes a job; counts and failures are told.

### The web client

| Component | Code (`frontend/src/`) | State | Operations |
|---|---|---|---|
| Chat client | `features/ai-chat/useTurnEngine.ts`, `useChatSession.ts`, `stream-reconcile.ts` and what they call | the live turn, the message list, the queue of forwards, the pending send, the stored cursor | submit, steer, stop, regenerate, retry, attach, hydrate, forward |
| Turn view | `features/ai-chat/turn-reducer.ts`, with `app/records.py` | the beats of a turn | `reduceTurn`, `build_segments`, `reduceTranscriptEntry` |
| Essay editor | `features/essays/useEssayAutosave.ts`, `useEssayEditor.ts`, `suggestions/useEssaySuggestions.ts`, with `app/workspace/service_essays.py` | drafts (pending, in flight, queued), the expected version, the cache entry, the editor's document | type, autosave, flush, keepalive, retry, unmount, accept, reject, refetch |
| Account boundary | `app/auth.ts`, `app/private-mutations.ts`, `app/auth/RequireAuth.tsx`, `api/http/account-binding.ts`, `api/http/auth.ts` | the identity query, the cache generation, captured ownerships | read identity, log in and out, discard, private read and write |
| Activities page | `api/workspace/hooks/shared.ts`, `hooks/activities.ts`, `optimistic.ts`, `hooks/useUndoableDelete.ts`, `features/activities/ActivitiesRoute.tsx`, with `app/workspace/service_activities.py` | the cached list, per-row queues, the undo toast | create, update, archive, undo, reorder, refetch |
| SAT practice | `features/sat/use-sat-session.ts`, `sat-session-reducer.ts`, with `app/sat/service_attempts.py` | answers, reveals, history, in-flight set, attempt bindings | launch, reload, answer, submit, bookmark |
| Pages, components, fixtures, types | the remainder | none that outlives a render | |

A browser tab is one thread too, but its requests are served and answered in any
order, other tabs share its cookie, and the agent changes the same rows from the
server's side. What is hard: an answer that is older than what is on the screen;
an optimistic change whose request fails after a newer one; a request whose
answer is lost although it was served; an account that changes while requests of
the previous one are under way; a stream that is still read after its turn was
replaced. What makes it correct: unsaved text stays on the screen and "Saved" is
true; no message is lost, or heard twice; the list on the screen is the server's
when all is quiet; no account's data is shown, or written, under another; a
retry is not a second attempt; a reload shows what was seen.

### The rest

The other workspace services, the SAT bank and scholarships are single SQL
statements behind routes; credentials are fastapi-users'; the SQL guard is text
analysis; CDS extraction is parked (`PARKED.md`) and not started; evaluations,
scripts and migrations are tooling. `PROJECT.json` lists each with its status
and reason.

## 2. Modules

| Module | Models | Used by |
|---|---|---|
| `SingleFlight` | what the registry promises, in four variables | `TurnRegistry` (refinement) |
| `TurnRegistry` | registry, turn execution, records, clarification, deletion, shutdown | all `Turn*` runs, `TurnRegistryProof` |
| `TurnRegistryProof` | proofs: types, single flight, terminal events, refinement, ceilings, shutdown, the transcript | |
| `StreamBuffer` | ring buffer, shared budget, consumers | `Stream` |
| `StreamProof` | lemmas on sums over finite sets and sequences; proofs: types, delivery, slots and budget | |
| `FactsJobs` | job queue, pollers, passes, command line | `Facts*` runs |
| `FactsProof` | proofs: types, attempts, finishing, counts, coverage, ownership of passes | |
| `ChatClient` | the turn engine of the web client, and the server as it sees it | `Chat*` runs |
| `ChatProof` | proofs: types, one consumer of a stream, nothing heard twice | |
| `TurnView` | the reducer, the three feeds of a record, the reload | `Pages` |
| `EssayEditor` | autosave, suggestions, cache and service of an essay | `Essay*` runs |
| `EssayProof` | proofs: unsaved words stay on the screen, "Saved" is right | |
| `AccountBoundary` | identity, cookie, private cache and private requests of a tab | `Account` |
| `AccountProof` | proofs: its types, the owner of the cache and of the writes, the account displayed | |
| `ActivityList` | the activities and honors page and their service | `Activities` |
| `ActivityProof` | proofs: queues, last edits, last wishes, convergence | |
| `SatSession` | a practice session and its service | `Pages` |
| `SatProof` | proofs: attempts, verdicts, stars | |
| `MC…` | the instances; `MCPages` puts `SatSession` and `TurnView`, which share nothing, side by side | |

### TurnRegistry and the code

`phase[t]` is where the coroutine of turn `t` stands: `prep` and `rewrite` are
`start` after its claim, `spawned` is a created task that has not run, then the
awaits of `run_turn` (`prefetch`, `meta`, `input`, `graph`, `committed`), its
error path (`failing`, `failwrite`, `failed`), the watchdog's handler
(`expired`), a stopped task whose canceller is still busy (`ended`), and
`final`. `turns` is `_turns`, `why` is `cancel_requested` with its cause,
`stream` the terminal events, `mid` the message id announced by `ev_meta`,
`tsnap`, `psnap`, `csnap` the snapshots that a coroutine holds between its read
and its write. `records`, `intent`, `exists` and `row` are durable: the
transcript, the continuation intent, whether the thread has a checkpoint, and
the session row (`orphan`: re-inserted without an owner). `cpc[c]` is where
request handler `c` stands; the shutdown is a caller as well.

A checkpoint read and the write that follows are two actions. A write may land
or fail; one that is cut off by `persist_partial_timeout_s` may have landed, and
is retried. A cancelled task may still have a write under way that lands
(`NodeCommits`, `ClearIntent` and `FailureWrite` have no guard on `why`). A task
that is cancelled before its first step never runs `_drive`'s `finally`, and its
run handle stays registered. `Finalize` is one action with the terminal event:
no await stands between them. Between the acceptance's write and the creation
of the continuation's task there is no await either, so `Continue` is atomic
with its ceiling and claim tests.

Abstracted: a record is its id, status, whether it is a v2 question, whether it
belongs to a goal run, and whether it may be edited; an answer's validation is a
nondeterministic refusal; the agent node is its commit (an answer or a question)
or its failure; a continuation's `_ensure_session`, marking of the intent and
start of the graph are `EnsureSession` and `EnterGraph`. The
`__interrupt__` branch of `run_turn` is left out: the only call of
`interrupt()` is in `app/clarify.py`, whose tool is mounted nowhere; questions
that the previous release parked that way are in `InitRecords`. A run may
raise after its node has committed as well: `astream` after the checkpoint, or
`UsageData.model_validate` among the closing events (`app/run_turn.py:765`,
`:1093`); the error record is then appended without a look at what is there.
`RunFails` has that under `"late"`. Uvicorn finishes the requests in flight before it runs the lifespan's shutdown,
so the drain starts when no request handler is at work.

`Ops` selects which requests occur in an instance; `"stale"` allows a text
answer to be classified as a plain message, which happens when the classifier's
read fails or is older than the turn that asks, and `"late"` lets a run raise
after its commit. No run that passes has either (section 4).

### StreamBuffer and the code

An event is its sequence number and its size; `Push` is `append` with its
charge, its evictions and its wake-up; `Finish` is `_finalize` (close, refund,
release). A client is `off`, holds a `handle` that was never iterated, is in
`_follow`'s loop (`follow`), is suspended on the flag (`wait`) or has `ended`.
`cursor` is the client's `Last-Event-ID`, which survives its stream and the
turn it came from.

### FactsJobs and the code

An action is one statement or one transaction. A lease is valid or expired,
`started_at` is the number of the claim, the enqueue interval has elapsed or
not. `runs[r].attempted` holds the schools with `last_attempted_at >=
started_at` of the run, also when another run's worker attempted them; `mine` is a history
variable with the ones committed for this run. A school's outcome is good, a
failed page, a mapper failure, or a silent rollback (a database error inside
the mapper's `try` undoes the school's transaction and the pass goes on).
`Kept` says which leases cannot run out by themselves: those of a poller's
renewing task and of a worker that has just claimed. The fault `"lease"` lifts
that. The command line has no renewal. `Poller.stop` cancels the loop, the loop
awaits the run directly, and so the database sees the same as after a crash.

`Limited` are the command lines that were given `--limit`, and `Limit` is the
number: `Slices` cuts the list of schools (`app/facts/crawl.py:551`), and the run
is recorded as succeeded like any other. `PassCovers` says so of the invocation
that closes the run. `OutcomesAreTold` has the premise `NoLimit`: a limited
invocation that has lost its lease may close the run that its successor has just
claimed, and the successor then crawls the rest, and meets its failures, under a
run that already reads succeeded. The runs kept have no limited command line,
whose choice of schools multiplies the states; TLC checked `PassCovers` on one
poller and one limited `crawl_pass`, 2 schools, `Limit = 1`, one crash or
exception (6.5 million states), and `CrawlsAreComplete` covers any number of them.

### ChatClient and the code

`page` is the memory of the engine and the session hooks: the list, the live
turn, the queue of messages to forward, the ones already forwarded, the pending
send. Every `submit`, `attach` and `stop` is a promise of its own, in `calls`;
its `pc` is the await it stands at, and an aborted promise goes on to its
`finally`. `turns` is the server: a turn has events, accepted and injected
steers and a claim. `asked` and `heard` are histories. What the server does in
detail is `TurnRegistry`; here it answers as its routes do. `data` is the answer
that the query cache holds: an answer equal to it keeps its identity, so the
effect of `useChatSession.ts:206` does not run and the list is left as it is.

A turn ends complete or cancelled and leaves its record (`TurnEnds`), or it fails
(`TurnFails`, with `"error"` in `Ops`): it ends in an error, or the record of its
error or stop is missing, since a write of it may fail and is swallowed
(`app/run_turn.py:217`, `:450`; `app/turns.py:1174`), and a resume that cannot
begin writes none (`app/run_turn.py:935`). Failed turns and lost requests share
the bound `MaxFaults`. The error is the stream's terminal event; a run that fails
before `meta` is not told apart. Abstracted: a record has the status of its
event, and never lands after it, while a write that timed out may; a prose
that precedes a chat's first record, of turns that have none, is left out; the fields of the session answer beside the transcript do not move. A
message counts as heard once its POST is accepted, although the turn it began may
fail before the agent reads it: what `HeardOnce` and `NothingForgotten` say is
that the server has taken it.

### TurnView and the code

The node writes chunks (`node`), which are still in the graph's stream (`pipe`)
when it commits; the registry observes what `run_turn` yields, and the steering
messages it broadcasts itself (`observed`); the page reduces the same events
(`live`). `Commit` records the node's feed, `Fail` run_turn's, `Stop` the
registry's. A text is the sequence of the numbers of its chunks.

### EssayEditor and the code

A document is the student's text and the set of accepted suggestions, a version
is the clock of the write. `tab` holds the refs of `useEssayAutosave` by name
(pending, in flight, queued, expected version), the editor's document, the cache
entry and the requests under way. `Serve` and `Returns` are the two ends of a
request, in any order.

### AccountBoundary, ActivityList, SatSession and the code

Private data is whose it is; an ownership is the pair of account and cache
generation that `capturePrivateMutationOwnership` captures. A row's contents are
the number of the edit that wrote each field. A SAT answer is right or wrong. In
all three a request is sent, served and answered in separate steps, may be lost,
and may be served after the page has given it up.

## 3. Runs

Each run takes at most a little over three minutes. Bounds are chosen so that every action
of the modules fires and every race has its participants: two turns suffice
for one turn racing its successor, two callers for two requests on one chat,
two pollers for a superseded worker, two schools for a crash between them.

| Run | Instance | Shows |
|---|---|---|
| `TurnAnswer` | 2 turns, 2 callers that both answer; a question of a goal run or of the previous release; shutdown | `AnsweredOnce`, `OneRecordPerMessage`, `SettledRecordsStay`, `NothingOutlivesDrain`, `KeepsPromise` (refines `SingleFlight`) |
| `TurnLive` | 2 turns, 1 caller; stop, edit, answer, delete, shutdown; fair | `TerminalTellsCause`, `ClaimCoversWork`; `RecordsHonest`: one record per message, and "cancelled" only if the student stopped it; `RecordsDurable`: what was announced is stored and stays; `CallsReturn`, `KeepsPromiseLive` |
| `Stream` | 3 turns of 2 chats, a client that reattaches, events of size 1 and 2, budget 3, 2 events per buffer; fair | `AccountingExact`: budget, overshoot, slots; `NothingSkipped`: contiguous, complete at the end, no cursor beyond the turn; `DrivenStreamEnds` |
| `FactsCrash` | 2 pollers, 2 schools, 2 jobs; deaths, stops, exceptions | `OpenRunIsReachable`, `PassCovers`, `ClosedByItsWorker`, `OncePerRun`; `OutcomeTold`: counts and failures |
| `FactsLive` | a poller and a command line whose lease nobody renews; deaths, exceptions; fair | `JobsFinish`, `FinishedByOwner` |
| `ChatClient` | 2 messages, 5 promises, 3 turns; steer, stop, regenerate, one turn that fails, with its record or without | `NothingForgotten`, `HeardOnce`, `BubbleHasItsId`; `ScreenMatches`: at rest the page shows what a reload would show, except for what a last turn without its record left there |
| `ChatFaults` | 2 messages, 3 promises, 2 turns, one fault; retry, reload, drop, time-out, another tab; fair | `OneConsumer`, `Unblocks` |
| `EssayEditor` | one suggestion, 3 texts, 3 keystrokes | `SavedMeansSaved`, `UnsavedStaysOnScreen` |
| `EssayLive` | one keystroke, one lost request, stale reads; fair | `RetryPrevails` |
| `Account` | 2 accounts, 2 requests at once, 2 logins, one fault | `CacheIsOwners`, `WritesStayHome`, `DisplayIsTrue` |
| `Activities` | one row and one to create, 2 fields, 3 mutations, 2 visits, one upset | `Converges`, `LastEditWins`, `UndoWins`, `NoEditStranded` |
| `Pages` | chat: 4 chunks, one step, one visualisation, one steer. Practice: 2 questions, 3 presses, 2 requests at once, 2 loads | `ReloadAgrees`; `NoDoubleAttempt`, `PageIsTrue` |

Two accounts suffice for A, B, A; two fields for an edit beside another; two
questions for a verdict that arrives elsewhere; two loads and three presses for
a guard that an earlier session's failure takes away. Every module has a type
invariant, most of them proved or part of a proved invariant, and a run does not
check one again.

The turn and stream instances have finitely many turns, after which nothing
happens: these runs do not check deadlock. Turns of one chat, callers, pollers,
schools and a chat's messages are symmetric; symmetry is not used where liveness is checked.
`MaxClaims` leaves room for every claim that `MaxJobs` jobs, the command line
and `MaxFaults` faults can cause, so that the bound never leaves a job waiting.
Job rows are not recycled; after the last one the pollers keep polling, so
deadlock is checked. Where a property
needs a restriction of the instance (one caller in `TurnLive`, no remap in
`FactsCrash`, no lease that expires under its keeper there, no run that raises
after its commit in `TurnAnswer` and `TurnLive`, no lost request in
`ChatClient`), section 4 says what happens without it. Turns do not fail in
`ChatFaults`, which would take too long then: for the promises that read a stream
an error is one more status of its last event. `SavedMeansSaved`
excepts by its premise lost requests, drafts sent as the tab was hidden and
students who go back to an earlier text, but for undoing their first change;
three keystrokes are the fewest with which that exception matters.
Pages may be left and turns end: the client's runs do not check deadlock either,
`Account` excepted.

## 4. Where the code and its documentation disagree

The following were met while modelling and reproduced with TLC on the instance
given; no run is kept for them. The properties are in the modules.

| Property | Instance | What happens, and what is said |
|---|---|---|
| `StaleBranchHidden` | `ChatClient` with `Ops = {"regenerate"}` | the server renames an edited message (`app/run_turn.py:815`), the displayed list looks for the old id, and the replaced branch is shown again while the replacement streams in; `useTurnEngine.ts:1246`: "hide the stale branch that came after the edited message while the replacement streams in" |
| `AcknowledgedIsHeard` | `ChatFaults` | a steer that was acknowledged is forwarded by the page only; a reload or a lost stream between the two forgets it; `docs/adr/0028`: it is replayed "so the client can send it as the next normal turn" |
| `OneBubble` | `ChatFaults` with `Ops = {"retry", "lose"}` | a POST that was served and whose answer was lost is retried as a new turn; `plans/counseling-response-modes.md:912`: "no duplicate bubble" |
| `StopIsMeant` | `ChatClient` with `Ops = {"stop", "steer"}` | a stop that was committed for one answer meets the next; `plans/agent-interactivity-parity.md:662` |
| `AcceptedIsKept` | `EssayEditor` | an autosave that was queued before an accept writes the text without the accepted edit; `useEssaySuggestions.ts:219`: "Their text only overwrites the accepted edit if they ask for it" |
| `SavedIsNewest` | `EssayEditor` with `Texts = {0, 1}`, `Ops = {}` | three keystrokes that end at an earlier text: it is taken for the equal draft that is in flight or for the saved one, an older draft that was queued or on its way lands after it, and the page says Saved; `useEssayAutosave.ts:313`: "Their typing is never dropped and never silently overwritten" |
| `RecordNeverDrifts` | `Pages`, chat | while a turn runs a steering message stands where it was accepted and splits the answer there; after a reload it stands where it was injected, or is gone; `app/agent_node.py:598`: "the record can never drift from what the student saw" |
| `VerdictIsOfShownAnswer` | `Pages`, practice | an answer can be changed while its submit is under way, and the verdict is shown beside the other one; `plans/sat-practice/parity-inventory.md:111`: "changeable until submit and locked after" |
| `DeletedStaysDeleted` | `TurnLive` with `Ops = {"delete"}` | a delete arrives while `start` prepares; `cancel` sees no task and does nothing; the turn then writes to the deleted thread |
| `ForeignCursorSkipsNothing` | `Stream` | a small cursor of the previous turn skips the first events of the new one |
| `RefusedRunHasOwner` | `FactsCrash` | a job claimed between the close of a pass and its unlock is refused; the run it just opened stays open for ever |
| `AnswerNotOverwritten` | `TurnAnswer` with `Ops = {"accept", "cancel"}` | a stop that read a parked question before its answer was accepted writes the question back as cancelled; `app/clarify_lifecycle.py:25`: the claim registry is "serializing a racing cancel/delete against an in-flight acceptance" |
| `CancelAfterDoneIsNoOp` | `TurnLive` with a legacy question, `Ops = {"cancel"}` | the same against a turn that resumed the question and finished; `app/turns.py:661`: "idle (incl. cancel racing completion) → no-op (204)" |
| `IntentClearedAtRest` | `TurnAnswer`, one caller | an accepted answer whose continuation cannot start leaves its intent; `app/state.py:104`: "a hard restart mid-flight is the only time this key is non-``None`` at rest" |
| `ContinuationNeverAsks` | `TurnAnswer`, one caller, a goal question | the continuation of a goal run may ask again, and its stream says complete; `app/run_turn.py:576`: "a second clarification round stays impossible" |
| `OneRecordPerMessage` | `TurnAnswer` with `Ops = {"stale"}` | a text answer taken for a plain message resumes a v2 question and appends a second record; `app/records.py:343`: "one assistant message, one record" |
| `ConsumerCap` | `Stream`, 3 clients, cap 1 | the cap is tested at `attach` and counted at the first iteration; `config/settings.py:603` |
| `ResetReplaysFromStart` | `Stream`, 5 events | a foreign cursor restarts at the head, after what was evicted; `app/turns.py:33` |
| `ClosedByItsWorker` | `FactsCrash` with `Faults = {"lease", "error"}` | a newcomer that raises before it tries the lock closes the run of the live worker; `adapters/facts_jobs_store.py:272`: "A pass is only ever closed by the worker that finishes or aborts it" |
| `CountsComplete` without its term `faults` | `FactsCrash`, one poller, `Faults = {"crash"}` | a death between a school's transaction and its count loses the count; `adapters/facts_jobs_store.py:311` |
| `FailuresTold` without its premise `faults = 0` | `FactsCrash`, one poller, `Faults = {"crash"}` | a resumed pass forgets the failures of the dead process and is recorded as succeeded; `specs/school-data-v3/plan/school-data-v3.md:463` |
| `OneRecordPerMessage` | `TurnAnswer` with `Ops = {"late"}` | a run that raises after its node has committed (`app/run_turn.py:765`, `:1093`) goes to the error path, which appends a second record of the same message; `app/records.py:343`: "one assistant message, one record" |
| `LateSignOutSpares` | `Account` | the answer to a sign-out of A that comes after B has signed in takes the browser's cookie, B's: the display is spared, the session is not; `frontend/src/app/auth.ts:196`: "A late logout from A must not erase B's just-established session." |
| `ScreenIsTranscript` | `ChatClient` | a turn that ends in an error or a stop without its record leaves the optimistic question and the partial answer on the screen, since the transcript read after it equals the one before; a reload shows neither; `docs/ARCHITECTURE.md:830`: "every terminal path (complete, cancelled, error, tool-budget) leaves the record's `parts[]` and the live `messages` tail aligned with the streamed prose" |
| `PassCovers` | `FactsLive` | `remap` may claim a queued crawl and finish it without crawling; `app/facts/__main__.py:9` |
| `RunningHasWorker` | `FactsCrash`, one poller, `Faults = {"stop"}` | an orderly stop leaves its job running; `app/facts/jobs.py:64`: "an orderly shutdown never leaves a `running` row" |
| `RenewedByOwner` | `FactsCrash` with `Faults = {"lease", "crash"}` | a superseded worker renews its successor's lease; `adapters/facts_jobs_store.py:155` |

In the practice page, a session that is read before a submit is served and
applied after its answer drops the mark of that attempt, and two quick presses of
a star that are served in the other order leave the page and the server
different until the next load; `PageIsTrue` excepts the latter by `unsure`.

Two more were seen and are not stated as properties: a second pass that starts
while a superseded command-line pass still crawls is closed as succeeded with
no school counted, since attempts are counted across runs; two stop requests
racing on a parked question, followed by a new turn, can write back a
transcript without the new record.

## 5. Fairness

Turn registry: weak fairness of each turn's and each caller's steps. Every
await of a turn is bounded, by the watchdog (`agent_turn_timeout_s`,
`goal_turn_timeout_s`), by `persist_partial_timeout_s` or by the pool's
statement timeout; nothing is assumed of requests. Streams: weak fairness of a driven
consumer and of the turn that feeds it, which the registry's own liveness
justifies; nothing is assumed of attaching or leaving. Facts: a worker that is
up goes on, a server that is down is restarted by its platform, a lease nobody
renews runs out; deaths and exceptions are bounded by `MaxFaults`, since with
infinitely many no job need ever finish. Essay editor: the autosave timer fires,
requests are served and answered or fail (every request has a time-out), and the
student who has stopped typing goes on pressing Retry while a save is refused;
reads are strongly fair, since a newer invalidation restarts one. Chat client:
weak fairness of the engine as a whole and of the server as a whole: promises
settle, streams end or break, and a turn ends, as `KeepsPromiseLive` shows of the
registry; nothing is assumed of the student.

## 6. Proofs

A theorem holds for every value of the constants that the module's assumptions
allow: any number of chats, turns, requests, readers, workers, schools, rows and
faults. Where one has a premise of its own, the premise is named below, a run
satisfies it, and section 4 says what happens without it.

### Turn registry

`RegistryAssumption`: the distinguished values differ from the members,
`SessionOf` is a function, initial transcripts are sequences of records whose
ids are turns or `OldIds` (messages of an earlier process), ceilings are natural
numbers. In `TurnRegistryProof`:

* `TypeCorrect`: `Spec => []TypeOK`. `TypeOK` is not inductive:
  `SessionOf[ctgt[c]]` and `mid[t]` are written into typed state, so a caller in
  a given place must have a chat, a turn or a question, and a turn that runs or
  is recorded must have announced its identity. `TypeInv` adds these
  (`CallerHasChat`, `CallerHasTurn`, `CallerHasQuestion`, `RunHasIdentity`,
  `PartialHasIdentity`).
* `SingleFlightHolds`: `Spec => []ClaimCoversWork`, and `TerminalIsHonest`:
  `Spec => []TerminalTellsCause`. The inductive invariant `FlightInv` says that
  the holder of a chat is at work on it and the other way round (`OwnerWorks`,
  `WorkOwns`), and, because the last steps of a cancelled turn are taken by its
  canceller, that a canceller's turn is not finalized, carries the canceller's
  mark and has stopped when the partial is written (`CancellerWaits`), and that
  no two cancellers have the same turn (`OneCanceller`). Each action is matched
  against a few lemmas: it advances a turn, moves a caller, takes a chat, or ends
  a turn.
* `Implements`: `Spec => KeepsPromise`, the refinement of `SingleFlight`, by step
  simulation from the same invariant.
* `CeilingsHold`: `Spec => []Ceilings`: a step gives slots back, keeps them, or
  takes one after having counted those that are held.
* `ShutdownLeavesNothing`: `Spec => []NothingOutlivesDrain`. `DrainInv` says who
  looks after each turn: a turn marked for stopping has a canceller or a task
  that will stop (`MarkedIsAttended`); once the drain has begun, its caller is
  the only one at work and no turn is being prepared (`OnlyDrainer`), and a
  chat that is held is in the drain's queue or attended to (`HeldIsQueued`). It
  is `HeldIsQueued` that a drain which took its list once, and not until it is
  empty, would break.

The last part of `TurnRegistryProof` is about the transcript, which four writers
read, change and write back:

* `TranscriptsAreHonest`: `Spec => []RecordsHonest`, one record per message and
  "cancelled" only if the student stopped it. `RecInv` says that every copy of
  the list, the durable one and those in the hands of coroutines and requests,
  is sound, and backed by what its turns did (`ListsGood`); that a turn writes
  under its own id; and that while a turn is at work no question but its own is
  pending in any copy it holds (`AskedByHolder`, `AskedInPartial`). Premises:
  `"stale" \notin Ops`, `"late" \notin Ops` and `CleanStart`, that the
  transcripts an earlier process left have one record per message and no question
  of the previous release. These are the three ways to a second record: a text
  answer that is taken for a plain message resumes a question and appends one; a
  run that raises after its commit appends its error; and a question of the
  previous release is duplicated when a request lets go of it between the turn's
  read and its commit. Stops, deletes,
  edits, answers, the watchdog and the shutdown are all covered; `TurnLive`
  satisfies the premises.
* `NoLostUpdate`: `Spec => SettledRecordsStay`; `OneRecordEach`: `Spec =>
  []OneRecordPerMessage`, also with questions of the previous release. Both from
  `FreshInv`: what a writer read for its write is what is still there
  (`FreshTurn`, `FreshPartial`, `FreshCaller`), so that nothing is lost between.
  That is true where nobody lets go of a question behind a turn's back, the
  premise `NothingStale` (no cancel, delete or stale text answer; and no run that
  raises after its commit, as above): cancel and
  delete reach `_unpark_if_parked`, which writes back what it read before
  (`app/turns.py:1293`; `AnswerNotOverwritten` and `CancelAfterDoneIsNoOp` of
  section 4). `SoundStart` is `CleanStart` with such questions allowed.
  `TurnAnswer` satisfies both.
* `TakenOnce`: `Spec => []AnsweredOnce`, by counting: the continuations of a
  chat, with the one that the holder of the clarify claim owes, never outnumber
  the answered questions (`Accounted`). Without `"edit"` besides, since an edit
  may cut an answered question out of the history.

### Stream buffer

`StreamProof`, for any turns, readers, events, sizes and budget, under
`StreamAssumption`: `StreamTypes`, `StreamsSkipNothing`: `Spec =>
[]NothingSkipped`, `AccountsAreExact`: `Spec => []AccountingExact`. The
invariant is `BufferInv` (a buffer holds consecutive events from `base` on, with
their sizes while it is live), `ReaderInv` (a stream is behind what its turn
produced and has delivered without a hole since it attached, and an ended one is
through), `SlotInv` (a turn's consumer count is the number of its streams) and
`BudgetInv` (the total is the sum of the live buffers' sizes, and exceeds the
budget by no more than the newest event of each). The last needs facts about
sums over sets that change in one place and over sequences that lose a prefix;
they are the first section of the module.

### Facts pipeline

`FactsProof`, for any pollers, command lines, jobs, schools and faults. All
results start from `PlaceInv`: types, what a worker at each place holds, and that
a run's row is left for every claim.

* `FactsTypes`: `Spec => []TypeOK`. `SchoolsAttemptedOnce`: `Spec => OncePerRun`:
  the worker that crawls has the lock, and its list was read under it.
  `JobsFinishedByOwner`: `Spec => FinishedByOwner`, even where leases expire
  under their keepers. `SchoolsAreCounted`: `Spec => []CountsComplete` (`CountInv`:
  the school that is committed and not yet counted is the worker's at `bump`).
  These four have no premise.
* `CrawlsAreComplete`: `Spec => PassCovers`, about the step in which a crawl is
  recorded as succeeded: every school has been attempted then, or the worker
  that records it is a command line with `--limit`. `CoverInv`: what an unlimited
  crawl has left and what was attempted are all the schools. Limited crawls are
  among the behaviours, and what they leave open to a resumed pass is crawled.
  `OutcomesAreTold`: `Spec => []OutcomeTold` (`FailInv`: a failed page is
  remembered by the worker that will close the run), with the premise `NoLimit`
  (section 2). Premise of both is `NoRemap`: nobody runs a remap at the command
  line, since a remap may claim a queued crawl (section 4).
* `OpenRunsAreReachable`: `Spec => []OpenRunIsReachable` and
  `PassesClosedByTheirWorker`: `Spec => ClosedByItsWorker`, from `OwnInv`: no two
  workers are inside passes of one claim (`ClaimInv`), a poller in its pass still
  holds its claim under a valid, kept lease (`LeaseInv`), a job has one open run
  at most and its owner is in that one (`RunInv`), and the job of an open run is
  queued, running or was refused (`ReachInv`). Premise `"lease" \notin Faults`,
  that no lease expires while it is being renewed; the second also `Clis = {}`,
  since the command line has no renewal.

`FactsCrash` satisfies all of these premises.

### Account boundary

`AccountProof`, for any accounts and request slots, under `BoundaryAssumption`
(nobody and "not read yet" are not accounts, a session can be opened):

* `CacheStaysOwners`: `Spec => []CacheIsOwners`, `WritesNeverStray`: `Spec =>
  []WritesStayHome`, and `AccountTypes`: `Spec => []TypeOK`. The inductive
  invariant `IInv` adds to the types what every request under way is good for
  (`CallOK`): a read that is not cancelled was begun under the account
  displayed, a write that was sent expects the account whose ownership it
  captured, and the answer of a request is about the account it was sent for.
  Without it a late answer could be anybody's. Each way of changing the
  displayed account goes through `discardPrivateQueryData`, which cancels the
  reads; that step is a lemma, and so is each action.
* `DisplayStaysTrue`: `Spec => []DisplayIsTrue`. `ShownInv`: one read of the
  identity is under way at most; it asks about the cookie that the browser
  holds, and its answer is still true (`ReadIsTrue`); when there is none the
  screen is true (`ScreenIsTrue`). Between the service of a sign-out and its
  answer neither holds, and the answer restores them, in one of two ways. Either
  the screen is signed out; or another account has signed in meanwhile, whose
  cookie the answer takes: then the property allows a screen without a session
  (`taken`, until the identity is next asked for), and the theorem says that no
  other account is signed in behind it. That the session is lost is not what the code's
  comment says (`LateSignOutSpares`, section 4). `behind` is what no tab can see:
  sessions that begin or end outside it, and sign-outs whose answer was lost.

### Activities page

`ActivityProof`, for any rows, fields, mutations, visits and upsets, under
`ListAssumption` and `NoneAssumption` (the lack of a request, a read or a toast
is not one of them). The page's requests and queues are typed and related
first (`BaseInv`): for each row and visit, the edits whose requests are open are
those carried by the update under way and those waiting behind it, each once, and
there is no queue without an update (`QueueInv`); the toast refers to a deletion
that is under way or done (`UndoInv`).

* `NoEditIsStranded`: `Spec => []NoEditStranded`, from `BaseInv`.
* `WishesWin`: `Spec => []UndoWins`. `KeepInv`: of a row one deletion and one
  restoration at most are under way, the deletion knows whether it was undone,
  and the row is where the student wants it or on its way there.
* `LastEditsWin`: `Spec => []LastEditWins`. `EditInv`: the last edit of a field
  is in the queue; if not there, in the update under way; if not there, in the
  row.
* `PageConverges`: `Spec => []Converges`. `BusyInv` and `SeenInv`: unless an
  event is coming, what a read found is still what the server has, and when
  nothing is under way the list is that. Premise `NoneIsNoList`, that a list is
  not taken for the lack of one, which is true of an array and `undefined`, and
  which TLC cannot evaluate.

TLC checked the same four invariants in full on the instance of `Activities`
(1 715 682 states).

### Essay editor

`EssayProof`, for any texts, suggestions, keystrokes and faults, under
`EditorAssumption` (texts are numbers, the first is 0) and `NoneAssumption` (the
lack of a draft or of a read is not one, which is true of `null` and an object).

* `UnsavedStays`: `Spec => UnsavedStaysOnScreen`. `StoredInv`: what is cached,
  last saved, read, or answered is a text that the server has held; a page is
  dirty exactly while a draft is pending, which is then what it shows; and a page
  that is not dirty shows a text of the server's. Faults, keepalives and students
  who go back are included: there is no premise.
* `SavedIsSaved`: `Spec => []SavedMeansSaved`. `SavedInv` holds as long as the
  premises of the property do (`Regime`: mounted, no fault, no tab hidden with a
  pending draft, nobody went back to an earlier text). Then one save at most is
  under way (`OneSave`); of the drafts pending, on the timer, in flight and
  queued, only the last can be the newest, and without a pending draft the server
  has the newest (`Drafts`); a served save is what the server still has
  (`Answers`); a draft equal to the one last saved while another is under way is
  queued behind that (`Undone`), and with one keystroke there are two texts, so
  that undoing it is safe (`First`); a read under way is still true unless an
  event is coming (`ReadsTrue`). Neither `Undone` nor `First` was in the first
  attempt: the property is false of a second return to an earlier text
  (`SavedIsNewest`, section 4), and these two say why the first is no such case.

### Chat client

`ChatProof`, for any messages, promises, turns and faults, under
`ClientAssumption` (the bounds are numbers) and `NoneAssumption` (the lack of a
message, of an id or of a promise is not one).

* `ChatTypes`: `Spec => []TypeOK`, and `OneReaderOnly`: `Spec => []OneConsumer`,
  without a premise: lost answers, failed turns, drops, reloads, Retry and other tabs
  are included. `TypeInv` has `OneReader`: at most one promise that has not been
  aborted posts, streams or opens. `OneConsumer` speaks of those that post or
  stream; without the third, the answer to an attach would add a reader to one
  that began meanwhile. `Blank` says that a page without a transcript has nothing
  under way, so that the attach after the first hydrate is the only reader;
  `LiveOK` that who is live is such a promise; `CallOK` that it is within the
  events of a turn there is. The page is a record that the operations of the engine
  map to the next one, and each (`abort`, `runTurn`, `Fail`, `Terminal`,
  `Broken`, …) has a lemma that it keeps `Ready`.
* `HeardAtMostOnce`: `Spec => []HeardOnce`, if the student does not press Retry
  (`"retry" \notin Ops`, as in the run `ChatClient`). After a lost answer Retry
  posts what the server already has (`OneBubble`, section 4); lost requests
  themselves, drops, reloads and other tabs need no premise. `HeardInv` counts:
  how often a message was heard, and how often it is still owed, is at most how
  often it was asked for. It is owed by every promise that still carries it
  (`Carriers`), by the forward queue, which holds it once (`QueueOnce`), and by
  every steer of it in a turn that is open (`OpenSteers`): one that runs, or one
  that a promise still reads, whose terminal event may forward what the turn did
  not take in. The sum stays when a steer moves from the promise to the turn, from
  there to the queue and to a promise again, and falls when the turn takes it in.
  Two more parts make the move at the terminal event sound: a segment on the
  screen that is not injected is one that the events read so far show waiting
  (`SegsInv`), and a steer that the events show is among the turn's steers unless a
  later event shows it taken in (`TurnsInv`). A step of the page is `Lighter`
  (it owes no more) or `Gains` (one promise takes a message on).

### SAT practice

`SatProof`, for any questions and answers: `PressStoredOnce`: `SatSpec =>
[]NoDoubleAttempt` and `PageStaysTrue`: `SatSpec => []PageIsTrue`. `SeriesInv`
says that an attempt's id is made by the press that began its series, is used
for one question, and is what the binding holds as long as the series lasts;
`VerdictInv` that every verdict shown, read or on its way is that of a stored
attempt; `StarInv` that a star whose requests did not overlap has one request at
most, before whose service the server has the opposite.

### Only model-checked

* Liveness (`KeepsPromiseLive`, `CallsReturn`, `DrivenStreamEnds`, `JobsFinish`,
  `RetryPrevails`, `Unblocks`), which is outside the prover's reach.
* `RecordsDurable`: that what was announced as done is stored, and that settled
  records stay where there are stops, edits and deletes, in a chat that starts
  without a pending question.
* Of `ChatClient`: `NothingForgotten`, which says that what was asked was heard
  or waits, and holds only without lost requests, drops, reloads and other tabs and with as many
  turns as promises; `BubbleHasItsId`, which a lost request breaks too; and
  `ScreenMatches`, where a turn may end without its record and the list is left
  as it is by a read that brings nothing new. Each needs invariants about the
  whole list of bubbles.
* `TurnView`'s `ReloadAgrees`. It compares folds over
  sequences of any length; the induction that takes is possible through sets of
  numbers, as in `ActivityProof` (`SetInduction`), but has not been done.

## 7. Not modelled

Most of the client's files are presentational: components, styles, fixtures of
the development galleries, generated or hand-written types, configuration tables
and formatting. They keep no state that outlives a render, and there is nothing
in them to interleave; a model would repeat their text. The hooks and reducers
that keep state are a small part of the client's lines, which is why the map
covers a small share of them.

Within the modelled parts these are left out: of the chat client, answers to
questions, the path of an unavailable model (the other errors are there),
attachments and goal settings; the
byte framing of the event stream (`api/chat/sse.ts`), where a chunk boundary
inside a line end is a case of its own; of the editor, the title and the creation
of essays; of practice, eliminated choices, the timer and the highlighter. A
database clock that stands still or goes back is outside `EssayEditor`, whose
versions grow. Tasks and applications use the same optimistic hooks as
activities without the per-row queue, so `LastEditWins` says nothing of them.

## 8. Plan

Next, in this order:

1. `GoalLoop`: rounds, budgets, judge and stop reasons of a goal run
   (`domain/goal.py`, `app/goal_loop.py`): the budget is never exceeded by more
   than a round, every run ends with a reason that is true.
2. `FactsHistory`: the two-pass rule of `retire_absent_slugs` with its ceilings,
   the close-and-insert of `write_facts`, against an abstract history.
3. `RateLimit`: the sliding window of `api/ratelimit.py` and the pacing of
   `adapters/_ratelimit.py`.
4. The answers to questions in `ChatClient`; tasks beside `ActivityList`.

Proofs, in this order: `ChatClient` `NothingForgotten` and
`ScreenMatches`; `RecordsDurable`; `TurnView`, by induction on the number of
events.
