----------------------------- MODULE FactsJobs -----------------------------
(***************************************************************************)
(* The leased job queue of the facts crawl: the facts_jobs and crawl_runs  *)
(* rows (adapters/facts_jobs_store.py), the pollers that claim and run     *)
(* them (app/facts/jobs.py), the passes themselves (app/facts/crawl.py)    *)
(* and the command line, which shares both (app/facts/__main__.py).        *)
(*                                                                         *)
(* Several processes share one database.  An action is one statement or    *)
(* one transaction; between two of them any other process may act, a lease *)
(* may run out, and the process may die.  Time is abstracted: a lease is   *)
(* valid or expired, started_at is the number of the claim that set it,    *)
(* and the enqueue interval has elapsed or not.  What a pass writes for a  *)
(* school is abstracted to the fact that its six pages were attempted.     *)
(***************************************************************************)
EXTENDS Integers, FiniteSets, FiniteSetsExt

CONSTANTS
  Pollers,    \* server processes
  Clis,       \* invocations of python -m app.facts
  Kinds,      \* the kinds the command line is called with
  Limited,    \* the invocations that are given --limit
  Limit,      \* and how many schools it lets them crawl
  Schools,    \* the live crosswalk
  Faults,     \* what goes wrong: see FaultNames
  MaxJobs,    \* bound: facts_jobs rows
  MaxClaims,  \* bound: claims, and so crawl_runs rows
  MaxFaults,  \* bound: deaths and exceptions
  NoWorker

FaultNames == {"crash",   \* a process dies
               "stop",    \* a server shuts down in order
               "error",   \* a pass raises something it does not catch
               "lease"}   \* a lease expires although it is being renewed

ASSUME FactsAssumption ==
  /\ Pollers \cap Clis = {}
  /\ NoWorker \notin Pollers \cup Clis
  /\ Kinds \subseteq {"crawl_pass", "remap"}
  /\ Limited \subseteq Clis
  /\ Limit \in Nat
  /\ IsFiniteSet(Schools)
  /\ Faults \subseteq FaultNames
  /\ MaxJobs \in Nat
  /\ MaxClaims \in Nat
  /\ MaxFaults \in Nat

Workers == Pollers \cup Clis
Jobs == 1 .. MaxJobs
Runs == 1 .. MaxClaims

VARIABLES
  jobs,    \* the facts_jobs rows
  runs,    \* the crawl_runs rows
  lock,    \* the holder of the advisory lock
  due,     \* the last finished run is older than the enqueue interval
  claims,  \* how many claims were made: the clock of started_at
  faults,  \* how many deaths and exceptions there were
  wk       \* the workers

vars == <<jobs, runs, lock, due, claims, faults, wk>>

NoJob == [status |-> "none", kind |-> "none", started |-> 0, lease |-> "none",
          refused |-> FALSE]   \* error_code = pass_already_running

NoRun == [status |-> "none", job |-> 0,
          attempted |-> {},    \* schools attempted since started_at
          seen |-> 0,          \* schools_seen
          failed |-> FALSE,    \* pages_failed > 0
          mine |-> {}]         \* history: schools committed by this run's workers

Off == [pc |-> "off", kind |-> "none", job |-> 0, claim |-> 0, run |-> 0,
        pend |-> {}, out |-> "ok", fail |-> FALSE, keeper |-> FALSE]

InPass == {"open",       \* get_or_open_run looks for a run of the job
           "insert",     \* it found none and is about to insert one
           "lock",       \* about to try the advisory lock
           "contended",  \* did not get it
           "discover",   \* has it; discovery, then the list of schools
           "school",     \* between two schools
           "bump",       \* a school is committed, its counts are not
           "remap",      \* a remap pass, which takes no lock
           "unlock",     \* the pass is closed
           "crashed"}    \* an exception left the pass

WorkerStates == {"off", "sweep", "enqueue", "claim", "cli"} \cup InPass

Outcomes == {"ok", "page", "mapper", "rollback"}

Init ==
  /\ jobs = [j \in Jobs |-> NoJob]
  /\ runs = [r \in Runs |-> NoRun]
  /\ lock = NoWorker
  /\ due = TRUE
  /\ claims = 0
  /\ faults = 0
  /\ wk = [w \in Workers |-> Off]

(***************************************************************************)
(* facts_jobs_store.                                                       *)
(***************************************************************************)
Live(k) == \E j \in Jobs : /\ jobs[j].kind = k
                           /\ jobs[j].status \in {"queued", "running"}

Unused == {j \in Jobs : jobs[j].status = "none"}

\* One live job of a kind: the partial unique index and the NOT EXISTS.
CanInsert(k) == ~Live(k) /\ Unused # {}

\* The insert shared by enqueue_now and enqueue_daily_pass.
Insert(k) ==
  /\ CanInsert(k)
  /\ jobs' = [jobs EXCEPT ![Min(Unused)] =
                [NoJob EXCEPT !.status = "queued", !.kind = k]]

Queued == {j \in Jobs : jobs[j].status = "queued"}

\* Fault: nothing is swept.
SweptNothing(js) == js

\* Fault: the lease is not looked at.
SweptAnyway(js) ==
  [j \in Jobs |-> IF js[j].status = "running"
                  THEN [js[j] EXCEPT !.status = "queued", !.started = 0,
                                     !.lease = "none"]
                  ELSE js[j]]

\* sweep_expired_leases re-queues.
Swept(js) ==
  [j \in Jobs |-> IF js[j].status = "running" /\ js[j].lease = "expired"
                  THEN [js[j] EXCEPT !.status = "queued", !.started = 0,
                                     !.lease = "none"]
                  ELSE js[j]]

\* Fault: the completion is not fenced by the claim.
CompletedAnyClaim(js, j, claim, st) ==
  IF js[j].status = "running" THEN [js EXCEPT ![j].status = st] ELSE js

\* complete_job, a no-op for a claim that was superseded.
Completed(js, j, claim, st) ==
  IF js[j].status = "running" /\ js[j].started = claim
  THEN [js EXCEPT ![j].status = st] ELSE js

\* close_run, a no-op for a run that is closed.
Closed(rs, r, st) ==
  IF rs[r].status = "running" THEN [rs EXCEPT ![r].status = st] ELSE rs

\* Closing a run sets finished_at, from which the interval is counted.
Finished == due' = (due /\ runs' = runs)

OpenRuns(j) == {r \in Runs : runs[r].job = j /\ runs[r].status = "running"}

\* Fault: a school that was ever attempted is skipped.
PendingEver(r) == Schools \ UNION {runs[x].attempted : x \in Runs}

\* Fault: a resumed pass starts over.
PendingAll(r) == Schools

\* schools_pending_this_run.
Pending(r) == Schools \ runs[r].attempted

\* last_attempted_at is set on the school's pages, for whatever run looks; run
\* own is the one it is done for.
Attempt(s, own) ==
  [r \in Runs |-> IF runs[r].status = "none" THEN runs[r]
                  ELSE [runs[r] EXCEPT
                          !.attempted = @ \cup {s},
                          !.mine = IF r = own THEN @ \cup {s} ELSE @]]

(***************************************************************************)
(* The poll loop, and the command line up to its claim.                    *)
(***************************************************************************)
Goto(w, from, to) ==
  /\ wk[w].pc = from
  /\ wk' = [wk EXCEPT ![w].pc = to]

\* Poller.start, whose sweep is the loop's first one.
Boot(w) ==
  /\ w \in Pollers
  /\ Goto(w, "off", "sweep")
  /\ UNCHANGED <<jobs, runs, lock, due, claims, faults>>

Sweep(w) ==
  /\ Goto(w, "sweep", "enqueue")
  /\ jobs' = Swept(jobs)
  /\ UNCHANGED <<runs, lock, due, claims, faults>>

\* enqueue_daily_pass.
Enqueue(w) ==
  /\ Goto(w, "enqueue", "claim")
  /\ \/ due /\ Insert("crawl_pass")
     \/ ~(due /\ CanInsert("crawl_pass")) /\ UNCHANGED jobs
  /\ UNCHANGED <<runs, lock, due, claims, faults>>

\* The queue is empty: the loop starts over.
PollAgain(w) ==
  /\ Queued = {} \/ claims = MaxClaims
  /\ Goto(w, "claim", "sweep")
  /\ UNCHANGED <<jobs, runs, lock, due, claims, faults>>

\* claim_next_job takes the oldest queued job, whatever its kind.  A poller
\* runs it as what it is and renews its lease; the command line runs it as what
\* it was called for, and does not.
Claim(w) ==
  LET j == Min(Queued)
  IN  /\ wk[w].pc \in {"claim", "cli"}
      /\ Queued # {}
      /\ claims < MaxClaims
      /\ claims' = claims + 1
      /\ jobs' = [jobs EXCEPT ![j].status = "running", ![j].started = claims + 1,
                              ![j].lease = "valid"]
      /\ wk' = [wk EXCEPT ![w] =
                  [Off EXCEPT !.pc = "open",
                              !.kind = IF w \in Pollers THEN jobs[j].kind
                                       ELSE wk[w].kind,
                              !.job = j, !.claim = claims + 1,
                              !.keeper = w \in Pollers]]
      /\ UNCHANGED <<runs, lock, due, faults>>

\* The command line enqueues through the queue, or says "already running".
Cli(w, k) ==
  /\ w \in Clis
  /\ wk[w].pc = "off"
  /\ Insert(k)
  /\ wk' = [wk EXCEPT ![w] = [Off EXCEPT !.pc = "cli", !.kind = k]]
  /\ UNCHANGED <<runs, lock, due, claims, faults>>

\* Somebody else claimed it first.
CliBeaten(w) ==
  /\ wk[w].pc = "cli"
  /\ Queued = {} \/ claims = MaxClaims
  /\ wk' = [wk EXCEPT ![w] = Off]
  /\ UNCHANGED <<jobs, runs, lock, due, claims, faults>>

\* POST /v1/admin/facts/passes.
RunNow ==
  /\ Insert("crawl_pass")
  /\ UNCHANGED <<runs, lock, due, claims, faults, wk>>

(***************************************************************************)
(* One pass: run_crawl_pass, _run_crawl_pass_locked, run_remap_pass.       *)
(***************************************************************************)

\* The pass returned: a poller polls again, the command line exits.
Done(w) ==
  wk' = [wk EXCEPT ![w] = IF w \in Pollers THEN [Off EXCEPT !.pc = "sweep"] ELSE Off]

Opened(w, r) ==
  wk' = [wk EXCEPT ![w].run = r,
                   ![w].pc = IF wk[w].kind = "remap" THEN "remap" ELSE "lock"]

\* get_or_open_run: a run of this job that is still open is resumed ...
OpenRead(w) ==
  /\ wk[w].pc = "open"
  /\ \/ \E r \in OpenRuns(wk[w].job) : Opened(w, r)
     \/ OpenRuns(wk[w].job) = {} /\ wk' = [wk EXCEPT ![w].pc = "insert"]
  /\ UNCHANGED <<jobs, runs, lock, due, claims, faults>>

\* ... or, in a second statement, a new one is inserted.
OpenInsert(w) ==
  LET r == Min({x \in Runs : runs[x].status = "none"})
  IN  /\ wk[w].pc = "insert"
      /\ runs' = [runs EXCEPT ![r].status = "running", ![r].job = wk[w].job]
      /\ Opened(w, r)
      /\ UNCHANGED <<jobs, lock, due, claims, faults>>

\* pg_try_advisory_lock on a connection of its own.
TryLock(w) ==
  /\ wk[w].pc = "lock"
  /\ lock' = IF lock = NoWorker THEN w ELSE lock
  /\ wk' = [wk EXCEPT ![w].pc = IF lock = NoWorker THEN "discover" ELSE "contended"]
  /\ UNCHANGED <<jobs, runs, due, claims, faults>>

\* pass_already_running: the job is stamped, the run left to its worker.
Contended(w) ==
  LET j  == wk[w].job
      js == Completed(jobs, j, wk[w].claim, "error")
  IN  /\ wk[w].pc = "contended"
      /\ jobs' = [js EXCEPT ![j].refused = @ \/ js # jobs]
      /\ Done(w)
      /\ UNCHANGED <<runs, lock, due, claims, faults>>

\* pending[:limit]: the first schools of the list, in the store's order.
Slices(w, ps) ==
  IF w \in Limited
  THEN {few \in SUBSET ps : Cardinality(few) = Min({Limit, Cardinality(ps)})}
  ELSE {ps}

\* Discovery, then the list of schools, which is not read again; the command
\* line's --limit cuts it.
Discover(w) ==
  /\ wk[w].pc = "discover"
  /\ \E ps \in Slices(w, Pending(wk[w].run)) :
       wk' = [wk EXCEPT ![w].pc = "school", ![w].pend = ps]
  /\ UNCHANGED <<jobs, runs, lock, due, claims, faults>>

\* Fault: a page that failed does not make the pass partial.
SchoolPageForgiven(w, s, out) ==
  /\ wk[w].pc = "school"
  /\ s \in wk[w].pend
  /\ runs' = IF out = "rollback" THEN runs ELSE Attempt(s, wk[w].run)
  /\ wk' = [wk EXCEPT ![w].pc = "bump", ![w].pend = @ \ {s}, ![w].out = out,
                      ![w].fail = @ \/ out \in {"mapper", "rollback"}]
  /\ UNCHANGED <<jobs, lock, due, claims, faults>>

\* The six fetches and the school's transaction: every page is attempted, with
\* some failed ("page") or its facts not mapped ("mapper").  A database error
\* inside the mapper's try is caught as well, and the transaction, although it
\* goes on to its end, is rolled back.
School(w, s, out) ==
  /\ wk[w].pc = "school"
  /\ s \in wk[w].pend
  /\ runs' = IF out = "rollback" THEN runs ELSE Attempt(s, wk[w].run)
  /\ wk' = [wk EXCEPT ![w].pc = "bump", ![w].pend = @ \ {s}, ![w].out = out,
                      ![w].fail = @ \/ out # "ok"]
  /\ UNCHANGED <<jobs, lock, due, claims, faults>>

\* bump_run_counters, in a transaction of its own.
Bump(w) ==
  /\ wk[w].pc = "bump"
  /\ runs' = [runs EXCEPT ![wk[w].run].seen = @ + 1,
                          ![wk[w].run].failed = @ \/ wk[w].out = "page"]
  /\ wk' = [wk EXCEPT ![w].pc = "school", ![w].out = "ok"]
  /\ UNCHANGED <<jobs, lock, due, claims, faults>>

\* Only the failures this process saw count.
PassStatus(w) == IF wk[w].fail THEN "partial" ELSE "succeeded"

\* The end-of-pass transaction: the run is closed and the job completed.
ClosePass(w) ==
  /\ wk[w].pc = "school"
  /\ wk[w].pend = {}
  /\ runs' = Closed(runs, wk[w].run, PassStatus(w))
  /\ jobs' = Completed(jobs, wk[w].job, wk[w].claim, "done")
  /\ Finished
  /\ wk' = [wk EXCEPT ![w].pc = "unlock"]
  /\ UNCHANGED <<lock, claims, faults>>

\* A pass-fatal fetch error: _abort_pass, in one transaction.
AbortPass(w) ==
  /\ wk[w].pc \in {"discover", "school"}
  /\ wk[w].pc = "school" => wk[w].pend # {}
  /\ runs' = Closed(runs, wk[w].run, "aborted")
  /\ jobs' = Completed(jobs, wk[w].job, wk[w].claim, "error")
  /\ Finished
  /\ wk' = [wk EXCEPT ![w].pc = "unlock"]
  /\ UNCHANGED <<lock, claims, faults>>

Unlocked(w) == lock' = IF lock = w THEN NoWorker ELSE lock

Unlock(w) ==
  /\ wk[w].pc = "unlock"
  /\ Unlocked(w)
  /\ Done(w)
  /\ UNCHANGED <<jobs, runs, due, claims, faults>>

\* A remap: no lock, no pages; at its end the run and the job are closed.
Remap(w) ==
  /\ wk[w].pc = "remap"
  /\ runs' = Closed(runs, wk[w].run, "succeeded")
  /\ jobs' = Completed(jobs, wk[w].job, wk[w].claim, "done")
  /\ Finished
  /\ Done(w)
  /\ UNCHANGED <<lock, claims, faults>>

(***************************************************************************)
(* What can go wrong.                                                      *)
(***************************************************************************)
MayFail(f) ==
  /\ f \in Faults
  /\ faults < MaxFaults
  /\ faults' = faults + 1

\* An exception the pass does not know.  Its finally gives the lock back; the
\* poller goes on to mark_job_crashed, the command line exits.
Raise(w) ==
  /\ MayFail("error")
  /\ wk[w].pc \in InPass \ {"crashed", "unlock"}
  /\ Unlocked(w)
  /\ wk' = [wk EXCEPT ![w] = IF w \in Pollers THEN [@ EXCEPT !.pc = "crashed"] ELSE Off]
  /\ UNCHANGED <<jobs, runs, due, claims>>

\* The enqueue or the claim fails: the loop starts over.
PollFails(w) ==
  /\ MayFail("error")
  /\ wk[w].pc \in {"enqueue", "claim"}
  /\ wk' = [wk EXCEPT ![w].pc = "sweep"]
  /\ UNCHANGED <<jobs, runs, lock, due, claims>>

\* Fault: the run is left open.
MarkCrashedJobOnly(w) ==
  /\ wk[w].pc = "crashed"
  /\ jobs' = Completed(jobs, wk[w].job, wk[w].claim, "error")
  /\ Done(w)
  /\ UNCHANGED <<runs, lock, due, claims, faults>>

\* mark_job_crashed: if the claim still holds, the job's open run is closed and
\* the job completed, in one transaction.
MarkCrashed(w) ==
  LET j   == wk[w].job
      own == jobs[j].status = "running" /\ jobs[j].started = wk[w].claim
  IN  /\ wk[w].pc = "crashed"
      /\ jobs' = Completed(jobs, j, wk[w].claim, "error")
      /\ \/ \E r \in OpenRuns(j) : runs' = IF own THEN Closed(runs, r, "failed") ELSE runs
         \/ OpenRuns(j) = {} /\ UNCHANGED runs
      /\ Finished
      /\ Done(w)
      /\ UNCHANGED <<lock, claims, faults>>

\* Its transaction fails: logged, and the loop goes on.
MarkFails(w) ==
  /\ MayFail("error")
  /\ wk[w].pc = "crashed"
  /\ Done(w)
  /\ UNCHANGED <<jobs, runs, lock, due, claims>>

\* The process is gone, and with its connection the lock.
Gone(w) ==
  /\ wk[w].pc # "off"
  /\ wk' = [wk EXCEPT ![w] = Off]
  /\ Unlocked(w)
  /\ UNCHANGED <<jobs, runs, due, claims>>

Crash(w) == MayFail("crash") /\ Gone(w)

\* Poller.stop cancels the loop, which awaits the run: the run is cancelled
\* with it, and except Exception does not see a CancelledError.
Stop(w) == w \in Pollers /\ MayFail("stop") /\ Gone(w)

\* _renew_lease: by job id only; the keeper gives up when the job does not run.
Renew(w) ==
  LET j == wk[w].job
  IN  /\ wk[w].keeper
      /\ IF jobs[j].status = "running"
         THEN jobs' = [jobs EXCEPT ![j].lease = "valid"] /\ UNCHANGED wk
         ELSE wk' = [wk EXCEPT ![w].keeper = FALSE] /\ UNCHANGED jobs
      /\ UNCHANGED <<runs, lock, due, claims, faults>>

\* Somebody keeps the lease of job j: a renewing poller, or a worker that has
\* just claimed it.
Kept(j) ==
  \E w \in Workers :
    /\ wk[w].job = j
    /\ wk[w].claim = jobs[j].started
    /\ wk[w].keeper \/ wk[w].pc \in {"open", "insert"}

Expire(j) ==
  /\ jobs[j].status = "running"
  /\ jobs[j].lease = "valid"
  /\ Kept(j) => "lease" \in Faults
  /\ jobs' = [jobs EXCEPT ![j].lease = "expired"]
  /\ UNCHANGED <<runs, lock, due, claims, faults, wk>>

\* facts_crawl_interval_hours have passed.
DayPasses ==
  /\ due' = TRUE
  /\ ~due
  /\ UNCHANGED <<jobs, runs, lock, claims, faults, wk>>

PassStep(w) ==
  \/ OpenRead(w) \/ OpenInsert(w) \/ TryLock(w) \/ Contended(w) \/ Discover(w)
  \/ \E s \in Schools, out \in Outcomes : School(w, s, out)
  \/ Bump(w) \/ ClosePass(w) \/ AbortPass(w) \/ Unlock(w) \/ Remap(w)
  \/ MarkCrashed(w)

PollStep(w) ==
  \/ Boot(w) \/ Sweep(w) \/ Enqueue(w) \/ PollAgain(w) \/ Claim(w) \/ CliBeaten(w)

FaultStep(w) == Raise(w) \/ PollFails(w) \/ MarkFails(w) \/ Crash(w) \/ Stop(w)

Next ==
  \/ RunNow \/ DayPasses
  \/ \E j \in Jobs : Expire(j)
  \/ \E w \in Workers : PollStep(w) \/ PassStep(w) \/ FaultStep(w) \/ Renew(w)
  \/ \E w \in Clis, k \in Kinds : Cli(w, k)

\* A process that is up goes on, a server that is down is restarted by its
\* platform, and a lease nobody keeps runs out.
Fairness ==
  /\ \A w \in Workers : WF_vars(PollStep(w) \/ PassStep(w))
  /\ \A j \in Jobs : WF_vars(Expire(j))

Spec == Init /\ [][Next]_vars

FairSpec == Spec /\ Fairness

(***************************************************************************)
(* Correctness.                                                            *)
(***************************************************************************)

\* Every variable holds a value of its kind, and a queued job carries neither
\* a claim nor a lease (sweep_expired_leases, claim_next_job).
TypeOK ==
  /\ jobs \in [Jobs -> [status : {"none", "queued", "running", "done", "error"},
                        kind : {"none", "crawl_pass", "remap"},
                        started : 0 .. MaxClaims,
                        lease : {"none", "valid", "expired"},
                        refused : BOOLEAN]]
  /\ \A j \in Jobs : jobs[j].status = "queued" =>
                       jobs[j].started = 0 /\ jobs[j].lease = "none"
  /\ runs \in [Runs -> [status : {"none", "running", "succeeded", "partial",
                                  "failed", "aborted"},
                        job : 0 .. MaxJobs, attempted : SUBSET Schools,
                        seen : Nat, failed : BOOLEAN, mine : SUBSET Schools]]
  /\ lock \in Workers \cup {NoWorker}
  /\ due \in BOOLEAN
  /\ claims \in 0 .. MaxClaims
  /\ faults \in 0 .. MaxFaults
  /\ wk \in [Workers -> [pc : WorkerStates, kind : {"none", "crawl_pass", "remap"},
                         job : 0 .. MaxJobs, claim : 0 .. MaxClaims,
                         run : 0 .. MaxClaims, pend : SUBSET Schools,
                         out : Outcomes, fail : BOOLEAN, keeper : BOOLEAN]]

\* A worker is inside the pass it opened run r for.
Works(w, r) == wk[w].pc \in InPass \ {"unlock", "contended"} /\ wk[w].run = r

\* No run stays open for nobody: its job will be claimed again, or a worker is
\* still inside it, whatever died or raised in between; jobs refused because a
\* pass was running apart, see RefusedRunHasOwner (sweep_expired_leases,
\* get_or_open_run, mark_job_crashed).
OpenRunIsReachable ==
  \A r \in Runs : runs[r].status = "running" =>
    \/ jobs[runs[r].job].status \in {"queued", "running"}
    \/ jobs[runs[r].job].refused
    \/ \E w \in Workers : Works(w, r)

\* A pass that a worker is in the middle of is closed by that worker and by no
\* other (close_run, get_or_open_run, mark_job_crashed).
ClosedByItsWorker ==
  [][\A r \in Runs : runs[r].status = "running" /\ runs'[r].status # "running" =>
       \A w \in Workers :
         wk[w].pc \in {"discover", "school", "bump"} /\ wk[w].run = r =>
           wk'[w].pc # wk[w].pc]_vars

\* The run of a crawl job is recorded as succeeded.
Crawled(r) ==
  runs[r].status = "succeeded" /\ jobs[runs[r].job].kind = "crawl_pass"

\* A crawl is recorded as succeeded only once every school was attempted since
\* its run began, however many processes it took, unless an invocation with
\* --limit closes it: that one records what it was let crawl as a success like
\* any other (schools_pending_this_run, _run_crawl_pass_locked).
PassCovers ==
  [][\A r \in Runs :
       (/\ runs[r].status # "succeeded" /\ runs'[r].status = "succeeded"
        /\ jobs[runs[r].job].kind = "crawl_pass")
         => \/ runs[r].attempted = Schools
            \/ \E w \in Limited : /\ wk[w].run = r /\ wk[w].pc = "school"
                                  /\ wk'[w].pc = "unlock"]_vars

\* Resume, not restart: no school is attempted twice for one run (the advisory
\* lock, and the list of schools that is read under it).
OncePerRun ==
  [][\A w \in Workers : wk[w].pc = "school" /\ wk'[w].pc = "bump" =>
       \A s \in wk[w].pend \ wk'[w].pend : s \notin runs[wk[w].run].attempted]_vars

\* A job is finished by the worker that holds its claim, once: a worker whose
\* lease was swept can neither finish it nor stamp it again (complete_job).
FinishedByOwner ==
  [][\A j \in Jobs : jobs'[j].status # jobs[j].status =>
       /\ jobs[j].status \notin {"done", "error"}
       /\ jobs'[j].status \in {"done", "error"} =>
            \E w \in Workers : /\ wk[w].job = j
                               /\ wk[w].claim = jobs[j].started
                               /\ wk'[w].pc # wk[w].pc]_vars

\* A school that was committed for a run is counted on it: each death or error
\* between the school's transaction and the counters' loses the count of one
\* school at most, and a resumed pass none (bump_run_counters).
CountsComplete ==
  \A r \in Runs :
    (\A w \in Workers : wk[w].run = r => wk[w].pc # "bump")
      => runs[r].seen + faults >= Cardinality(runs[r].mine)

\* As long as nothing died or raised in between, a crawl whose row counts a
\* failed page is never recorded as succeeded, whichever worker closes it
\* (_run_crawl_pass_locked's status); where no crawl is given a --limit.
FailuresTold == faults = 0 => \A r \in Runs : Crawled(r) => ~runs[r].failed

\* What became of the schools of a pass is told: every one is counted, and a
\* failure is not recorded as a success (bump_run_counters, finish_run).
OutcomeTold == CountsComplete /\ FailuresTold

\* Every job that was enqueued is finished, although the process that runs it
\* may die at any point (sweep_expired_leases, Poller._loop).
JobsFinish ==
  \A j \in Jobs :
    jobs[j].status \in {"queued", "running"} ~> jobs[j].status \in {"done", "error"}

(***************************************************************************)
(* What the repository says of this code and the code does not do.         *)
(***************************************************************************)

\* app/facts/jobs.py:64: an orderly shutdown never leaves a running row.
RunningHasWorker ==
  \A j \in Jobs : jobs[j].status = "running" =>
    \E w \in Workers : wk[w].pc \in InPass /\ wk[w].job = j

\* app/facts/crawl.py:498: a worker that is refused the lock leaves the run to
\* the worker that still owns it and will close it.
RefusedRunHasOwner ==
  \A r \in Runs : runs[r].status = "running" /\ jobs[runs[r].job].refused =>
    \E w \in Workers : Works(w, r)

\* adapters/facts_jobs_store.py:155: a renewal fails once the row is no longer
\* running under this worker.  A lease is only pushed forward by the worker
\* whose claim it is.
RenewedByOwner ==
  [][\A j \in Jobs : jobs[j].lease = "expired" /\ jobs'[j].lease = "valid" =>
       \E w \in Workers : wk[w].keeper /\ wk[w].job = j
                          /\ wk[w].claim = jobs[j].started]_vars
=============================================================================
