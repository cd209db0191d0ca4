----------------------------- MODULE FactsProof -----------------------------
(***************************************************************************)
(* The facts crawl's job queue, for any number of processes, schools, jobs, *)
(* claims and deaths.                                                      *)
(***************************************************************************)
EXTENDS FactsJobs, FiniteSetsExt, SequencesExt, TLAPS,
        FiniteSetTheorems, SequenceTheorems, WellFoundedInduction

\* A set of naturals that is not empty has a least element.
LEMMA LeastNumber ==
  ASSUME NEW S, S \subseteq Nat, S # {}
  PROVE  \E x \in S : \A y \in S : x <= y
<1> DEFINE R == {p \in Nat \X Nat : p[1] < p[2]}
<1>1. IsWellFoundedOn(R, Nat)
  BY NatLessThanWellFounded DEF OpToRel
<1> HIDE DEF R
<1>2. PICK x \in S : \A y \in S : ~(<<y, x>> \in R)
  BY <1>1, WFMin
<1>3. ASSUME NEW y \in S, y < x
      PROVE  FALSE
  <2>1. <<y, x>> \in R
    BY <1>3 DEF R
  <2> QED
    BY <1>2, <2>1
<1> QED
  BY <1>3

\* The community modules' Min of such a set is that element.
LEMMA MinOfNaturals ==
  ASSUME NEW S, S \subseteq Nat, S # {}
  PROVE  Min(S) \in S /\ \A y \in S : Min(S) <= y
BY LeastNumber, Zenon DEF Min

\* Where a worker has a run, and where it has the advisory lock.
WithRun == {"lock", "contended", "discover", "school", "bump", "remap", "unlock"}
Locked == {"discover", "school", "bump", "unlock"}
Crawling == {"school", "bump"}

\* A worker inside a pass knows its job and claim; the run it works on is one
\* of that job; what it does to schools it does under the lock, and no school
\* on its list was attempted for the run.
WorkerOK(w) ==
  /\ wk[w].pc \in InPass => wk[w].job \in Jobs /\ wk[w].claim \in 1 .. claims
  /\ wk[w].pc \in WithRun => /\ wk[w].run \in Runs
                             /\ runs[wk[w].run].status # "none"
                             /\ runs[wk[w].run].job = wk[w].job
  /\ wk[w].pc \in Locked => lock = w
  /\ wk[w].pc \in Crawling => wk[w].pend \cap runs[wk[w].run].attempted = {}

Used == {r \in Runs : runs[r].status # "none"}
Openers == {w \in Workers : wk[w].pc \in {"open", "insert"}}

\* Every claim opens one run at most, so there is a row left to insert.
RoomInv ==
  /\ IsFiniteSet(Openers)
  /\ Cardinality(Used) + Cardinality(Openers) <= claims

\* A row not inserted yet is empty.
EmptyInv ==
  \A r \in Runs : runs[r].status = "none" => runs[r] = NoRun

PlaceInv ==
  /\ TypeOK
  /\ \A w \in Workers : WorkerOK(w)
  /\ RoomInv
  /\ EmptyInv
  /\ \A j \in Jobs : jobs[j].started <= claims

\* A worker holds the claim of its job.
Owns(w) ==
  /\ jobs[wk[w].job].status = "running"
  /\ jobs[wk[w].job].started = wk[w].claim

ClaimInv ==
  \A v, w \in Workers :
    wk[v].pc \in InPass /\ wk[w].pc \in InPass /\ wk[v].claim = wk[w].claim => v = w

\* Where a worker cannot have lost its lease.
Leased(w) ==
  \/ wk[w].pc \in {"open", "insert"}
  \/ w \in Pollers /\ wk[w].pc \in InPass \ {"unlock"}

LeaseInv ==
  \A w \in Workers : Leased(w) =>
    /\ Owns(w) /\ jobs[wk[w].job].lease = "valid"
    /\ w \in Pollers => wk[w].keeper

RunInv ==
  /\ \A r, x \in Runs :
       runs[r].status = "running" /\ runs[x].status = "running" /\ runs[r].job = runs[x].job
         => r = x
  /\ \A w \in Workers, r \in Runs :
       runs[r].status = "running" /\ runs[r].job = wk[w].job =>
         /\ wk[w].pc # "insert"
         /\ wk[w].pc \in WithRun /\ Owns(w) => wk[w].run = r

ReachInv ==
  \A r \in Runs : runs[r].status = "running" =>
    /\ runs[r].job \in Jobs
    /\ \/ jobs[runs[r].job].status \in {"queued", "running"}
       \/ jobs[runs[r].job].refused

\* A school of run r is committed and not counted yet.
InBump(r) == \E w \in Workers : wk[w].pc = "bump" /\ wk[w].run = r
CountInv ==
  \A r \in Runs :
    Cardinality(runs[r].mine) <= runs[r].seen + faults + (IF InBump(r) THEN 1 ELSE 0)

NoRemapInv ==
  /\ \A w \in Workers : wk[w].kind # "remap" /\ wk[w].pc # "remap"
  /\ \A j \in Jobs : jobs[j].kind # "remap"

\* Nothing is left out by a worker that is given no --limit; where nobody is, by
\* no success.
CoverInv ==
  /\ \A w \in Workers \ Limited : wk[w].pc \in Crawling /\ ~wk[w].fail =>
       Schools \subseteq wk[w].pend \cup runs[wk[w].run].attempted
  /\ Limited = {} =>
       \A r \in Runs : runs[r].status = "succeeded" => runs[r].attempted = Schools

FailInv ==
  faults = 0 =>
  /\ \A w \in Workers : /\ wk[w].pc # "crashed"
                        /\ wk[w].pc = "bump" /\ wk[w].out = "page" => wk[w].fail
                        /\ wk[w].pc = "bump" => runs[wk[w].run].status # "succeeded"
  /\ \A r \in Runs : runs[r].failed =>
       /\ runs[r].status # "succeeded"
       /\ runs[r].status = "running" =>
            \E w \in Workers : wk[w].pc \in Crawling /\ wk[w].run = r /\ wk[w].fail

(***************************************************************************)
(* Types.                                                                  *)
(***************************************************************************)
JobRows == [status : {"none", "queued", "running", "done", "error"},
            kind : {"none", "crawl_pass", "remap"},
            started : 0 .. MaxClaims,
            lease : {"none", "valid", "expired"},
            refused : BOOLEAN]
RunRows == [status : {"none", "running", "succeeded", "partial", "failed", "aborted"},
            job : 0 .. MaxJobs, attempted : SUBSET Schools,
            seen : Nat, failed : BOOLEAN, mine : SUBSET Schools]
WorkerRecords == [pc : WorkerStates, kind : {"none", "crawl_pass", "remap"},
                  job : 0 .. MaxJobs, claim : 0 .. MaxClaims,
                  run : 0 .. MaxClaims, pend : SUBSET Schools,
                  out : Outcomes, fail : BOOLEAN, keeper : BOOLEAN]

\* A queued job carries neither a claim nor a lease.
QueuedBare == \A j \in Jobs : jobs[j].status = "queued" =>
                                jobs[j].started = 0 /\ jobs[j].lease = "none"

\* The type invariant, variable by variable.
LEMMA Typed ==
  TypeOK <=> /\ jobs \in [Jobs -> JobRows]
             /\ QueuedBare
             /\ runs \in [Runs -> RunRows]
             /\ lock \in Workers \cup {NoWorker}
             /\ due \in BOOLEAN
             /\ claims \in 0 .. MaxClaims
             /\ faults \in 0 .. MaxFaults
             /\ wk \in [Workers -> WorkerRecords]
BY DEF TypeOK, JobRows, RunRows, WorkerRecords, QueuedBare

\* The empty rows and the idle worker are of their kinds.
LEMMA RowTypes ==
  /\ NoJob \in JobRows
  /\ NoRun \in RunRows
  /\ Off \in WorkerRecords
BY FactsAssumption DEF NoJob, NoRun, Off, JobRows, RunRows, WorkerRecords, WorkerStates, InPass, Outcomes

\* Nothing of another worker changes: not its record, not its lock, not its
\* run; and the attempts on a run change only under the lock.
Frame(w) ==
  /\ \A v \in Workers : v # w => wk'[v] = wk[v]
  /\ \A v \in Workers : v # w /\ lock = v => lock' = v
  /\ claims <= claims'
  /\ \A r \in Runs : runs[r].status # "none" =>
                        runs'[r].status # "none" /\ runs'[r].job = runs[r].job
  /\ lock = w \/ \A r \in Runs : runs'[r].attempted = runs[r].attempted

\* A step of one worker leaves the places of the others right.
LEMMA OthersStay ==
  ASSUME PlaceInv, NEW w \in Workers, Frame(w), WorkerOK(w)', claims' \in Nat
  PROVE  \A v \in Workers : WorkerOK(v)'
<1> SUFFICES ASSUME NEW v \in Workers, v # w PROVE WorkerOK(v)'
  OBVIOUS
<1>1. wk'[v] = wk[v] /\ WorkerOK(v) /\ claims \in Nat /\ wk[v].claim \in Nat
  BY FactsAssumption, Typed DEF Frame, PlaceInv, WorkerRecords
<1> QED
  BY <1>1, FactsAssumption DEF Frame, WorkerOK, Locked, Crawling, WithRun

(***************************************************************************)
(* Workers know their places.                                              *)
(***************************************************************************)

\* There are as many rows for runs as claims may be made.
LEMMA RunsFinite ==
  IsFiniteSet(Runs) /\ Cardinality(Runs) = MaxClaims
<1>1. 1 \in Int /\ MaxClaims \in Int /\ MaxClaims \in Nat
  BY FactsAssumption
<1>2. /\ IsFiniteSet(1 .. MaxClaims)
      /\ Cardinality(1 .. MaxClaims) = IF 1 > MaxClaims THEN 0 ELSE (MaxClaims - 1) + 1
  BY <1>1, FS_Interval
<1> QED
  BY <1>1, <1>2 DEF Runs

\* No job gets a claim that was not made.
JobsCarry ==
  /\ jobs' \in [Jobs -> JobRows]
  /\ QueuedBare'
  /\ \A j \in Jobs : jobs'[j].started \in {jobs[j].started, 0}

\* No row is inserted.
RunsCarry ==
  /\ runs' \in [Runs -> RunRows]
  /\ \A r \in Runs : /\ runs'[r].job = runs[r].job
                     /\ runs[r].status = "none" <=> runs'[r].status = "none"
                     /\ runs[r].status = "none" => runs'[r] = runs[r]

\* The worker w takes a step that claims no job, and opens no run it was not
\* about to open; it may only give back a lock that is its own.
Moves(w) ==
  /\ wk' \in [Workers -> WorkerRecords]
  /\ \A v \in Workers : v # w => wk'[v] = wk[v]
  /\ wk'[w].pc \in {"open", "insert"} => wk[w].pc \in {"open", "insert"}
  /\ lock' \in Workers \cup {NoWorker}
  /\ \A v \in Workers : v # w /\ lock = v => lock' = v
  /\ due' \in BOOLEAN
  /\ claims' = claims
  /\ faults' \in 0 .. MaxFaults
  /\ lock = w \/ \A r \in Runs : runs'[r].attempted = runs[r].attempted

\* A step that moves one worker preserves PlaceInv if its own place is right.
LEMMA StepPlaces ==
  ASSUME PlaceInv, NEW w \in Workers, JobsCarry, RunsCarry, Moves(w), WorkerOK(w)'
  PROVE  PlaceInv'
<1>0. claims \in 0 .. MaxClaims /\ claims \in Nat /\ MaxClaims \in Nat /\ jobs \in [Jobs -> JobRows]
  BY Typed, FactsAssumption DEF PlaceInv, TypeOK, JobRows
<1>t. TypeOK'
  BY <1>0 DEF TypeOK, JobsCarry, RunsCarry, Moves, JobRows, RunRows, WorkerRecords, QueuedBare
<1>f. Frame(w)
  BY <1>0 DEF Frame, Moves, RunsCarry
<1>1. \A v \in Workers : WorkerOK(v)'
  BY <1>0, <1>f, OthersStay DEF Moves
<1>2. Openers' \subseteq Openers
  BY DEF Openers, Moves
<1>3. Used' = Used
  BY DEF Used, RunsCarry
<1>4. IsFiniteSet(Openers') /\ Cardinality(Openers') <= Cardinality(Openers)
      /\ Cardinality(Openers) \in Nat /\ Cardinality(Openers') \in Nat
  BY <1>2, FS_Subset, FS_CardinalityType DEF PlaceInv, RoomInv
<1>5. IsFiniteSet(Used) /\ Cardinality(Used) \in Nat
  <2>1. Used \subseteq Runs
    BY DEF Used
  <2> QED
    BY <2>1, RunsFinite, FS_Subset, FS_CardinalityType
<1>6. RoomInv'
  BY <1>0, <1>3, <1>4, <1>5 DEF PlaceInv, RoomInv, Moves
<1>7. EmptyInv'
  BY DEF PlaceInv, EmptyInv, RunsCarry
<1>8. \A j \in Jobs : jobs'[j].started <= claims'
  BY <1>0 DEF PlaceInv, JobsCarry, Moves, JobRows
<1> QED
  BY <1>t, <1>1, <1>6, <1>7, <1>8 DEF PlaceInv

\* Jobs that do not change carry over.
LEMMA JobsSame ==
  ASSUME TypeOK, jobs' = jobs PROVE JobsCarry
BY Typed DEF JobsCarry, QueuedBare

\* Runs that do not change carry over.
LEMMA RunsSame ==
  ASSUME TypeOK, runs' = runs PROVE RunsCarry
BY Typed DEF RunsCarry

\* complete_job changes a status and nothing else.
LEMMA CompletedTyped ==
  ASSUME TypeOK, NEW j, NEW c, NEW st \in {"done", "error"}, NEW js, js = Completed(jobs, j, c, st)
  PROVE  /\ js \in [Jobs -> JobRows]
         /\ \A x \in Jobs : js[x].started = jobs[x].started
                            /\ js[x].lease = jobs[x].lease
                            /\ js[x].status \in {jobs[x].status, st}
<1>1. jobs \in [Jobs -> JobRows]
  BY Typed
<1>2. js \in [Jobs -> JobRows]
  BY <1>1 DEF Completed, JobRows
<1>3. \A x \in Jobs : js[x].started = jobs[x].started
                     /\ js[x].lease = jobs[x].lease
                     /\ js[x].status \in {jobs[x].status, st}
  BY <1>1 DEF Completed, JobRows
<1> QED
  BY <1>2, <1>3

\* complete_job gives no claim.
LEMMA CompletedCarry ==
  ASSUME TypeOK, NEW j, NEW c, NEW st \in {"done", "error"},
         jobs' = Completed(jobs, j, c, st)
  PROVE  JobsCarry
<1>1. jobs \in [Jobs -> JobRows] /\ QueuedBare
  BY Typed
<1> QED
  BY <1>1, CompletedTyped DEF JobsCarry, QueuedBare

\* sweep_expired_leases takes claims and gives none.
LEMMA SweptCarry ==
  ASSUME TypeOK, jobs' = Swept(jobs) PROVE JobsCarry
<1>1. jobs \in [Jobs -> JobRows] /\ QueuedBare
  BY Typed
<1>2. jobs' \in [Jobs -> JobRows]
  <2>1. \A x \in Jobs : [jobs[x] EXCEPT !.status = "queued", !.started = 0,
                                          !.lease = "none"] \in JobRows
    <3>1. 0 \in 0 .. MaxClaims
      BY FactsAssumption
    <3> QED
      BY <1>1, <3>1 DEF JobRows
  <2> QED
    BY <1>1, <2>1 DEF Swept
<1>3. \A x \in Jobs : \/ jobs'[x] = jobs[x]
                      \/ jobs'[x].started = 0 /\ jobs'[x].lease = "none"
  BY <1>1 DEF Swept, JobRows
<1> QED
  BY <1>1, <1>2, <1>3 DEF JobsCarry, QueuedBare

\* close_run changes a status and nothing else.
LEMMA ClosedCarry ==
  ASSUME TypeOK, NEW r, NEW st \in {"succeeded", "partial", "failed", "aborted"},
         runs' = Closed(runs, r, st)
  PROVE  RunsCarry /\ \A x \in Runs : runs'[x].attempted = runs[x].attempted
<1>1. runs \in [Runs -> RunRows]
  BY Typed
<1>2. runs' \in [Runs -> RunRows]
  BY <1>1 DEF Closed, RunRows
<1>3. \A x \in Runs : /\ runs'[x].attempted = runs[x].attempted
                      /\ runs'[x].job = runs[x].job
                      /\ \/ runs'[x] = runs[x]
                         \/ runs[x].status = "running" /\ runs'[x].status = st
  BY <1>1 DEF Closed, RunRows
<1> QED
  BY <1>1, <1>2, <1>3 DEF RunsCarry

\* Only the worker w moves.
Only(w) ==
  /\ wk' \in [Workers -> WorkerRecords]
  /\ \A v \in Workers : v # w => wk'[v] = wk[v]

\* It goes on to the place to with all it knows.
Walks(w, to) ==
  /\ Only(w)
  /\ wk'[w].pc = to /\ wk'[w].kind = wk[w].kind /\ wk'[w].job = wk[w].job
  /\ wk'[w].claim = wk[w].claim /\ wk'[w].run = wk[w].run /\ wk'[w].pend = wk[w].pend
  /\ wk'[w].out = wk[w].out /\ wk'[w].fail = wk[w].fail /\ wk'[w].keeper = wk[w].keeper

\* It is through with its pass.
Rests(w) ==
  /\ Only(w)
  /\ wk'[w].pc \in {"off", "sweep"} /\ wk'[w].kind = "none" /\ wk'[w].keeper = FALSE

\* A worker that only changes its place keeps all it knows.
LEMMA GotoWalks ==
  ASSUME TypeOK, NEW w \in Workers, NEW to \in WorkerStates,
         wk' = [wk EXCEPT ![w].pc = to]
  PROVE  Walks(w, to)
BY Typed DEF Walks, Only, WorkerRecords

\* A worker whose record is replaced moves alone.
LEMMA SetOnly ==
  ASSUME TypeOK, NEW w \in Workers, NEW n \in WorkerRecords, wk' = [wk EXCEPT ![w] = n]
  PROVE  Only(w) /\ wk'[w] = n
BY Typed DEF Only

\* A worker that is switched off rests.
LEMMA OffRests ==
  ASSUME TypeOK, NEW w \in Workers, wk' = [wk EXCEPT ![w] = Off]
  PROVE  Rests(w)
<1>1. Only(w) /\ wk'[w] = Off
  BY RowTypes, SetOnly
<1> QED
  BY <1>1 DEF Rests, Off

\* A worker whose pass returned rests.
LEMMA DoneRests ==
  ASSUME TypeOK, NEW w \in Workers, Done(w)
  PROVE  Rests(w)
<1> DEFINE n == IF w \in Pollers THEN [Off EXCEPT !.pc = "sweep"] ELSE Off
<1>1. n \in WorkerRecords /\ n.pc \in {"sweep", "off"} /\ n.kind = "none" /\ n.keeper = FALSE
  BY RowTypes DEF WorkerRecords, Off, WorkerStates
<1> QED
  BY <1>1, SetOnly DEF Done, Rests

\* A step that leaves the runs alone.
LEMMA PollPlaces ==
  ASSUME PlaceInv, NEW w \in Workers, Only(w), wk'[w].pc \notin InPass,
         JobsCarry, UNCHANGED <<runs, due, claims>>, faults' \in 0 .. MaxFaults,
         lock' = lock \/ Unlocked(w)
  PROVE  PlaceInv'
<1>1. TypeOK /\ RunsCarry
  BY RunsSame DEF PlaceInv
<1>2. Moves(w)
  BY <1>1 DEF TypeOK, Moves, Only, Unlocked, InPass
<1>3. WorkerOK(w)'
  BY DEF WorkerOK, WithRun, Locked, Crawling, InPass
<1> QED
  BY <1>1, <1>2, <1>3, StepPlaces

\* Every fault is counted, within its bound.
LEMMA FailureCounts ==
  ASSUME TypeOK, NEW f, MayFail(f)
  PROVE  faults' \in 0 .. MaxFaults /\ faults' > 0 /\ faults' = faults + 1
BY Typed, FactsAssumption DEF MayFail

\* Boot leaves every worker in its place.
LEMMA BootPlaces ==
  ASSUME PlaceInv, NEW w \in Workers, Boot(w)
  PROVE  PlaceInv'
<1>1. TypeOK /\ JobsCarry /\ faults' \in 0 .. MaxFaults
  BY JobsSame, Typed DEF PlaceInv, Boot
<1>2. Walks(w, "sweep")
  BY <1>1, GotoWalks DEF Boot, Goto, WorkerStates
<1> QED
  BY <1>1, <1>2, PollPlaces DEF Boot, InPass, Walks

\* Sweep leaves every worker in its place.
LEMMA SweepPlaces ==
  ASSUME PlaceInv, NEW w \in Workers, Sweep(w)
  PROVE  PlaceInv'
<1>1. TypeOK /\ JobsCarry /\ faults' \in 0 .. MaxFaults
  BY SweptCarry, Typed DEF PlaceInv, Sweep
<1>2. Walks(w, "enqueue")
  BY <1>1, GotoWalks DEF Sweep, Goto, WorkerStates
<1> QED
  BY <1>1, <1>2, PollPlaces DEF Sweep, InPass, Walks

\* A job that is enqueued has no claim.
LEMMA InsertCarry ==
  ASSUME TypeOK, NEW k \in {"crawl_pass", "remap"}, Insert(k)
  PROVE  JobsCarry
<1> DEFINE n == Min(Unused)
           row == [NoJob EXCEPT !.status = "queued", !.kind = k]
<1>1. jobs \in [Jobs -> JobRows] /\ QueuedBare
  BY Typed
<1>2. row \in JobRows /\ row.started = 0 /\ row.lease = "none"
  BY RowTypes DEF JobRows, NoJob
<1>3. jobs' = [jobs EXCEPT ![n] = row]
  BY DEF Insert
<1> HIDE DEF n, row
<1> QED
  BY <1>1, <1>2, <1>3 DEF JobsCarry, QueuedBare

\* Enqueue leaves every worker in its place.
LEMMA EnqueuePlaces ==
  ASSUME PlaceInv, NEW w \in Workers, Enqueue(w)
  PROVE  PlaceInv'
<1>1. TypeOK /\ faults' \in 0 .. MaxFaults
  BY Typed DEF PlaceInv, Enqueue
<1>2. JobsCarry
  BY <1>1, JobsSame, InsertCarry DEF Enqueue
<1>3. Walks(w, "claim")
  BY <1>1, GotoWalks DEF Enqueue, Goto, WorkerStates
<1> QED
  BY <1>1, <1>2, <1>3, PollPlaces DEF Enqueue, InPass, Walks

\* PollAgain leaves every worker in its place.
LEMMA PollAgainPlaces ==
  ASSUME PlaceInv, NEW w \in Workers, PollAgain(w)
  PROVE  PlaceInv'
<1>1. TypeOK /\ JobsCarry /\ faults' \in 0 .. MaxFaults
  BY JobsSame, Typed DEF PlaceInv, PollAgain
<1>2. Walks(w, "sweep")
  BY <1>1, GotoWalks DEF PollAgain, Goto, WorkerStates
<1> QED
  BY <1>1, <1>2, PollPlaces DEF PollAgain, InPass, Walks

\* CliBeaten leaves every worker in its place.
LEMMA CliBeatenPlaces ==
  ASSUME PlaceInv, NEW w \in Workers, CliBeaten(w)
  PROVE  PlaceInv'
<1>1. TypeOK /\ JobsCarry /\ faults' \in 0 .. MaxFaults
  BY JobsSame, Typed DEF PlaceInv, CliBeaten
<1>2. Rests(w)
  BY <1>1, OffRests DEF CliBeaten
<1> QED
  BY <1>1, <1>2, PollPlaces DEF CliBeaten, InPass, Rests

\* Cli leaves every worker in its place.
LEMMA CliPlaces ==
  ASSUME PlaceInv, NEW w \in Workers, NEW k \in Kinds, Cli(w, k)
  PROVE  PlaceInv'
<1> DEFINE n == [Off EXCEPT !.pc = "cli", !.kind = k]
<1>0. k \in {"crawl_pass", "remap"}
  BY FactsAssumption
<1>1. TypeOK /\ JobsCarry /\ faults' \in 0 .. MaxFaults
  BY <1>0, InsertCarry, Typed DEF PlaceInv, Cli
<1>2. n \in WorkerRecords /\ n.pc = "cli"
  BY <1>0, RowTypes DEF WorkerRecords, Off, WorkerStates
<1>3. Only(w) /\ wk'[w].pc = "cli"
  BY <1>1, <1>2, SetOnly DEF Cli
<1> QED
  BY <1>1, <1>3, PollPlaces DEF Cli, InPass

\* PollFails leaves every worker in its place.
LEMMA PollFailsPlaces ==
  ASSUME PlaceInv, NEW w \in Workers, PollFails(w)
  PROVE  PlaceInv'
<1>1. TypeOK /\ JobsCarry /\ faults' \in 0 .. MaxFaults
  BY JobsSame, FailureCounts DEF PlaceInv, PollFails
<1>2. Walks(w, "sweep")
  BY <1>1, GotoWalks DEF PollFails, WorkerStates
<1> QED
  BY <1>1, <1>2, PollPlaces DEF PollFails, InPass, Walks

\* MarkFails leaves every worker in its place.
LEMMA MarkFailsPlaces ==
  ASSUME PlaceInv, NEW w \in Workers, MarkFails(w)
  PROVE  PlaceInv'
<1>1. TypeOK /\ JobsCarry /\ faults' \in 0 .. MaxFaults
  BY JobsSame, FailureCounts DEF PlaceInv, MarkFails
<1>2. Rests(w)
  BY <1>1, DoneRests DEF MarkFails
<1> QED
  BY <1>1, <1>2, PollPlaces DEF MarkFails, InPass, Rests

\* Gone leaves every worker in its place.
LEMMA GonePlaces ==
  ASSUME PlaceInv, NEW w \in Workers, NEW f, MayFail(f), Gone(w)
  PROVE  PlaceInv'
<1>1. TypeOK /\ JobsCarry /\ faults' \in 0 .. MaxFaults
  BY JobsSame, FailureCounts DEF PlaceInv, Gone
<1>2. Rests(w)
  BY <1>1, OffRests DEF Gone
<1> QED
  BY <1>1, <1>2, PollPlaces DEF Gone, InPass, Rests

\* Unlock leaves every worker in its place.
LEMMA UnlockPlaces ==
  ASSUME PlaceInv, NEW w \in Workers, Unlock(w)
  PROVE  PlaceInv'
<1>1. TypeOK /\ JobsCarry /\ faults' \in 0 .. MaxFaults
  BY JobsSame, Typed DEF PlaceInv, Unlock
<1>2. Rests(w)
  BY <1>1, DoneRests DEF Unlock
<1> QED
  BY <1>1, <1>2, PollPlaces DEF Unlock, InPass, Rests

\* Contended leaves every worker in its place.
LEMMA ContendedPlaces ==
  ASSUME PlaceInv, NEW w \in Workers, Contended(w)
  PROVE  PlaceInv'
<1> DEFINE j == wk[w].job
           js == Completed(jobs, j, wk[w].claim, "error")
<1>1. TypeOK /\ faults' \in 0 .. MaxFaults /\ jobs \in [Jobs -> JobRows] /\ QueuedBare
  BY Typed DEF PlaceInv, Contended
<1>2. jobs' = [js EXCEPT ![j].refused = @ \/ js # jobs]
  BY DEF Contended
<1>3. js \in [Jobs -> JobRows]
  BY <1>1, CompletedTyped
<1>4. \A x \in Jobs : js[x].started = jobs[x].started /\ js[x].lease = jobs[x].lease
                      /\ js[x].status \in {jobs[x].status, "error"}
  BY <1>1, CompletedTyped
<1> HIDE DEF js, j
<1>5. jobs' \in [Jobs -> JobRows]
  BY <1>2, <1>3 DEF JobRows
<1>6. \A x \in Jobs : jobs'[x].started = js[x].started /\ jobs'[x].lease = js[x].lease
                      /\ jobs'[x].status = js[x].status
  BY <1>2, <1>3 DEF JobRows
<1>7. JobsCarry
  BY <1>1, <1>4, <1>5, <1>6 DEF JobsCarry, QueuedBare
<1>8. Rests(w)
  BY <1>1, DoneRests DEF Contended
<1> QED
  BY <1>1, <1>7, <1>8, PollPlaces DEF Contended, InPass, Rests

\* A step inside the pass, which keeps its job, its claim and its run.
LEMMA PassPlaces ==
  ASSUME PlaceInv, NEW w \in Workers, NEW to, Walks(w, to), wk[w].pc \in InPass,
         to \in {"crashed", "unlock"},
         to = "unlock" => wk[w].pc \in WithRun /\ wk[w].pc \in Locked,
         JobsCarry, RunsCarry, \A r \in Runs : runs'[r].attempted = runs[r].attempted,
         due' \in BOOLEAN, claims' = claims, faults' \in 0 .. MaxFaults,
         lock' = lock \/ (to = "crashed" /\ Unlocked(w))
  PROVE  PlaceInv'
<1>1. TypeOK
  BY DEF PlaceInv
<1>2. Moves(w)
  BY <1>1 DEF TypeOK, Moves, Walks, Only, Unlocked
<1>3. WorkerOK(w)'
  BY <1>1 DEF PlaceInv, WorkerOK, Walks, WithRun, Locked, Crawling, RunsCarry
<1> QED
  BY <1>1, <1>2, <1>3, StepPlaces

\* The interval's flag stays a flag.
LEMMA FinishedTyped ==
  ASSUME TypeOK, Finished PROVE due' \in BOOLEAN
BY Typed DEF Finished

\* ClosePass leaves every worker in its place.
LEMMA ClosePassPlaces ==
  ASSUME PlaceInv, NEW w \in Workers, ClosePass(w)
  PROVE  PlaceInv'
<1>1. TypeOK /\ faults' \in 0 .. MaxFaults
  BY Typed DEF PlaceInv, ClosePass
<1>2. JobsCarry
  BY <1>1, CompletedCarry DEF ClosePass
<1>3. RunsCarry /\ \A r \in Runs : runs'[r].attempted = runs[r].attempted
  <2>1. PassStatus(w) \in {"succeeded", "partial", "failed", "aborted"}
    BY DEF PassStatus
  <2> QED
    BY <1>1, <2>1, ClosedCarry DEF ClosePass
<1>4. Walks(w, "unlock")
  BY <1>1, GotoWalks DEF ClosePass, WorkerStates, InPass
<1> QED
  BY <1>1, <1>2, <1>3, <1>4, PassPlaces, FinishedTyped DEF ClosePass, InPass, WithRun, Locked

\* AbortPass leaves every worker in its place.
LEMMA AbortPassPlaces ==
  ASSUME PlaceInv, NEW w \in Workers, AbortPass(w)
  PROVE  PlaceInv'
<1>1. TypeOK /\ faults' \in 0 .. MaxFaults
  BY Typed DEF PlaceInv, AbortPass
<1>2. JobsCarry
  BY <1>1, CompletedCarry DEF AbortPass
<1>3. RunsCarry /\ \A r \in Runs : runs'[r].attempted = runs[r].attempted
  BY <1>1, ClosedCarry DEF AbortPass
<1>4. Walks(w, "unlock")
  BY <1>1, GotoWalks DEF AbortPass, WorkerStates, InPass
<1> QED
  BY <1>1, <1>2, <1>3, <1>4, PassPlaces, FinishedTyped DEF AbortPass, InPass, WithRun, Locked

\* The end of a pass that is also the end of the worker's job.
LEMMA EndPlaces ==
  ASSUME PlaceInv, NEW w \in Workers, Rests(w), JobsCarry, RunsCarry,
         \A r \in Runs : runs'[r].attempted = runs[r].attempted,
         due' \in BOOLEAN, UNCHANGED <<lock, claims, faults>>
  PROVE  PlaceInv'
<1>1. TypeOK
  BY DEF PlaceInv
<1>2. Moves(w)
  BY <1>1 DEF TypeOK, Moves, Rests, Only
<1>3. WorkerOK(w)'
  BY DEF WorkerOK, Rests, WithRun, Locked, Crawling, InPass
<1> QED
  BY <1>1, <1>2, <1>3, StepPlaces

\* Remap leaves every worker in its place.
LEMMA RemapPlaces ==
  ASSUME PlaceInv, NEW w \in Workers, Remap(w)
  PROVE  PlaceInv'
<1>1. TypeOK
  BY DEF PlaceInv
<1>2. JobsCarry
  BY <1>1, CompletedCarry DEF Remap
<1>3. RunsCarry /\ \A r \in Runs : runs'[r].attempted = runs[r].attempted
  BY <1>1, ClosedCarry DEF Remap
<1> QED
  BY <1>1, <1>2, <1>3, EndPlaces, FinishedTyped, DoneRests DEF Remap

\* MarkCrashed leaves every worker in its place.
LEMMA MarkCrashedPlaces ==
  ASSUME PlaceInv, NEW w \in Workers, MarkCrashed(w)
  PROVE  PlaceInv'
<1>1. TypeOK
  BY DEF PlaceInv
<1>2. JobsCarry
  BY <1>1, CompletedCarry DEF MarkCrashed
<1>3. RunsCarry /\ \A r \in Runs : runs'[r].attempted = runs[r].attempted
  <2>1. \/ UNCHANGED runs
        \/ \E r : runs' = Closed(runs, r, "failed")
    BY DEF MarkCrashed
  <2> QED
    BY <1>1, <2>1, ClosedCarry, RunsSame
<1> QED
  BY <1>1, <1>2, <1>3, EndPlaces, FinishedTyped, DoneRests DEF MarkCrashed

\* Raise leaves every worker in its place.
LEMMA RaisePlaces ==
  ASSUME PlaceInv, NEW w \in Workers, Raise(w)
  PROVE  PlaceInv'
<1>1. TypeOK /\ JobsCarry /\ RunsCarry /\ faults' \in 0 .. MaxFaults /\ due' \in BOOLEAN
  BY JobsSame, RunsSame, FailureCounts, Typed DEF PlaceInv, Raise
<1>2. CASE w \in Pollers
  <2>1. wk' = [wk EXCEPT ![w].pc = "crashed"]
    BY <1>1, <1>2, Typed DEF Raise
  <2>2. Walks(w, "crashed")
    BY <1>1, <2>1, GotoWalks DEF WorkerStates, InPass
  <2> QED
    BY <1>1, <2>2, PassPlaces DEF Raise
<1>3. CASE w \notin Pollers
  <2>1. Rests(w)
    BY <1>1, <1>3, OffRests DEF Raise
  <2> QED
    BY <1>1, <2>1, PollPlaces DEF Raise, Rests, InPass
<1> QED
  BY <1>2, <1>3

\* Renew leaves every worker in its place.
LEMMA RenewPlaces ==
  ASSUME PlaceInv, NEW w \in Workers, Renew(w)
  PROVE  PlaceInv'
<1>1. TypeOK /\ RunsCarry /\ WorkerOK(w)
  BY RunsSame DEF PlaceInv, Renew
<1>2. jobs \in [Jobs -> JobRows] /\ QueuedBare /\ wk \in [Workers -> WorkerRecords]
  BY <1>1, Typed
<1>3. JobsCarry
  <2>1. CASE jobs[wk[w].job].status = "running"
    <3>1. jobs' = [jobs EXCEPT ![wk[w].job].lease = "valid"]
      BY <2>1 DEF Renew
    <3>2. jobs' \in [Jobs -> JobRows]
      BY <1>2, <3>1 DEF JobRows
    <3>3. \A x \in Jobs : /\ jobs'[x].status = jobs[x].status
                          /\ jobs'[x].started = jobs[x].started
                          /\ x # wk[w].job => jobs'[x].lease = jobs[x].lease
      BY <1>2, <3>1 DEF JobRows
    <3> QED
      BY <1>2, <2>1, <3>2, <3>3 DEF JobsCarry, QueuedBare
  <2>2. CASE jobs[wk[w].job].status # "running"
    BY <1>1, <2>2, JobsSame DEF Renew
  <2> QED
    BY <2>1, <2>2
<1>4. Only(w) /\ wk'[w].pc = wk[w].pc /\ wk'[w].job = wk[w].job /\ wk'[w].run = wk[w].run
      /\ wk'[w].claim = wk[w].claim /\ wk'[w].pend = wk[w].pend
  <2>1. wk' = wk \/ wk' = [wk EXCEPT ![w].keeper = FALSE]
    BY DEF Renew
  <2>2. CASE wk' = wk
    BY <1>2, <2>2 DEF Only
  <2>3. CASE wk' = [wk EXCEPT ![w].keeper = FALSE]
    BY <1>2, <2>3 DEF Only, WorkerRecords
  <2> QED
    BY <2>1, <2>2, <2>3
<1>5. Moves(w)
  BY <1>1, <1>4 DEF TypeOK, Moves, Only, Renew
<1>6. WorkerOK(w)'
  BY <1>1, <1>4 DEF WorkerOK, Renew
<1> QED
  BY <1>1, <1>3, <1>5, <1>6, StepPlaces

\* What a worker knows once it has its run.
LEMMA OpenedDoes ==
  ASSUME TypeOK, NEW w \in Workers, NEW r \in Runs, Opened(w, r)
  PROVE  /\ Only(w) /\ wk'[w].run = r
         /\ wk'[w].pc = (IF wk[w].kind = "remap" THEN "remap" ELSE "lock")
         /\ wk'[w].job = wk[w].job /\ wk'[w].claim = wk[w].claim
         /\ wk'[w].kind = wk[w].kind /\ wk'[w].keeper = wk[w].keeper
<1> DEFINE to == IF wk[w].kind = "remap" THEN "remap" ELSE "lock"
<1>1. wk \in [Workers -> WorkerRecords] /\ to \in WorkerStates /\ r \in 0 .. MaxClaims
  BY Typed, FactsAssumption DEF WorkerStates, InPass, Runs
<1>2. wk' = [wk EXCEPT ![w].run = r, ![w].pc = to]
  BY DEF Opened
<1> HIDE DEF to
<1>3. Only(w) /\ wk'[w].run = r /\ wk'[w].pc = to
  BY <1>1, <1>2 DEF Only, WorkerRecords
<1>4. /\ wk'[w].job = wk[w].job /\ wk'[w].claim = wk[w].claim
      /\ wk'[w].kind = wk[w].kind /\ wk'[w].keeper = wk[w].keeper
  BY <1>1, <1>2 DEF WorkerRecords
<1> QED
  BY <1>3, <1>4 DEF to

\* OpenRead leaves every worker in its place.
LEMMA OpenReadPlaces ==
  ASSUME PlaceInv, NEW w \in Workers, OpenRead(w)
  PROVE  PlaceInv'
<1>1. TypeOK /\ RunsCarry /\ JobsCarry /\ WorkerOK(w)
  BY RunsSame, JobsSame DEF PlaceInv, OpenRead
<1>2. wk \in [Workers -> WorkerRecords]
  BY <1>1, Typed
<1>3. CASE \E r \in OpenRuns(wk[w].job) : Opened(w, r)
  <2>1. PICK r \in OpenRuns(wk[w].job) : Opened(w, r)
    BY <1>3
  <2>2. r \in Runs /\ r \in 0 .. MaxClaims /\ runs[r].job = wk[w].job /\ runs[r].status = "running"
    BY <2>1, FactsAssumption DEF OpenRuns, Runs
  <2>3. Only(w) /\ wk'[w].pc \in {"remap", "lock"} /\ wk'[w].run = r
        /\ wk'[w].job = wk[w].job /\ wk'[w].claim = wk[w].claim
    BY <1>1, <2>1, <2>2, OpenedDoes
  <2>4. Moves(w)
    BY <1>1, <2>3 DEF TypeOK, Moves, Only, OpenRead
  <2>5. WorkerOK(w)'
    BY <1>1, <2>2, <2>3 DEF WorkerOK, OpenRead, WithRun, Locked, Crawling, InPass
  <2> QED
    BY <1>1, <2>4, <2>5, StepPlaces
<1>4. CASE wk' = [wk EXCEPT ![w].pc = "insert"]
  <2>1. Walks(w, "insert")
    BY <1>1, <1>4, GotoWalks DEF WorkerStates, InPass
  <2>2. Moves(w)
    BY <1>1, <2>1 DEF TypeOK, Moves, Only, OpenRead, Walks
  <2>3. WorkerOK(w)'
    BY <1>1, <2>1 DEF WorkerOK, OpenRead, Walks, WithRun, Locked, Crawling, InPass
  <2> QED
    BY <1>1, <2>2, <2>3, StepPlaces
<1> QED
  BY <1>3, <1>4 DEF OpenRead

\* TryLock leaves every worker in its place.
LEMMA TryLockPlaces ==
  ASSUME PlaceInv, NEW w \in Workers, TryLock(w)
  PROVE  PlaceInv'
<1> DEFINE to == IF lock = NoWorker THEN "discover" ELSE "contended"
<1>1. TypeOK /\ RunsCarry /\ JobsCarry /\ WorkerOK(w) /\ NoWorker \notin Workers
  BY RunsSame, JobsSame, FactsAssumption DEF PlaceInv, TryLock, Workers
<1>2. Walks(w, to)
  BY <1>1, GotoWalks DEF TryLock, WorkerStates, InPass
<1>3. Moves(w)
  BY <1>1, <1>2 DEF TypeOK, Moves, Only, TryLock, Walks
<1>4. WorkerOK(w)'
  BY <1>1, <1>2 DEF WorkerOK, TryLock, Walks, WithRun, Locked, Crawling, InPass
<1> QED
  BY <1>1, <1>3, <1>4, StepPlaces

\* What a worker knows once it has the list of schools.
LEMMA DiscoverDoes ==
  ASSUME TypeOK, NEW w \in Workers, Discover(w)
  PROVE  /\ Only(w) /\ wk'[w].pc = "school"
         /\ wk'[w].pend \subseteq Pending(wk[w].run)
         /\ w \notin Limited => wk'[w].pend = Pending(wk[w].run)
         /\ wk'[w].run = wk[w].run /\ wk'[w].job = wk[w].job
         /\ wk'[w].claim = wk[w].claim /\ wk'[w].kind = wk[w].kind
         /\ wk'[w].fail = wk[w].fail /\ wk'[w].keeper = wk[w].keeper
<1>1. wk \in [Workers -> WorkerRecords] /\ Pending(wk[w].run) \in SUBSET Schools
  BY Typed DEF Pending
<1>2. PICK p \in Slices(w, Pending(wk[w].run)) :
        wk' = [wk EXCEPT ![w].pc = "school", ![w].pend = p]
  BY DEF Discover
<1>3. /\ p \in SUBSET Schools /\ p \subseteq Pending(wk[w].run)
      /\ w \notin Limited => p = Pending(wk[w].run)
  BY <1>1 DEF Slices
<1>4. "school" \in WorkerStates
  BY DEF WorkerStates, InPass
<1>5. Only(w) /\ wk'[w].pc = "school" /\ wk'[w].pend = p
  BY <1>1, <1>2, <1>3, <1>4 DEF Only, WorkerRecords
<1>6. /\ wk'[w].run = wk[w].run /\ wk'[w].job = wk[w].job
      /\ wk'[w].claim = wk[w].claim /\ wk'[w].kind = wk[w].kind
      /\ wk'[w].fail = wk[w].fail /\ wk'[w].keeper = wk[w].keeper
  BY <1>1, <1>2, <1>3 DEF WorkerRecords
<1> QED
  BY <1>3, <1>5, <1>6

\* Discover leaves every worker in its place.
LEMMA DiscoverPlaces ==
  ASSUME PlaceInv, NEW w \in Workers, Discover(w)
  PROVE  PlaceInv'
<1>1. TypeOK /\ RunsCarry /\ JobsCarry /\ WorkerOK(w)
  BY RunsSame, JobsSame DEF PlaceInv, Discover
<1>2. Only(w) /\ wk'[w].pc = "school" /\ wk'[w].pend \subseteq Pending(wk[w].run)
      /\ wk'[w].run = wk[w].run /\ wk'[w].job = wk[w].job /\ wk'[w].claim = wk[w].claim
  BY <1>1, DiscoverDoes
<1>3. Moves(w)
  BY <1>1, <1>2 DEF TypeOK, Moves, Only, Discover
<1>4. WorkerOK(w)'
  BY <1>1, <1>2 DEF WorkerOK, Discover, WithRun, Locked, Crawling, InPass, Pending
<1> QED
  BY <1>1, <1>3, <1>4, StepPlaces

\* What a school's transaction, and its counters', do to the runs.
Attempted(s, own) ==
  /\ runs' \in [Runs -> RunRows]
  /\ \A r \in Runs :
       /\ runs'[r].status = runs[r].status /\ runs'[r].job = runs[r].job
       /\ runs'[r].seen = runs[r].seen /\ runs'[r].failed = runs[r].failed
       /\ runs[r].status = "none" => runs'[r] = runs[r]
       /\ runs[r].status # "none" => runs'[r].attempted = runs[r].attempted \cup {s}
       /\ runs'[r].mine = IF runs[r].status # "none" /\ r = own
                          THEN runs[r].mine \cup {s} ELSE runs[r].mine

\* A school's transaction marks the school on every run that was inserted.
LEMMA AttemptDoes ==
  ASSUME TypeOK, NEW s \in Schools, NEW own, runs' = Attempt(s, own)
  PROVE  Attempted(s, own)
<1>1. runs \in [Runs -> RunRows]
  BY Typed
<1>2. \A r \in Runs : runs[r].status # "none" =>
        runs'[r] = [runs[r] EXCEPT !.attempted = runs[r].attempted \cup {s},
                      !.mine = IF r = own THEN runs[r].mine \cup {s} ELSE runs[r].mine]
  BY DEF Attempt
<1>3. \A r \in Runs : runs[r].status = "none" => runs'[r] = runs[r]
  BY DEF Attempt
<1>4. \A r \in Runs : runs'[r] \in RunRows
  <2> SUFFICES ASSUME NEW r \in Runs, runs[r].status # "none" PROVE runs'[r] \in RunRows
    BY <1>1, <1>3
  <2> DEFINE m == IF r = own THEN runs[r].mine \cup {s} ELSE runs[r].mine
  <2> DEFINE a == runs[r].attempted \cup {s}
  <2>0. runs[r] \in RunRows /\ a \in SUBSET Schools
    BY <1>1 DEF RunRows
  <2>1. m \in SUBSET Schools
    BY <1>1 DEF RunRows
  <2>2. runs'[r] = [runs[r] EXCEPT !.attempted = a, !.mine = m]
    BY <1>2
  <2> HIDE DEF m, a
  <2> QED
    BY <2>0, <2>1, <2>2 DEF RunRows
<1>5. runs' \in [Runs -> RunRows]
  BY <1>4 DEF Attempt
<1> QED
  BY <1>1, <1>2, <1>3, <1>5 DEF Attempted, RunRows

Schooled(w, s, out) ==
  /\ Only(w) /\ wk'[w].pc = "bump" /\ wk'[w].pend = wk[w].pend \ {s}
  /\ wk'[w].out = out /\ wk'[w].fail = (wk[w].fail \/ out # "ok")
  /\ wk'[w].run = wk[w].run /\ wk'[w].job = wk[w].job
  /\ wk'[w].claim = wk[w].claim /\ wk'[w].kind = wk[w].kind
  /\ wk'[w].keeper = wk[w].keeper

\* What the step of one school does to the worker and to the runs.
LEMMA SchoolDoes ==
  ASSUME TypeOK, NEW w \in Workers, NEW s \in Schools, NEW out \in Outcomes, School(w, s, out)
  PROVE  /\ Schooled(w, s, out)
         /\ out = "rollback" => runs' = runs
         /\ out # "rollback" => Attempted(s, wk[w].run)
<1>1. wk \in [Workers -> WorkerRecords] /\ "bump" \in WorkerStates
  BY Typed DEF WorkerStates, InPass
<1> DEFINE n == [wk[w] EXCEPT !.pc = "bump", !.pend = wk[w].pend \ {s}, !.out = out,
                              !.fail = wk[w].fail \/ out # "ok"]
<1>2. wk' = [wk EXCEPT ![w] = n]
  BY <1>1 DEF School
<1>3. n \in WorkerRecords
  BY <1>1 DEF WorkerRecords
<1>4. Only(w) /\ wk'[w] = n
  BY <1>2, <1>3, SetOnly
<1>5. /\ n.pc = "bump" /\ n.pend = wk[w].pend \ {s} /\ n.out = out
      /\ n.fail = (wk[w].fail \/ out # "ok") /\ n.run = wk[w].run /\ n.job = wk[w].job
      /\ n.claim = wk[w].claim /\ n.kind = wk[w].kind /\ n.keeper = wk[w].keeper
  BY <1>1 DEF WorkerRecords
<1>6. Schooled(w, s, out)
  BY <1>4, <1>5 DEF Schooled
<1> QED
  BY <1>6, AttemptDoes DEF School

\* School leaves every worker in its place.
LEMMA SchoolPlaces ==
  ASSUME PlaceInv, NEW w \in Workers, NEW s \in Schools, NEW out \in Outcomes, School(w, s, out)
  PROVE  PlaceInv'
<1>1. TypeOK /\ JobsCarry /\ WorkerOK(w) /\ wk[w].pc = "school"
  BY JobsSame DEF PlaceInv, School
<1>2. Schooled(w, s, out)
  BY <1>1, SchoolDoes
<1>3. lock = w /\ wk[w].run \in Runs /\ runs[wk[w].run].status # "none"
  BY <1>1 DEF WorkerOK, Locked, WithRun
<1>4. RunsCarry /\ \/ runs' = runs
                   \/ Attempted(s, wk[w].run)
  BY <1>1, SchoolDoes, RunsSame DEF RunsCarry, Attempted
<1>5. Moves(w)
  BY <1>1, <1>2, <1>3 DEF TypeOK, Moves, Only, School, Schooled
<1>6. WorkerOK(w)'
  <2>1. /\ wk'[w].job \in Jobs /\ wk'[w].claim \in 1 .. claims' /\ lock' = w
        /\ wk'[w].run \in Runs /\ runs'[wk'[w].run].status # "none"
        /\ runs'[wk'[w].run].job = wk'[w].job
    BY <1>1, <1>2, <1>3, <1>4 DEF WorkerOK, School, Schooled, WithRun, InPass, RunsCarry
  <2>2. wk'[w].pend \cap runs'[wk'[w].run].attempted = {}
    <3>1. wk[w].pend \cap runs[wk[w].run].attempted = {} /\ wk'[w].pend = wk[w].pend \ {s}
          /\ wk'[w].run = wk[w].run
      BY <1>1, <1>2 DEF WorkerOK, Crawling, Schooled
    <3>2. runs'[wk[w].run].attempted \subseteq runs[wk[w].run].attempted \cup {s}
      BY <1>3, <1>4 DEF Attempted
    <3> QED
      BY <3>1, <3>2
  <2> QED
    BY <2>1, <2>2 DEF WorkerOK
<1> QED
  BY <1>1, <1>4, <1>5, <1>6, StepPlaces

Bumped(w) ==
  /\ runs' \in [Runs -> RunRows]
  /\ \A r \in Runs :
       /\ runs'[r].status = runs[r].status /\ runs'[r].job = runs[r].job
       /\ runs'[r].attempted = runs[r].attempted /\ runs'[r].mine = runs[r].mine
       /\ r # wk[w].run => runs'[r] = runs[r]
  /\ wk[w].run \in Runs =>
       /\ runs'[wk[w].run].seen = runs[wk[w].run].seen + 1
       /\ runs'[wk[w].run].failed = (runs[wk[w].run].failed \/ wk[w].out = "page")
  /\ Only(w) /\ wk'[w].pc = "school" /\ wk'[w].pend = wk[w].pend
  /\ wk'[w].fail = wk[w].fail
  /\ wk'[w].run = wk[w].run /\ wk'[w].job = wk[w].job
  /\ wk'[w].claim = wk[w].claim /\ wk'[w].kind = wk[w].kind
  /\ wk'[w].keeper = wk[w].keeper

\* What the counters' transaction does to the worker and to the runs.
LEMMA BumpDoes ==
  ASSUME TypeOK, NEW w \in Workers, Bump(w)
  PROVE  Bumped(w)
<1>1. wk \in [Workers -> WorkerRecords] /\ "school" \in WorkerStates /\ "ok" \in Outcomes
      /\ runs \in [Runs -> RunRows]
  BY Typed DEF WorkerStates, InPass, Outcomes
<1> DEFINE n == [wk[w] EXCEPT !.pc = "school", !.out = "ok"]
           own == wk[w].run
           page == wk[w].out = "page"
           m == [runs[own] EXCEPT !.seen = runs[own].seen + 1,
                                  !.failed = runs[own].failed \/ page]
<1>2. wk' = [wk EXCEPT ![w] = n] /\ runs' = [runs EXCEPT ![own] = m]
  BY <1>1 DEF Bump
<1>3. n \in WorkerRecords
  BY <1>1 DEF WorkerRecords
<1>4. Only(w) /\ wk'[w] = n
  BY <1>2, <1>3, SetOnly
<1>5. /\ n.pc = "school" /\ n.pend = wk[w].pend
      /\ n.fail = wk[w].fail /\ n.run = wk[w].run /\ n.job = wk[w].job
      /\ n.claim = wk[w].claim /\ n.kind = wk[w].kind /\ n.keeper = wk[w].keeper
  BY <1>1 DEF WorkerRecords
<1>p. page \in BOOLEAN
  OBVIOUS
<1>6. own \in Runs => /\ m \in RunRows
                      /\ m.status = runs[own].status /\ m.job = runs[own].job
                      /\ m.attempted = runs[own].attempted /\ m.mine = runs[own].mine
                      /\ m.seen = runs[own].seen + 1 /\ m.failed = (runs[own].failed \/ page)
  <2> HIDE DEF page, own
  <2>1. SUFFICES ASSUME own \in Runs PROVE runs[own] \in RunRows /\ runs[own].seen + 1 \in Nat
          /\ (runs[own].failed \/ page) \in BOOLEAN
    BY DEF RunRows
  <2> QED
    BY <1>1, <1>p, <2>1 DEF RunRows
<1>7. /\ runs' \in [Runs -> RunRows]
      /\ own \in Runs => runs'[own] = m
      /\ \A r \in Runs : r # own => runs'[r] = runs[r]
  <2> HIDE DEF m, own
  <2> QED
    BY <1>1, <1>2, <1>6
<1> HIDE DEF m, n
<1> QED
  BY <1>4, <1>5, <1>6, <1>7 DEF Bumped

\* Bump leaves every worker in its place.
LEMMA BumpPlaces ==
  ASSUME PlaceInv, NEW w \in Workers, Bump(w)
  PROVE  PlaceInv'
<1>1. TypeOK /\ JobsCarry /\ WorkerOK(w) /\ wk[w].pc = "bump" /\ Bumped(w)
  BY JobsSame, BumpDoes DEF PlaceInv, Bump
<1>3. lock = w /\ wk[w].run \in Runs /\ runs[wk[w].run].status # "none"
  BY <1>1 DEF WorkerOK, Locked, WithRun
<1>4. RunsCarry
  BY <1>1, <1>3 DEF RunsCarry, Bumped
<1>5. Moves(w)
  BY <1>1, <1>3 DEF TypeOK, Moves, Only, Bump, Bumped
<1>6. WorkerOK(w)'
  BY <1>1, <1>3 DEF WorkerOK, Bump, Bumped, WithRun, Locked, Crawling, InPass
<1> QED
  BY <1>1, <1>4, <1>5, <1>6, StepPlaces

\* What claim_next_job does.
Claimed(w, j) ==
  /\ j \in Jobs /\ jobs[j].status = "queued"
  /\ claims' = claims + 1
  /\ jobs' \in [Jobs -> JobRows]
  /\ jobs'[j].status = "running" /\ jobs'[j].started = claims + 1
  /\ jobs'[j].lease = "valid" /\ jobs'[j].kind = jobs[j].kind
  /\ \A x \in Jobs : x # j => jobs'[x] = jobs[x]
  /\ Only(w) /\ wk'[w].pc = "open" /\ wk'[w].job = j /\ wk'[w].claim = claims + 1
  /\ wk'[w].kind = (IF w \in Pollers THEN jobs[j].kind ELSE wk[w].kind)
  /\ wk'[w].keeper = (w \in Pollers)

\* The claim takes a queued job, of which there is one.
LEMMA ClaimDoes ==
  ASSUME TypeOK, NEW w \in Workers, Claim(w)
  PROVE  \E j : Claimed(w, j)
<1> DEFINE j == Min(Queued)
           k == IF w \in Pollers THEN jobs[j].kind ELSE wk[w].kind
           row == [jobs[j] EXCEPT !.status = "running", !.started = claims + 1, !.lease = "valid"]
           me == w \in Pollers
           n == [Off EXCEPT !.pc = "open", !.kind = k, !.job = j, !.claim = claims + 1,
                            !.keeper = me]
<1>1. /\ jobs \in [Jobs -> JobRows] /\ wk \in [Workers -> WorkerRecords]
      /\ claims \in 0 .. MaxClaims /\ claims + 1 \in 0 .. MaxClaims
  <2>1. claims \in 0 .. MaxClaims /\ claims < MaxClaims /\ MaxClaims \in Nat
    BY Typed, FactsAssumption DEF Claim
  <2> QED
    BY <2>1, Typed
<1>2. j \in Jobs /\ jobs[j].status = "queued"
  <2>0. Queued # {}
    BY DEF Claim
  <2>1. Queued \subseteq Nat
    BY FactsAssumption DEF Queued, Jobs
  <2>2. Min(Queued) \in Queued
    BY <2>0, <2>1, MinOfNaturals
  <2> QED
    BY <2>2 DEF Queued
<1>3. jobs' = [jobs EXCEPT ![j] = row] /\ wk' = [wk EXCEPT ![w] = n] /\ claims' = claims + 1
  BY <1>1, <1>2 DEF Claim
<1>4. j \in 0 .. MaxJobs
  BY <1>2, FactsAssumption DEF Jobs
<1> HIDE DEF j
<1>5. row \in JobRows /\ row.status = "running" /\ row.started = claims + 1
      /\ row.lease = "valid" /\ row.kind = jobs[j].kind
  BY <1>1, <1>2 DEF JobRows
<1>6. k \in {"none", "crawl_pass", "remap"} /\ "open" \in WorkerStates /\ me \in BOOLEAN
  BY <1>1, <1>2 DEF JobRows, WorkerRecords, WorkerStates, InPass
<1>7. n \in WorkerRecords /\ n.pc = "open" /\ n.kind = k /\ n.job = j
      /\ n.claim = claims + 1 /\ n.keeper = me
  <2> HIDE DEF k, me
  <2> QED
    BY <1>1, <1>4, <1>6, RowTypes DEF WorkerRecords, Off
<1>8. Only(w) /\ wk'[w] = n
  <2> HIDE DEF n
  <2> QED
    BY <1>3, <1>7, SetOnly
<1>9. jobs' \in [Jobs -> JobRows] /\ jobs'[j] = row /\ \A x \in Jobs : x # j => jobs'[x] = jobs[x]
  <2> HIDE DEF row
  <2> QED
    BY <1>1, <1>2, <1>3, <1>5
<1> HIDE DEF row, n
<1> QED
  BY <1>2, <1>3, <1>5, <1>7, <1>8, <1>9 DEF Claimed

\* Claim leaves every worker in its place.
LEMMA ClaimPlaces ==
  ASSUME PlaceInv, NEW w \in Workers, Claim(w)
  PROVE  PlaceInv'
<1>0. TypeOK /\ claims \in Nat /\ claims < MaxClaims /\ MaxClaims \in Nat
  BY Typed, FactsAssumption DEF PlaceInv, Claim
<1>1. PICK j : Claimed(w, j)
  BY <1>0, ClaimDoes
<1>2. TypeOK'
  <2>1. QueuedBare'
    BY <1>0, <1>1, Typed DEF QueuedBare, Claimed
  <2> QED
    BY <1>0, <1>1, <2>1 DEF TypeOK, QueuedBare, JobRows, WorkerRecords, Claimed, Only, Claim
<1>3. Frame(w)
  BY <1>0, <1>1 DEF Claim, Claimed, Frame, Only
<1>4. WorkerOK(w)'
  BY <1>0, <1>1 DEF Claimed, WorkerOK, WithRun, Locked, Crawling, InPass
<1>5. \A v \in Workers : WorkerOK(v)'
  BY <1>0, <1>1, <1>3, <1>4, OthersStay DEF Claimed
<1>6. RoomInv'
  <2>1. w \notin Openers
    BY DEF Openers, Claim
  <2>2. Openers' = Openers \cup {w}
    BY <1>1 DEF Openers, Claimed, Only
  <2>3. Used' = Used
    BY DEF Used, Claim
  <2>4. IsFiniteSet(Openers) /\ Cardinality(Openers) \in Nat
    BY FS_CardinalityType DEF PlaceInv, RoomInv
  <2>5. IsFiniteSet(Openers') /\ Cardinality(Openers') = Cardinality(Openers) + 1
    BY <2>1, <2>2, <2>4, FS_AddElement
  <2>6. Cardinality(Used) \in Nat
    <3>1. Used \subseteq Runs
      BY DEF Used
    <3> QED
      BY <3>1, RunsFinite, FS_Subset, FS_CardinalityType
  <2> QED
    BY <1>0, <1>1, <2>3, <2>4, <2>5, <2>6 DEF PlaceInv, RoomInv, Claimed
<1>7. EmptyInv'
  BY DEF PlaceInv, EmptyInv, Claim
<1>8. \A x \in Jobs : jobs'[x].started <= claims'
  <2>1. jobs \in [Jobs -> JobRows]
    BY <1>0, Typed
  <2> QED
    BY <1>0, <1>1, <2>1 DEF PlaceInv, Claimed, JobRows
<1> QED
  BY <1>2, <1>5, <1>6, <1>7, <1>8 DEF PlaceInv

\* What get_or_open_run's insert does.
Inserted(w, r) ==
  /\ r \in Runs /\ runs[r] = NoRun
  /\ runs' \in [Runs -> RunRows]
  /\ runs'[r].status = "running" /\ runs'[r].job = wk[w].job
  /\ runs'[r].attempted = {} /\ runs'[r].mine = {} /\ runs'[r].seen = 0
  /\ runs'[r].failed = FALSE
  /\ \A x \in Runs : x # r => runs'[x] = runs[x]
  /\ Only(w) /\ wk'[w].run = r
  /\ wk'[w].pc = (IF wk[w].kind = "remap" THEN "remap" ELSE "lock")
  /\ wk'[w].job = wk[w].job /\ wk'[w].claim = wk[w].claim
  /\ wk'[w].kind = wk[w].kind /\ wk'[w].keeper = wk[w].keeper

\* There is a row left to insert, because every claim opens one run at most.
LEMMA OpenInsertDoes ==
  ASSUME PlaceInv, NEW w \in Workers, OpenInsert(w)
  PROVE  \E r : Inserted(w, r)
<1> DEFINE free == {x \in Runs : runs[x].status = "none"}
           r == Min(free)
<1>1. TypeOK /\ runs \in [Runs -> RunRows] /\ wk \in [Workers -> WorkerRecords]
      /\ claims \in Nat /\ claims <= MaxClaims
  BY Typed, FactsAssumption DEF PlaceInv
<1>2. free # {}
  <2> SUFFICES ASSUME free = {} PROVE FALSE
    OBVIOUS
  <2>1. Used = Runs
    BY DEF Used
  <2>2. w \in Openers /\ IsFiniteSet(Openers)
    BY DEF Openers, OpenInsert, PlaceInv, RoomInv
  <2>3. Cardinality(Openers) \in Nat /\ Cardinality(Openers) # 0
    BY <2>2, FS_CardinalityType, FS_EmptySet
  <2> QED
    BY <1>1, <2>1, <2>3, RunsFinite, FactsAssumption DEF PlaceInv, RoomInv
<1>3. r \in Runs /\ runs[r].status = "none"
  <2>1. free \subseteq Nat
    BY FactsAssumption DEF Runs
  <2>2. Min(free) \in free
    BY <1>2, <2>1, MinOfNaturals
  <2> QED
    BY <2>2
<1>4. runs[r] = NoRun
  BY <1>3 DEF PlaceInv, EmptyInv
<1>5. Opened(w, r) /\ runs' = [runs EXCEPT ![r].status = "running", ![r].job = wk[w].job]
  BY DEF OpenInsert
<1> HIDE DEF r
<1> DEFINE row == [NoRun EXCEPT !.status = "running", !.job = wk[w].job]
<1>6. runs' = [runs EXCEPT ![r] = row]
  BY <1>1, <1>3, <1>4, <1>5
<1>7. /\ row \in RunRows /\ row.status = "running" /\ row.job = wk[w].job
      /\ row.attempted = {} /\ row.mine = {} /\ row.seen = 0 /\ row.failed = FALSE
  BY <1>1, RowTypes DEF RunRows, WorkerRecords, NoRun
<1>8. runs' \in [Runs -> RunRows] /\ runs'[r] = row /\ \A x \in Runs : x # r => runs'[x] = runs[x]
  <2> HIDE DEF row
  <2> QED
    BY <1>1, <1>3, <1>6, <1>7
<1> HIDE DEF row
<1> QED
  BY <1>1, <1>3, <1>4, <1>5, <1>7, <1>8, OpenedDoes DEF Inserted

\* OpenInsert leaves every worker in its place.
LEMMA OpenInsertPlaces ==
  ASSUME PlaceInv, NEW w \in Workers, OpenInsert(w)
  PROVE  PlaceInv'
<1>0. TypeOK /\ claims \in Nat /\ WorkerOK(w) /\ wk[w].pc = "insert"
  BY Typed, FactsAssumption DEF PlaceInv, OpenInsert
<1>1. PICK r : Inserted(w, r)
  BY OpenInsertDoes
<1>n. runs[r].status = "none" /\ runs[r].attempted = {}
  BY <1>1 DEF Inserted, NoRun
<1>2. TypeOK'
  <2>1. QueuedBare'
    BY <1>0, Typed DEF QueuedBare, OpenInsert
  <2> QED
    BY <1>0, <1>1, <2>1 DEF TypeOK, QueuedBare, RunRows, WorkerRecords, Inserted, Only, OpenInsert
<1>3. Frame(w)
  <2>1. \A x \in Runs : /\ runs[x].status # "none" => runs'[x] = runs[x]
                        /\ runs'[x].attempted = runs[x].attempted
    BY <1>1, <1>n DEF Inserted
  <2>2. \A v \in Workers : v # w => wk'[v] = wk[v]
    BY <1>1 DEF Inserted, Only
  <2>3. lock' = lock /\ claims' = claims
    BY DEF OpenInsert
  <2>4. claims <= claims'
    BY <1>0, <2>3
  <2> QED
    BY <2>1, <2>2, <2>3, <2>4 DEF Frame
<1>4. WorkerOK(w)'
  BY <1>0, <1>1 DEF Inserted, WorkerOK, WithRun, Locked, Crawling, InPass, OpenInsert
<1>5. \A v \in Workers : WorkerOK(v)'
  BY <1>0, <1>1, <1>3, <1>4, OthersStay DEF OpenInsert
<1>6. RoomInv'
  <2>1. w \in Openers
    BY DEF Openers, OpenInsert
  <2>2. Openers' = Openers \ {w}
    BY <1>1 DEF Openers, Inserted, Only
  <2>3. Used' = Used \cup {r} /\ r \notin Used
    BY <1>1, <1>n DEF Used, Inserted
  <2>4. IsFiniteSet(Openers) /\ Cardinality(Openers) \in Nat
    BY FS_CardinalityType DEF PlaceInv, RoomInv
  <2>5. IsFiniteSet(Openers') /\ Cardinality(Openers') = Cardinality(Openers) - 1
    BY <2>1, <2>2, <2>4, FS_RemoveElement
  <2>6. IsFiniteSet(Used) /\ Cardinality(Used) \in Nat
    <3>1. Used \subseteq Runs
      BY DEF Used
    <3> QED
      BY <3>1, RunsFinite, FS_Subset, FS_CardinalityType
  <2>7. Cardinality(Used') = Cardinality(Used) + 1
    BY <2>3, <2>6, FS_AddElement
  <2> QED
    BY <1>0, <2>4, <2>5, <2>6, <2>7 DEF PlaceInv, RoomInv, OpenInsert
<1>7. EmptyInv'
  BY <1>1 DEF PlaceInv, EmptyInv, Inserted
<1>8. \A x \in Jobs : jobs'[x].started <= claims'
  BY DEF PlaceInv, OpenInsert
<1> QED
  BY <1>2, <1>5, <1>6, <1>7, <1>8 DEF PlaceInv

\* A step of no worker.
LEMMA StillPlaces ==
  ASSUME PlaceInv, JobsCarry, due' \in BOOLEAN, UNCHANGED <<runs, lock, claims, faults, wk>>
  PROVE  PlaceInv'
<1>1. TypeOK /\ claims \in Nat /\ jobs \in [Jobs -> JobRows]
  BY Typed, FactsAssumption DEF PlaceInv
<1>2. TypeOK'
  BY <1>1 DEF TypeOK, JobsCarry, JobRows, QueuedBare
<1>3. \A x \in Jobs : jobs'[x].started <= claims'
  BY <1>1 DEF PlaceInv, JobsCarry, JobRows
<1>4. (\A w \in Workers : WorkerOK(w)') /\ RoomInv' /\ EmptyInv'
  BY DEF PlaceInv, WorkerOK, RoomInv, EmptyInv, Used, Openers
<1> QED
  BY <1>2, <1>3, <1>4 DEF PlaceInv

\* A lease that expires takes no claim.
LEMMA ExpireCarry ==
  ASSUME TypeOK, NEW j \in Jobs, Expire(j)
  PROVE  JobsCarry
<1>1. jobs \in [Jobs -> JobRows] /\ QueuedBare
  BY Typed
<1>2. jobs' = [jobs EXCEPT ![j].lease = "expired"] /\ jobs[j].status = "running"
  BY DEF Expire
<1>3. jobs' \in [Jobs -> JobRows]
  BY <1>1, <1>2 DEF JobRows
<1>4. \A x \in Jobs : /\ jobs'[x].status = jobs[x].status
                      /\ jobs'[x].started = jobs[x].started
                      /\ x # j => jobs'[x].lease = jobs[x].lease
  BY <1>1, <1>2 DEF JobRows
<1> QED
  BY <1>1, <1>2, <1>3, <1>4 DEF JobsCarry, QueuedBare

\* PlaceInv holds at the start.
LEMMA InitPlaces ==
  ASSUME Init PROVE PlaceInv
<1>1. TypeOK
  <2>1. jobs \in [Jobs -> JobRows] /\ runs \in [Runs -> RunRows] /\ wk \in [Workers -> WorkerRecords]
    BY RowTypes DEF Init
  <2>2. QueuedBare
    BY DEF Init, QueuedBare, NoJob
  <2> QED
    BY <2>1, <2>2, Typed, FactsAssumption DEF Init
<1>2. \A w \in Workers : WorkerOK(w)
  BY DEF Init, WorkerOK, Off, InPass, WithRun, Locked, Crawling
<1>3. RoomInv
  <2>1. Used = {} /\ Openers = {}
    BY DEF Init, Used, Openers, NoRun, Off
  <2> QED
    BY <2>1, FS_EmptySet DEF Init, RoomInv
<1>4. EmptyInv
  BY DEF Init, EmptyInv
<1>5. \A x \in Jobs : jobs[x].started <= claims
  BY DEF Init, NoJob
<1> QED
  BY <1>1, <1>2, <1>3, <1>4, <1>5 DEF PlaceInv

\* PlaceInv is preserved by every step.
LEMMA NextPlaces ==
  ASSUME PlaceInv, [Next]_vars PROVE PlaceInv'
<1>0. TypeOK /\ due \in BOOLEAN
  BY Typed DEF PlaceInv
<1>1. CASE RunNow
  BY <1>0, <1>1, InsertCarry, StillPlaces DEF RunNow
<1>2. CASE DayPasses
  BY <1>0, <1>2, JobsSame, StillPlaces DEF DayPasses
<1>3. CASE \E j \in Jobs : Expire(j)
  BY <1>0, <1>3, ExpireCarry, StillPlaces DEF Expire
<1>4. CASE \E w \in Workers : PollStep(w)
  BY <1>4, BootPlaces, SweepPlaces, EnqueuePlaces, PollAgainPlaces, ClaimPlaces, CliBeatenPlaces
     DEF PollStep
<1>5. CASE \E w \in Workers : PassStep(w)
  BY <1>5, OpenReadPlaces, OpenInsertPlaces, TryLockPlaces, ContendedPlaces, DiscoverPlaces,
     SchoolPlaces, BumpPlaces, ClosePassPlaces, AbortPassPlaces, UnlockPlaces, RemapPlaces,
     MarkCrashedPlaces DEF PassStep
<1>6. CASE \E w \in Workers : FaultStep(w)
  BY <1>6, RaisePlaces, PollFailsPlaces, MarkFailsPlaces, GonePlaces DEF FaultStep, Crash, Stop
<1>7. CASE \E w \in Workers : Renew(w)
  BY <1>7, RenewPlaces
<1>8. CASE \E w \in Clis, k \in Kinds : Cli(w, k)
  BY <1>8, CliPlaces DEF Workers
<1>9. CASE UNCHANGED vars
  BY <1>0, <1>9, JobsSame, StillPlaces DEF vars
<1> QED
  BY <1>1, <1>2, <1>3, <1>4, <1>5, <1>6, <1>7, <1>8, <1>9 DEF Next

\* Every variable keeps its kind, and a queued job carries neither a claim nor
\* a lease (sweep_expired_leases, claim_next_job), for any number of processes,
\* jobs, schools and deaths.
THEOREM FactsTypes == Spec => []TypeOK
<1>1. Init => PlaceInv
  BY InitPlaces
<1>2. PlaceInv /\ [Next]_vars => PlaceInv'
  BY NextPlaces
<1>3. PlaceInv => TypeOK
  BY DEF PlaceInv
<1> QED
  BY <1>1, <1>2, <1>3, PTL DEF Spec

(***************************************************************************)
(* What a step does to the workers and the runs, whatever it does to the   *)
(* jobs: every property of the runs is proved along these seven cases.     *)
(***************************************************************************)

\* Nobody moves, and no run changes.
Same ==
  /\ \A v \in Workers :
       /\ wk'[v].pc = wk[v].pc /\ wk'[v].run = wk[v].run /\ wk'[v].pend = wk[v].pend
       /\ wk'[v].out = wk[v].out /\ wk'[v].fail = wk[v].fail /\ wk'[v].kind = wk[v].kind
  /\ runs' = runs
  /\ faults' = faults

\* A worker steps outside the loop over the schools; it leaves that loop by a
\* failure, and only by a failure comes to the exception handler.  It works on
\* a remap only if it did, or claims one, or was called for one.
Calm(w) ==
  /\ Only(w)
  /\ runs' = runs
  /\ wk'[w].pc \notin Crawling
  /\ \/ faults' = faults /\ wk[w].pc \notin Crawling /\ wk'[w].pc # "crashed"
     \/ faults' = faults + 1
  /\ wk'[w].kind = "remap" => \/ wk[w].kind = "remap"
                              \/ \E j \in Jobs : jobs[j].kind = "remap"
                              \/ w \in Clis /\ "remap" \in Kinds
  /\ wk'[w].pc = "remap" => wk'[w].kind = "remap"

\* A run is closed: at the end of a pass, or by the exception handler.
Ends(w, r, st) ==
  /\ Only(w)
  /\ wk'[w].pc \in {"unlock", "off", "sweep"} /\ wk'[w].kind \in {wk[w].kind, "none"}
  /\ runs' = Closed(runs, r, st)
  /\ faults' = faults
  /\ \/ /\ st = PassStatus(w) /\ wk[w].pc = "school" /\ wk[w].pend = {} /\ r = wk[w].run
        /\ wk'[w].pc = "unlock"
     \/ st = "aborted" /\ wk[w].pc \in {"discover", "school"} /\ r = wk[w].run
     \/ st = "succeeded" /\ wk[w].pc = "remap" /\ r = wk[w].run
     \/ /\ st = "failed" /\ wk[w].pc = "crashed" /\ r \in Runs
        /\ Owns(w) /\ runs[r].job = wk[w].job

RunStep(w) ==
  \/ Calm(w)
  \/ \E r : Inserted(w, r) /\ faults' = faults /\ wk[w].pc = "insert"
  \/ Discover(w)
  \/ \E s \in Schools, out \in Outcomes : School(w, s, out)
  \/ Bump(w)
  \/ \E r, st : Ends(w, r, st)

\* A step of the poll loop touches no run.
LEMMA PollCalm ==
  ASSUME TypeOK, NEW w \in Workers, PollStep(w)
  PROVE  Calm(w)
<1> USE DEF Calm, Crawling
<1>1. CASE Boot(w)
  <2>1. Walks(w, "sweep")
    BY <1>1, GotoWalks DEF Boot, Goto, WorkerStates
  <2> QED
    BY <1>1, <2>1 DEF Boot, Goto, Walks
<1>2. CASE Sweep(w)
  <2>1. Walks(w, "enqueue")
    BY <1>2, GotoWalks DEF Sweep, Goto, WorkerStates
  <2> QED
    BY <1>2, <2>1 DEF Sweep, Goto, Walks
<1>3. CASE Enqueue(w)
  <2>1. Walks(w, "claim")
    BY <1>3, GotoWalks DEF Enqueue, Goto, WorkerStates
  <2> QED
    BY <1>3, <2>1 DEF Enqueue, Goto, Walks
<1>4. CASE PollAgain(w)
  <2>1. Walks(w, "sweep")
    BY <1>4, GotoWalks DEF PollAgain, Goto, WorkerStates
  <2> QED
    BY <1>4, <2>1 DEF PollAgain, Goto, Walks
<1>5. CASE Claim(w)
  <2>1. PICK j : Claimed(w, j)
    BY <1>5, ClaimDoes
  <2>2. wk[w].pc \in {"claim", "cli"} /\ runs' = runs /\ faults' = faults
    BY <1>5 DEF Claim
  <2> QED
    BY <2>1, <2>2 DEF Claimed
<1>6. CASE CliBeaten(w)
  BY <1>6, OffRests DEF CliBeaten, Rests
<1> QED
  BY <1>1, <1>2, <1>3, <1>4, <1>5, <1>6 DEF PollStep

\* A fault touches no run.
LEMMA FaultCalm ==
  ASSUME TypeOK, NEW w \in Workers, FaultStep(w)
  PROVE  Calm(w)
<1>0. faults' = faults + 1 /\ runs' = runs
  BY DEF FaultStep, Raise, PollFails, MarkFails, Crash, Stop, Gone, MayFail
<1>1. Only(w) /\ wk'[w].pc \in {"crashed", "sweep", "off"} /\ wk'[w].kind \in {"none", wk[w].kind}
  <2>1. CASE Raise(w) /\ w \in Pollers
    <3>1. wk' = [wk EXCEPT ![w].pc = "crashed"]
      BY <2>1, Typed DEF Raise
    <3> QED
      BY <3>1, GotoWalks DEF WorkerStates, InPass, Walks
  <2>2. CASE Raise(w) /\ w \notin Pollers
    BY <2>2, OffRests DEF Raise, Rests
  <2>3. CASE PollFails(w)
    BY <2>3, GotoWalks DEF PollFails, WorkerStates, Walks
  <2>4. CASE MarkFails(w)
    BY <2>4, DoneRests DEF MarkFails, Rests
  <2>5. CASE Crash(w) \/ Stop(w)
    BY <2>5, OffRests DEF Crash, Stop, Gone, Rests
  <2> QED
    BY <2>1, <2>2, <2>3, <2>4, <2>5 DEF FaultStep
<1> QED
  BY <1>0, <1>1 DEF Calm, Crawling

\* A step of a pass is one of the kinds of RunStep.
LEMMA PassRuns ==
  ASSUME PlaceInv, NEW w \in Workers, PassStep(w)
  PROVE  RunStep(w)
<1>0. TypeOK
  BY DEF PlaceInv
<1>1. CASE OpenRead(w)
  <2>1. /\ Only(w) /\ wk'[w].pc \in {"insert", "remap", "lock"}
        /\ wk'[w].kind = wk[w].kind
        /\ wk'[w].pc = "remap" => wk'[w].kind = "remap"
    <3>1. CASE wk' = [wk EXCEPT ![w].pc = "insert"]
      <4>1. Walks(w, "insert")
        BY <1>0, <3>1, GotoWalks DEF WorkerStates, InPass
      <4> QED
        BY <4>1 DEF Walks
    <3>2. CASE \E r \in OpenRuns(wk[w].job) : Opened(w, r)
      <4>1. PICK r \in Runs : Opened(w, r)
        BY <3>2 DEF OpenRuns
      <4> QED
        BY <1>0, <4>1, OpenedDoes
    <3> QED
      BY <1>1, <3>1, <3>2 DEF OpenRead
  <2> QED
    BY <1>1, <2>1 DEF OpenRead, Calm, Crawling, RunStep
<1>2. CASE OpenInsert(w)
  <2>1. faults' = faults /\ wk[w].pc = "insert"
    BY <1>2 DEF OpenInsert
  <2> QED
    BY <1>2, <2>1, OpenInsertDoes DEF RunStep
<1>3. CASE TryLock(w)
  <2> DEFINE to == IF lock = NoWorker THEN "discover" ELSE "contended"
  <2>1. Walks(w, to)
    BY <1>0, <1>3, GotoWalks DEF TryLock, WorkerStates, InPass
  <2> QED
    BY <1>3, <2>1 DEF TryLock, Walks, Calm, Crawling, RunStep
<1>4. CASE Contended(w)
  BY <1>0, <1>4, DoneRests DEF Contended, Rests, Calm, Crawling, RunStep
<1>5. CASE Discover(w) \/ Bump(w) \/ \E s \in Schools, out \in Outcomes : School(w, s, out)
  BY <1>5 DEF RunStep
<1>6. CASE ClosePass(w)
  <2>1. Walks(w, "unlock")
    BY <1>0, <1>6, GotoWalks DEF ClosePass, WorkerStates, InPass
  <2>2. Ends(w, wk[w].run, PassStatus(w))
    BY <1>6, <2>1 DEF ClosePass, Walks, Ends
  <2> QED
    BY <2>2 DEF RunStep
<1>7. CASE AbortPass(w)
  <2>1. Walks(w, "unlock")
    BY <1>0, <1>7, GotoWalks DEF AbortPass, WorkerStates, InPass
  <2>2. Ends(w, wk[w].run, "aborted")
    BY <1>7, <2>1 DEF AbortPass, Walks, Ends
  <2> QED
    BY <2>2 DEF RunStep
<1>8. CASE Unlock(w)
  BY <1>0, <1>8, DoneRests DEF Unlock, Rests, Calm, Crawling, RunStep
<1>9. CASE Remap(w)
  <2>1. Ends(w, wk[w].run, "succeeded")
    BY <1>0, <1>9, DoneRests DEF Remap, Rests, Ends
  <2> QED
    BY <2>1 DEF RunStep
<1>10. CASE MarkCrashed(w)
  <2>1. Rests(w) /\ faults' = faults /\ wk[w].pc = "crashed"
    BY <1>0, <1>10, DoneRests DEF MarkCrashed
  <2>2. CASE runs' = runs
    BY <2>1, <2>2 DEF Rests, Calm, Crawling, RunStep
  <2>3. CASE \E r \in OpenRuns(wk[w].job) : Owns(w) /\ runs' = Closed(runs, r, "failed")
    <3>1. PICK r \in OpenRuns(wk[w].job) : Owns(w) /\ runs' = Closed(runs, r, "failed")
      BY <2>3
    <3>2. Ends(w, r, "failed")
      BY <2>1, <3>1 DEF Rests, Ends, OpenRuns
    <3> QED
      BY <3>2 DEF RunStep
  <2> QED
    BY <1>10, <2>2, <2>3 DEF MarkCrashed, Owns
<1> QED
  BY <1>1, <1>2, <1>3, <1>4, <1>5, <1>6, <1>7, <1>8, <1>9, <1>10 DEF PassStep

\* Renewing a lease moves nobody.
LEMMA RenewSame ==
  ASSUME TypeOK, NEW w \in Workers, Renew(w)
  PROVE  Same
<1>1. wk \in [Workers -> WorkerRecords]
  BY Typed
<1>2. wk' = wk \/ wk' = [wk EXCEPT ![w].keeper = FALSE]
  BY DEF Renew
<1>3. runs' = runs /\ faults' = faults
  BY DEF Renew
<1>4. CASE wk' = wk
  BY <1>3, <1>4 DEF Same
<1>5. CASE wk' = [wk EXCEPT ![w].keeper = FALSE]
  BY <1>1, <1>3, <1>5 DEF Same, WorkerRecords
<1> QED
  BY <1>2, <1>4, <1>5

\* Calling the command line touches no run.
LEMMA CliCalm ==
  ASSUME TypeOK, NEW w \in Workers, NEW k \in Kinds, Cli(w, k)
  PROVE  Calm(w)
<1> DEFINE n == [Off EXCEPT !.pc = "cli", !.kind = k]
<1>0. k \in {"crawl_pass", "remap"}
  BY FactsAssumption
<1>2. n \in WorkerRecords /\ n.pc = "cli" /\ n.kind = k
  BY <1>0, RowTypes DEF WorkerRecords, Off, WorkerStates
<1>3. Only(w) /\ wk'[w] = n
  BY <1>2, SetOnly DEF Cli
<1> HIDE DEF n
<1>4. wk'[w].kind = k /\ wk'[w].pc = "cli"
  BY <1>2, <1>3
<1> QED
  BY <1>3, <1>4 DEF Cli, Calm, Crawling

\* Every step moves nobody, or is one of the kinds of RunStep.
LEMMA StepIs ==
  ASSUME PlaceInv, [Next]_vars
  PROVE  Same \/ \E w \in Workers : RunStep(w)
<1>0. TypeOK
  BY DEF PlaceInv
<1>1. CASE RunNow \/ DayPasses \/ UNCHANGED vars \/ \E j \in Jobs : Expire(j)
  BY <1>1 DEF RunNow, DayPasses, Expire, vars, Same
<1>2. CASE \E w \in Workers : PollStep(w) \/ FaultStep(w)
  BY <1>0, <1>2, PollCalm, FaultCalm DEF RunStep
<1>3. CASE \E w \in Workers : PassStep(w)
  BY <1>3, PassRuns
<1>4. CASE \E w \in Workers : Renew(w)
  BY <1>0, <1>4, RenewSame
<1>5. CASE \E w \in Clis, k \in Kinds : Cli(w, k)
  BY <1>0, <1>5, CliCalm DEF RunStep, Workers
<1> QED
  BY <1>1, <1>2, <1>3, <1>4, <1>5 DEF Next

(***************************************************************************)
(* Resume, not restart.                                                    *)
(***************************************************************************)
OncePerRunStep ==
  \A w \in Workers : wk[w].pc = "school" /\ wk'[w].pc = "bump" =>
    \A s \in wk[w].pend \ wk'[w].pend : s \notin runs[wk[w].run].attempted

\* No step attempts a school twice for one run.
LEMMA StepOnce ==
  ASSUME PlaceInv, [Next]_vars PROVE OncePerRunStep
<1>0. TypeOK /\ \A w \in Workers : WorkerOK(w)
  BY DEF PlaceInv
<1> SUFFICES ASSUME NEW w \in Workers, wk[w].pc = "school" PROVE
               wk[w].pend \cap runs[wk[w].run].attempted = {}
  BY DEF OncePerRunStep
<1> QED
  BY <1>0 DEF WorkerOK, Crawling

\* Resume, not restart: no school is attempted twice for one run, whoever
\* resumes it and whatever dies (the advisory lock, and the list of schools that
\* is read under it).
THEOREM SchoolsAttemptedOnce == Spec => OncePerRun
<1>1. Init => PlaceInv
  BY InitPlaces
<1>2. PlaceInv /\ [Next]_vars => PlaceInv'
  BY NextPlaces
<1>3. PlaceInv /\ [Next]_vars => [OncePerRunStep]_vars
  BY StepOnce
<1> QED
  BY <1>1, <1>2, <1>3, PTL DEF Spec, OncePerRun, OncePerRunStep

(***************************************************************************)
(* Every school is counted, but for the deaths.                            *)
(***************************************************************************)
LEMMA CountTypes ==
  ASSUME PlaceInv
  PROVE  /\ faults \in Nat
         /\ \A r \in Runs : /\ runs[r].seen \in Nat /\ IsFiniteSet(runs[r].mine)
                            /\ Cardinality(runs[r].mine) \in Nat
<1>1. runs \in [Runs -> RunRows] /\ faults \in Nat
  BY Typed, FactsAssumption DEF PlaceInv
<1>2. \A r \in Runs : runs[r].seen \in Nat /\ runs[r].mine \subseteq Schools
  BY <1>1 DEF RunRows
<1>3. \A r \in Runs : IsFiniteSet(runs[r].mine)
  BY <1>2, FactsAssumption, FS_Subset
<1> QED
  BY <1>1, <1>2, <1>3, FS_CardinalityType

\* One at a time is between a school and its counters.
LEMMA BumpAlone ==
  ASSUME PlaceInv, NEW w \in Workers, wk[w].pc \in Locked
  PROVE  \A v \in Workers : v # w => wk[v].pc \notin Locked
BY DEF PlaceInv, WorkerOK

\* A step that closes a run changes its status, and nothing of another run.
LEMMA EndsRuns ==
  ASSUME TypeOK, NEW w \in Workers, NEW r, NEW st, Ends(w, r, st)
  PROVE  \A x \in Runs :
           /\ runs'[x].seen = runs[x].seen /\ runs'[x].failed = runs[x].failed
           /\ runs'[x].mine = runs[x].mine /\ runs'[x].attempted = runs[x].attempted
           /\ runs'[x].job = runs[x].job
           /\ \/ runs'[x].status = runs[x].status
              \/ x = r /\ runs[x].status = "running" /\ runs'[x].status = st
           /\ x = r /\ runs[x].status = "running" => runs'[x].status = st
<1>1. runs \in [Runs -> RunRows]
  BY Typed
<1> QED
  BY <1>1 DEF Ends, Closed, RunRows

\* CountInv is preserved by every step.
LEMMA StepCounts ==
  ASSUME PlaceInv, CountInv, [Next]_vars
  PROVE  CountInv'
<1>0. TypeOK /\ faults \in Nat
      /\ \A r \in Runs : /\ runs[r].seen \in Nat /\ IsFiniteSet(runs[r].mine)
                         /\ Cardinality(runs[r].mine) \in Nat
  BY CountTypes DEF PlaceInv
<1>1. CASE Same
  <2>1. \A r \in Runs : InBump(r)' = InBump(r)
    BY <1>1 DEF Same, InBump
  <2> QED
    BY <1>1, <2>1 DEF Same, CountInv
<1>2. ASSUME NEW w \in Workers, Calm(w)
      PROVE  CountInv'
  <2>1. CASE faults' = faults /\ wk[w].pc \notin Crawling
    <3>1. \A r \in Runs : InBump(r)' = InBump(r)
      BY <1>2, <2>1 DEF Calm, Only, Crawling, InBump
    <3> QED
      BY <1>2, <2>1, <3>1 DEF Calm, CountInv
  <2>2. CASE faults' = faults + 1
    <3>1. \A r \in Runs : runs'[r] = runs[r] /\ Cardinality(runs[r].mine) <= runs[r].seen + faults + 1
      BY <1>0, <1>2 DEF Calm, CountInv
    <3>2. \A r \in Runs : Cardinality(runs'[r].mine) <= runs'[r].seen + faults'
      BY <1>0, <2>2, <3>1
    <3> QED
      BY <1>0, <2>2, <3>1, <3>2 DEF CountInv
  <2> QED
    BY <1>2, <2>1, <2>2 DEF Calm
<1>3. ASSUME NEW w \in Workers, NEW r, Inserted(w, r), faults' = faults, wk[w].pc = "insert"
      PROVE  CountInv'
  <2>1. \A x \in Runs : InBump(x)' = InBump(x)
    BY <1>3 DEF Inserted, Only, InBump
  <2>2. \A x \in Runs : runs'[x].mine = runs[x].mine /\ runs'[x].seen = runs[x].seen
    BY <1>3 DEF Inserted, NoRun
  <2> QED
    BY <1>3, <2>1, <2>2 DEF CountInv
<1>4. ASSUME NEW w \in Workers, Discover(w)
      PROVE  CountInv'
  <2>1. \A r \in Runs : InBump(r)' = InBump(r)
    <3>1. Only(w) /\ wk[w].pc = "discover" /\ wk'[w].pc = "school"
      BY <1>0, <1>4, DiscoverDoes DEF Discover
    <3> QED
      BY <3>1 DEF Only, InBump
  <2> QED
    BY <1>4, <2>1 DEF Discover, CountInv
<1>5. ASSUME NEW w \in Workers, NEW s \in Schools, NEW out \in Outcomes, School(w, s, out)
      PROVE  CountInv'
  <2> DEFINE own == wk[w].run
  <2>1. Schooled(w, s, out) /\ wk[w].pc = "school" /\ faults' = faults
    BY <1>0, <1>5, SchoolDoes DEF School
  <2>2. own \in Runs /\ runs[own].status # "none"
    BY <2>1 DEF PlaceInv, WorkerOK, WithRun
  <2>3. \A v \in Workers : wk[v].pc # "bump"
    BY <2>1, BumpAlone DEF Locked
  <2>4. \A r \in Runs : ~InBump(r) /\ InBump(r)' = (r = own)
    BY <2>1, <2>3 DEF InBump, Schooled, Only
  <2>5. \A r \in Runs : Cardinality(runs[r].mine) <= runs[r].seen + faults
    BY <1>0, <2>4 DEF CountInv
  <2>6. CASE out = "rollback"
    <3>1. runs' = runs
      BY <1>0, <1>5, <2>6, SchoolDoes
    <3> QED
      BY <1>0, <2>1, <2>4, <2>5, <3>1 DEF CountInv
  <2>7. CASE out # "rollback"
    <3>1. Attempted(s, own)
      BY <1>0, <1>5, <2>7, SchoolDoes
    <3> DEFINE m == runs[own].mine
    <3>a. IsFiniteSet(m) /\ Cardinality(m) \in Nat /\ runs[own].seen \in Nat
      BY <1>0, <2>2
    <3>b. runs'[own].mine = m \cup {s} /\ runs'[own].seen = runs[own].seen
      BY <2>2, <3>1 DEF Attempted
    <3>c. Cardinality(m) <= runs[own].seen + faults
      BY <2>2, <2>5
    <3> HIDE DEF m
    <3>2. Cardinality(m \cup {s}) <= Cardinality(m) + 1 /\ Cardinality(m \cup {s}) \in Nat
      <4>1. CASE s \in m
        <5>1. m \cup {s} = m
          BY <4>1
        <5>2. Cardinality(m \cup {s}) = Cardinality(m)
          BY <5>1, Zenon
        <5> QED
          BY <3>a, <5>2
      <4>2. CASE s \notin m
        <5>1. Cardinality(m \cup {s}) = Cardinality(m) + 1
          BY <3>a, <4>2, FS_AddElement
        <5> QED
          BY <3>a, <5>1
      <4> QED
        BY <4>1, <4>2
    <3>3. Cardinality(runs'[own].mine) <= runs'[own].seen + faults' + 1
      BY <1>0, <2>1, <3>a, <3>b, <3>c, <3>2
    <3>4. \A r \in Runs : r # own => runs'[r].mine = runs[r].mine /\ runs'[r].seen = runs[r].seen
      BY <3>1 DEF Attempted
    <3> QED
      BY <1>0, <2>1, <2>4, <2>5, <3>3, <3>4 DEF CountInv
  <2> QED
    BY <2>6, <2>7
<1>6. ASSUME NEW w \in Workers, Bump(w)
      PROVE  CountInv'
  <2> DEFINE own == wk[w].run
  <2>1. Bumped(w) /\ wk[w].pc = "bump" /\ faults' = faults
    BY <1>0, <1>6, BumpDoes DEF Bump
  <2>2. own \in Runs
    BY <2>1 DEF PlaceInv, WorkerOK, WithRun
  <2>3. \A v \in Workers : v # w => wk[v].pc # "bump"
    BY <2>1, BumpAlone DEF Locked
  <2>4. \A r \in Runs : ~InBump(r)' /\ (InBump(r) <=> r = own)
    BY <2>1, <2>2, <2>3 DEF InBump, Bumped, Only
  <2>5. \A r \in Runs : r # own => /\ Cardinality(runs[r].mine) <= runs[r].seen + faults
                                   /\ runs'[r] = runs[r]
    BY <1>0, <2>1, <2>4 DEF CountInv, Bumped
  <2>6. Cardinality(runs[own].mine) <= runs[own].seen + faults + 1
    BY <2>2, <2>4 DEF CountInv
  <2>7. runs'[own].mine = runs[own].mine /\ runs'[own].seen = runs[own].seen + 1
    BY <2>1, <2>2 DEF Bumped
  <2>8. \A r \in Runs : Cardinality(runs'[r].mine) <= runs'[r].seen + faults'
    BY <1>0, <2>1, <2>2, <2>5, <2>6, <2>7
  <2>9. \A r \in Runs : runs'[r].seen \in Nat
    BY <1>0, <2>2, <2>5, <2>7
  <2> QED
    BY <1>0, <2>1, <2>4, <2>8, <2>9 DEF CountInv
<1>7. ASSUME NEW w \in Workers, NEW r, NEW st, Ends(w, r, st)
      PROVE  CountInv'
  <2>1. \A x \in Runs : InBump(x)' = InBump(x)
    BY <1>7 DEF Ends, Only, InBump
  <2>2. \A x \in Runs : runs'[x].mine = runs[x].mine /\ runs'[x].seen = runs[x].seen
    BY <1>0, <1>7, EndsRuns
  <2> QED
    BY <1>7, <2>1, <2>2 DEF CountInv, Ends
<1> QED
  BY <1>1, <1>2, <1>3, <1>4, <1>5, <1>6, <1>7, StepIs DEF RunStep

\* CountInv holds at the start.
LEMMA InitCounts ==
  ASSUME Init PROVE CountInv
<1>1. \A r \in Runs : runs[r].mine = {} /\ runs[r].seen = 0
  BY DEF Init, NoRun
<1>2. \A r \in Runs : ~InBump(r)
  BY DEF Init, InBump, Off
<1> QED
  BY <1>1, <1>2, FS_EmptySet DEF CountInv, Init

\* A school that was committed for a run is counted on it: each death or error
\* between the school's transaction and the counters' loses the count of one
\* school at most, and a resumed pass none (bump_run_counters).
THEOREM SchoolsAreCounted == Spec => []CountsComplete
<1>1. Init => PlaceInv /\ CountInv
  BY InitPlaces, InitCounts
<1>2. PlaceInv /\ CountInv /\ [Next]_vars => PlaceInv' /\ CountInv'
  BY NextPlaces, StepCounts
<1>3. PlaceInv /\ CountInv => CountsComplete
  <2> SUFFICES ASSUME PlaceInv, CountInv, NEW r \in Runs,
                      \A w \in Workers : wk[w].run = r => wk[w].pc # "bump"
               PROVE  runs[r].seen + faults >= Cardinality(runs[r].mine)
    BY DEF CountsComplete
  <2>1. ~InBump(r)
    BY DEF InBump
  <2> QED
    BY <2>1, CountTypes DEF CountInv
<1> QED
  BY <1>1, <1>2, <1>3, PTL DEF Spec

(***************************************************************************)
(* A job is finished by its owner.                                         *)
(***************************************************************************)
FinishedByOwnerStep ==
  \A j \in Jobs : jobs'[j].status # jobs[j].status =>
    /\ jobs[j].status \notin {"done", "error"}
    /\ jobs'[j].status \in {"done", "error"} =>
         \E w \in Workers : /\ wk[w].job = j
                            /\ wk[w].claim = jobs[j].started
                            /\ wk'[w].pc # wk[w].pc

\* No job's status changes.
Steady == \A j \in Jobs : jobs'[j].status = jobs[j].status

\* A step that changes no status finishes no job.
LEMMA SteadyFinishes ==
  ASSUME Steady PROVE FinishedByOwnerStep
BY DEF Steady, FinishedByOwnerStep

\* The job the worker w finishes is its own.
LEMMA CompletedFinishes ==
  ASSUME TypeOK, NEW w \in Workers, NEW st \in {"done", "error"}, wk'[w].pc # wk[w].pc,
         NEW js, js = Completed(jobs, wk[w].job, wk[w].claim, st),
         \A j \in Jobs : jobs'[j].status = js[j].status
  PROVE  FinishedByOwnerStep
<1>1. jobs \in [Jobs -> JobRows]
  BY Typed
<1>2. \A j \in Jobs : js[j].status # jobs[j].status =>
        /\ j = wk[w].job /\ jobs[j].status = "running" /\ jobs[j].started = wk[w].claim
  BY <1>1 DEF Completed, JobRows
<1> QED
  BY <1>2 DEF FinishedByOwnerStep

\* Enqueuing finishes no job.
LEMMA InsertFinishes ==
  ASSUME TypeOK, NEW k \in {"crawl_pass", "remap"}, Insert(k)
  PROVE  FinishedByOwnerStep
<1> DEFINE n == Min(Unused)
           row == [NoJob EXCEPT !.status = "queued", !.kind = k]
<1>1. jobs \in [Jobs -> JobRows]
  BY Typed
<1>2. row.status = "queued"
  BY DEF NoJob
<1>3. jobs' = [jobs EXCEPT ![n] = row]
  BY DEF Insert
<1>4. n \in Unused
  <2>1. Unused \subseteq Nat
    BY FactsAssumption DEF Unused, Jobs
  <2>2. Unused # {}
    BY DEF Insert, CanInsert
  <2> QED
    BY <2>1, <2>2, MinOfNaturals
<1> HIDE DEF n, row
<1>5. \A j \in Jobs : j # n => jobs'[j] = jobs[j]
  BY <1>1, <1>3
<1>6. n \in Jobs /\ jobs[n].status = "none" /\ jobs'[n].status = "queued"
  BY <1>1, <1>2, <1>3, <1>4 DEF Unused
<1> QED
  BY <1>5, <1>6 DEF FinishedByOwnerStep

\* Every step finishes only jobs of the worker that takes it.
LEMMA StepFinishes ==
  ASSUME PlaceInv, [Next]_vars PROVE FinishedByOwnerStep
<1>0. TypeOK /\ jobs \in [Jobs -> JobRows]
  BY Typed DEF PlaceInv
<1>1. CASE UNCHANGED jobs
  BY <1>1, SteadyFinishes DEF Steady
<1>2. CASE RunNow \/ (\E w \in Workers : Enqueue(w)) \/ \E w \in Clis, k \in Kinds : Cli(w, k)
  <2>1. \/ UNCHANGED jobs
        \/ \E k \in {"crawl_pass", "remap"} : Insert(k)
    BY <1>2, FactsAssumption DEF RunNow, Enqueue, Cli
  <2> QED
    BY <1>0, <1>1, <2>1, InsertFinishes
<1>3. CASE \E j \in Jobs : Expire(j)
  BY <1>0, <1>3, SteadyFinishes DEF Expire, JobRows, Steady
<1>4. ASSUME NEW w \in Workers, Sweep(w) PROVE FinishedByOwnerStep
  <2>1. \A j \in Jobs : \/ jobs'[j] = jobs[j]
                        \/ jobs[j].status = "running" /\ jobs'[j].status = "queued"
    BY <1>0, <1>4 DEF Sweep, Swept, JobRows
  <2> QED
    BY <2>1 DEF FinishedByOwnerStep
<1>5. ASSUME NEW w \in Workers, Claim(w) PROVE FinishedByOwnerStep
  <2>1. PICK j : Claimed(w, j)
    BY <1>0, <1>5, ClaimDoes
  <2> QED
    BY <2>1 DEF Claimed, FinishedByOwnerStep
<1>6. ASSUME NEW w \in Workers, Contended(w) PROVE FinishedByOwnerStep
  <2> DEFINE js == Completed(jobs, wk[w].job, wk[w].claim, "error")
  <2>1. js \in [Jobs -> JobRows]
    BY <1>0, CompletedTyped
  <2>2. jobs' = [js EXCEPT ![wk[w].job].refused = @ \/ js # jobs]
    BY <1>6 DEF Contended
  <2>3. wk'[w].pc # wk[w].pc
    BY <1>0, <1>6, DoneRests DEF Contended, Rests
  <2> HIDE DEF js
  <2>4. \A j \in Jobs : jobs'[j].status = js[j].status
    BY <2>1, <2>2 DEF JobRows
  <2> QED
    BY <1>0, <2>3, <2>4, CompletedFinishes DEF js
<1>7. ASSUME NEW w \in Workers, ClosePass(w) \/ AbortPass(w) \/ Remap(w) \/ MarkCrashed(w)
      PROVE  FinishedByOwnerStep
  <2>1. \E st \in {"done", "error"} : jobs' = Completed(jobs, wk[w].job, wk[w].claim, st)
    BY <1>7 DEF ClosePass, AbortPass, Remap, MarkCrashed
  <2>2. wk'[w].pc # wk[w].pc
    <3>1. CASE ClosePass(w) \/ AbortPass(w)
      <4>1. wk' = [wk EXCEPT ![w].pc = "unlock"] /\ wk[w].pc # "unlock"
        BY <3>1 DEF ClosePass, AbortPass
      <4> QED
        BY <1>0, <4>1, GotoWalks DEF WorkerStates, InPass, Walks
    <3>2. CASE Remap(w) \/ MarkCrashed(w)
      BY <1>0, <3>2, DoneRests DEF Remap, MarkCrashed, Rests
    <3> QED
      BY <1>7, <3>1, <3>2
  <2> QED
    BY <1>0, <2>1, <2>2, CompletedFinishes
<1>8. ASSUME NEW w \in Workers, Renew(w) PROVE FinishedByOwnerStep
  BY <1>0, <1>8, SteadyFinishes DEF Renew, JobRows, Steady
<1>9. CASE \E w \in Workers : PollStep(w)
  BY <1>1, <1>2, <1>4, <1>5, <1>9 DEF PollStep, Boot, PollAgain, CliBeaten
<1>10. CASE \E w \in Workers : PassStep(w)
  BY <1>1, <1>6, <1>7, <1>10 DEF PassStep, OpenRead, OpenInsert, TryLock, Discover, School, Bump, Unlock
<1>11. CASE \E w \in Workers : FaultStep(w)
  BY <1>1, <1>11 DEF FaultStep, Raise, PollFails, MarkFails, Crash, Stop, Gone
<1> QED
  BY <1>1, <1>2, <1>3, <1>8, <1>9, <1>10, <1>11 DEF Next, DayPasses, vars

\* A job is finished by the worker that holds its claim, once: a worker whose
\* lease was swept can neither finish it nor stamp it again (complete_job), even
\* where a lease expires although it is being renewed.
THEOREM JobsFinishedByOwner == Spec => FinishedByOwner
<1>1. Init => PlaceInv
  BY InitPlaces
<1>2. PlaceInv /\ [Next]_vars => PlaceInv'
  BY NextPlaces
<1>3. PlaceInv /\ [Next]_vars => [FinishedByOwnerStep]_vars
  BY StepFinishes
<1> QED
  BY <1>1, <1>2, <1>3, PTL DEF Spec, FinishedByOwner, FinishedByOwnerStep

(***************************************************************************)
(* What a crawl tells of its schools, where no command line is called for  *)
(* a remap: it may run the crawl job that somebody else enqueued.          *)
(***************************************************************************)
NoRemap == Clis = {} \/ "remap" \notin Kinds

\* Nobody calls for a crawl of some of the schools only.
NoLimit == Limited = {}

\* No job becomes one for a remap.
KindsKept == \A j \in Jobs : jobs'[j].kind = "remap" => jobs[j].kind = "remap"

\* No step makes a remap job where nobody calls for one.
LEMMA StepKinds ==
  ASSUME NoRemap, PlaceInv, [Next]_vars PROVE KindsKept
<1>0. TypeOK /\ jobs \in [Jobs -> JobRows]
  BY Typed DEF PlaceInv
<1>1. CASE UNCHANGED jobs
  BY <1>1 DEF KindsKept
<1>2. CASE RunNow \/ (\E w \in Workers : Enqueue(w)) \/ \E w \in Clis, k \in Kinds : Cli(w, k)
  <2>1. UNCHANGED jobs \/ Insert("crawl_pass")
    BY <1>2, FactsAssumption DEF RunNow, Enqueue, Cli, NoRemap
  <2>2. CASE Insert("crawl_pass")
    <3> DEFINE row == [NoJob EXCEPT !.status = "queued", !.kind = "crawl_pass"]
               n == Min(Unused)
    <3>1. row.kind = "crawl_pass"
      BY DEF NoJob
    <3>2. jobs' = [jobs EXCEPT ![n] = row]
      BY <2>2 DEF Insert
    <3> HIDE DEF row, n
    <3> QED
      BY <1>0, <3>1, <3>2 DEF KindsKept
  <2> QED
    BY <1>1, <2>1, <2>2
<1>3. CASE \E j \in Jobs : Expire(j)
  BY <1>0, <1>3 DEF Expire, JobRows, KindsKept
<1>4. ASSUME NEW w \in Workers, Sweep(w) PROVE KindsKept
  BY <1>0, <1>4 DEF Sweep, Swept, JobRows, KindsKept
<1>5. ASSUME NEW w \in Workers, Claim(w) PROVE KindsKept
  <2>1. PICK j : Claimed(w, j)
    BY <1>0, <1>5, ClaimDoes
  <2> QED
    BY <2>1 DEF Claimed, KindsKept
<1>6. ASSUME NEW w \in Workers, Contended(w) PROVE KindsKept
  <2> DEFINE js == Completed(jobs, wk[w].job, wk[w].claim, "error")
  <2>0. js \in [Jobs -> JobRows]
    BY <1>0, CompletedTyped
  <2>1. \A j \in Jobs : js[j].kind = jobs[j].kind
    BY <1>0 DEF Completed, JobRows
  <2>2. jobs' = [js EXCEPT ![wk[w].job].refused = @ \/ js # jobs]
    BY <1>6 DEF Contended
  <2> HIDE DEF js
  <2> QED
    BY <2>0, <2>1, <2>2 DEF JobRows, KindsKept
<1>7. ASSUME NEW w \in Workers, ClosePass(w) \/ AbortPass(w) \/ Remap(w) \/ MarkCrashed(w)
      PROVE  KindsKept
  <2>1. \E st \in {"done", "error"} : jobs' = Completed(jobs, wk[w].job, wk[w].claim, st)
    BY <1>7 DEF ClosePass, AbortPass, Remap, MarkCrashed
  <2> QED
    BY <1>0, <2>1 DEF Completed, JobRows, KindsKept
<1>8. ASSUME NEW w \in Workers, Renew(w) PROVE KindsKept
  BY <1>0, <1>8 DEF Renew, JobRows, KindsKept
<1>9. CASE \E w \in Workers : PollStep(w)
  BY <1>1, <1>2, <1>4, <1>5, <1>9 DEF PollStep, Boot, PollAgain, CliBeaten
<1>10. CASE \E w \in Workers : PassStep(w)
  BY <1>1, <1>6, <1>7, <1>10 DEF PassStep, OpenRead, OpenInsert, TryLock, Discover, School, Bump, Unlock
<1>11. CASE \E w \in Workers : FaultStep(w)
  BY <1>1, <1>11 DEF FaultStep, Raise, PollFails, MarkFails, Crash, Stop, Gone
<1> QED
  BY <1>1, <1>2, <1>3, <1>8, <1>9, <1>10, <1>11 DEF Next, DayPasses, vars

\* No remap is begun where nobody calls for one.
LEMMA StepNoRemap ==
  ASSUME NoRemap, PlaceInv, NoRemapInv, [Next]_vars
  PROVE  NoRemapInv'
<1>0. TypeOK
  BY DEF PlaceInv
<1>1. \A j \in Jobs : jobs'[j].kind # "remap"
  BY StepKinds DEF KindsKept, NoRemapInv
<1>2. CASE Same
  BY <1>1, <1>2 DEF Same, NoRemapInv
<1>3. ASSUME NEW w \in Workers, RunStep(w)
      PROVE  NoRemapInv'
  <2>1. Only(w) /\ wk'[w].kind # "remap" /\ wk'[w].pc # "remap"
    <3>1. CASE Calm(w)
      BY <3>1 DEF Calm, NoRemap, NoRemapInv
    <3>2. CASE \E r : Inserted(w, r)
      BY <3>2 DEF Inserted, NoRemapInv
    <3>3. CASE Discover(w)
      BY <1>0, <3>3, DiscoverDoes DEF NoRemapInv
    <3>4. CASE \E s \in Schools, out \in Outcomes : School(w, s, out)
      BY <1>0, <3>4, SchoolDoes DEF NoRemapInv, Schooled
    <3>5. CASE Bump(w)
      BY <1>0, <3>5, BumpDoes DEF NoRemapInv, Bumped
    <3>6. CASE \E r, st : Ends(w, r, st)
      BY <3>6 DEF Ends, NoRemapInv
    <3> QED
      BY <1>3, <3>1, <3>2, <3>3, <3>4, <3>5, <3>6 DEF RunStep
  <2> QED
    BY <1>1, <2>1 DEF Only, NoRemapInv
<1> QED
  BY <1>2, <1>3, StepIs

\* CoverInv is preserved by every step.
LEMMA StepCovers ==
  ASSUME PlaceInv, NoRemapInv, CoverInv, [Next]_vars
  PROVE  CoverInv'
<1>0. TypeOK /\ runs \in [Runs -> RunRows]
  BY Typed DEF PlaceInv
<1>1. CASE Same
  BY <1>1 DEF Same, CoverInv
<1>2. ASSUME NEW w \in Workers, Calm(w)
      PROVE  CoverInv'
  BY <1>2 DEF Calm, Only, CoverInv
<1>3. ASSUME NEW w \in Workers, NEW r, Inserted(w, r), wk[w].pc = "insert"
      PROVE  CoverInv'
  <2>1. \A v \in Workers : wk[v].pc \in Crawling => runs'[wk[v].run] = runs[wk[v].run]
    BY <1>3 DEF PlaceInv, WorkerOK, Crawling, WithRun, Inserted, NoRun
  <2>2. \A v \in Workers : wk'[v].pc \in Crawling => wk'[v] = wk[v]
    BY <1>3 DEF Inserted, Only, Crawling
  <2>3. \A x \in Runs : runs'[x].status = "succeeded" => runs'[x] = runs[x]
    BY <1>3 DEF Inserted
  <2> QED
    BY <2>1, <2>2, <2>3 DEF CoverInv
<1>4. ASSUME NEW w \in Workers, Discover(w)
      PROVE  CoverInv'
  <2>1. /\ runs' = runs /\ Only(w) /\ wk'[w].run = wk[w].run
        /\ w \notin Limited => wk'[w].pend = Schools \ runs[wk[w].run].attempted
    BY <1>0, <1>4, DiscoverDoes DEF Discover, Pending
  <2> QED
    BY <2>1 DEF Only, CoverInv
<1>5. ASSUME NEW w \in Workers, NEW s \in Schools, NEW out \in Outcomes, School(w, s, out)
      PROVE  CoverInv'
  <2> DEFINE own == wk[w].run
  <2>1. Schooled(w, s, out) /\ wk[w].pc = "school"
    BY <1>0, <1>5, SchoolDoes DEF School
  <2>2. own \in Runs /\ runs[own].status # "none"
    BY <2>1 DEF PlaceInv, WorkerOK, WithRun
  <2>3. \A v \in Workers : v # w => wk'[v].pc \notin Crawling
    <3>1. \A v \in Workers : v # w => wk[v].pc \notin Locked
      BY <2>1, BumpAlone DEF Locked
    <3> QED
      BY <2>1, <3>1 DEF Schooled, Only, Locked, Crawling
  <2>4. CASE out = "rollback"
    <3>0. wk'[w].fail = (wk[w].fail \/ out # "ok")
      BY <2>1 DEF Schooled
    <3>1. runs' = runs /\ wk'[w].fail
      BY <1>0, <1>5, <2>4, <3>0, SchoolDoes
    <3> QED
      BY <2>3, <3>1 DEF CoverInv
  <2>5. CASE out # "rollback"
    <3>1. Attempted(s, own)
      BY <1>0, <1>5, <2>5, SchoolDoes
    <3>2. runs'[own].attempted = runs[own].attempted \cup {s}
      BY <2>2, <3>1 DEF Attempted
    <3>3. w \notin Limited /\ ~wk'[w].fail => Schools \subseteq wk'[w].pend \cup runs'[wk'[w].run].attempted
      <4>1. ~wk'[w].fail => ~wk[w].fail
        BY <2>1 DEF Schooled
      <4>2. w \notin Limited /\ ~wk[w].fail => Schools \subseteq wk[w].pend \cup runs[own].attempted
        BY <2>1 DEF CoverInv, Crawling
      <4>3. wk'[w].pend = wk[w].pend \ {s} /\ wk'[w].run = own
        BY <2>1 DEF Schooled
      <4> QED
        BY <3>2, <4>1, <4>2, <4>3
    <3>4. Limited = {} => \A r \in Runs : runs'[r].status = "succeeded" => runs'[r].attempted = Schools
      <4> SUFFICES ASSUME Limited = {}, NEW r \in Runs, runs'[r].status = "succeeded"
                   PROVE  runs'[r].attempted = Schools
        OBVIOUS
      <4>1. runs[r].attempted = Schools /\ runs'[r].attempted = runs[r].attempted \cup {s}
        BY <3>1 DEF CoverInv, Attempted
      <4> QED
        BY <4>1
    <3> QED
      BY <2>3, <3>3, <3>4 DEF CoverInv
  <2> QED
    BY <2>4, <2>5
<1>6. ASSUME NEW w \in Workers, Bump(w)
      PROVE  CoverInv'
  <2>1. Bumped(w) /\ wk[w].pc = "bump"
    BY <1>0, <1>6, BumpDoes DEF Bump
  <2>2. \A v \in Workers : wk'[v].pc \in Crawling =>
          /\ wk[v].pc \in Crawling /\ wk[v].run \in Runs
          /\ wk'[v].run = wk[v].run /\ wk'[v].pend = wk[v].pend /\ wk'[v].fail = wk[v].fail
    BY <2>1 DEF Bumped, Only, Crawling, PlaceInv, WorkerOK, WithRun
  <2>3. \A r \in Runs : runs'[r].status = runs[r].status /\ runs'[r].attempted = runs[r].attempted
    BY <2>1 DEF Bumped
  <2> QED
    BY <2>2, <2>3 DEF CoverInv
<1>7. ASSUME NEW w \in Workers, NEW r, NEW st, Ends(w, r, st)
      PROVE  CoverInv'
  <2>1. \A x \in Runs : /\ runs'[x].attempted = runs[x].attempted
                        /\ runs'[x].status = runs[x].status \/ (x = r /\ runs'[x].status = st)
    BY <1>0, <1>7, EndsRuns
  <2>2. \A v \in Workers : wk'[v].pc \in Crawling =>
          wk[v].pc \in Crawling /\ wk[v].run \in Runs /\ wk'[v] = wk[v]
    BY <1>7 DEF Ends, Only, Crawling, PlaceInv, WorkerOK, WithRun
  <2>3. Limited = {} /\ r \in Runs /\ st = "succeeded" => runs[r].attempted = Schools
    <3> SUFFICES ASSUME Limited = {}, r \in Runs, st = "succeeded" PROVE runs[r].attempted = Schools
      OBVIOUS
    <3>1. wk[w].pc = "school" /\ wk[w].pend = {} /\ r = wk[w].run /\ ~wk[w].fail
      BY <1>7 DEF Ends, NoRemapInv, PassStatus
    <3>2. Schools \subseteq runs[r].attempted
      BY <3>1 DEF CoverInv, Crawling
    <3> QED
      BY <1>0, <3>2 DEF RunRows
  <2> QED
    BY <2>1, <2>2, <2>3 DEF CoverInv
<1> QED
  BY <1>1, <1>2, <1>3, <1>4, <1>5, <1>6, <1>7, StepIs DEF RunStep

\* Nothing is covered, and nothing needs to be, at the start.
LEMMA InitCovers ==
  ASSUME Init PROVE NoRemapInv /\ CoverInv
BY DEF Init, NoRemapInv, CoverInv, Off, NoJob, NoRun, Crawling

\* A step records a crawl as succeeded only if it leaves no school out, or if the
\* invocation that closes it was given a limit (ClosePass).
LEMMA StepSucceeds ==
  ASSUME PlaceInv, NoRemapInv, CoverInv, [Next]_vars,
         NEW r \in Runs, runs[r].status # "succeeded", runs'[r].status = "succeeded"
  PROVE  \/ runs[r].attempted = Schools
         \/ \E w \in Limited : /\ wk[w].run = r /\ wk[w].pc = "school"
                               /\ wk'[w].pc = "unlock"
<1>0. TypeOK /\ runs \in [Runs -> RunRows]
  BY Typed DEF PlaceInv
<1>1. ~Same
  BY DEF Same
<1>2. PICK w \in Workers : RunStep(w)
  BY <1>1, StepIs
<1>3. ~Calm(w) /\ ~Discover(w)
  BY DEF Calm, Discover
<1>4. ~\E x : Inserted(w, x)
  BY DEF Inserted
<1>5. ~\E s \in Schools, out \in Outcomes : School(w, s, out)
  <2> SUFFICES ASSUME NEW s \in Schools, NEW out \in Outcomes, School(w, s, out)
               PROVE  FALSE
    OBVIOUS
  <2>1. runs' = runs \/ Attempted(s, wk[w].run)
    BY <1>0, SchoolDoes
  <2> QED
    BY <2>1 DEF Attempted
<1>6. ~Bump(w)
  BY <1>0, BumpDoes DEF Bumped
<1>7. PICK x, st : Ends(w, x, st)
  BY <1>2, <1>3, <1>4, <1>5, <1>6 DEF RunStep
<1>8. x = r /\ st = "succeeded"
  BY <1>0, <1>7, EndsRuns
<1>9. wk[w].pc = "school" /\ wk[w].pend = {} /\ r = wk[w].run /\ ~wk[w].fail
  BY <1>7, <1>8 DEF Ends, NoRemapInv, PassStatus
<1>10. CASE w \notin Limited
  <2>1. Schools \subseteq runs[r].attempted
    BY <1>9, <1>10 DEF CoverInv, Crawling
  <2> QED
    BY <1>0, <2>1 DEF RunRows
<1>11. CASE w \in Limited
  <2>1. wk'[w].pc = "unlock"
    BY <1>7, <1>8, <1>9 DEF Ends
  <2> QED
    BY <1>9, <1>11, <2>1
<1> QED
  BY <1>10, <1>11

\* Where nobody calls for a remap, a crawl is recorded as succeeded only once
\* every school was attempted since its run began, however many processes it
\* took, unless an invocation with --limit closes it (schools_pending_this_run,
\* _run_crawl_pass_locked).
THEOREM CrawlsAreComplete ==
  ASSUME NoRemap PROVE Spec => PassCovers
<1>1. Init => PlaceInv /\ NoRemapInv /\ CoverInv
  BY InitPlaces, InitCovers
<1>2. PlaceInv /\ NoRemapInv /\ CoverInv /\ [Next]_vars => PlaceInv' /\ NoRemapInv' /\ CoverInv'
  BY NextPlaces, StepNoRemap, StepCovers
<1>3. PlaceInv /\ NoRemapInv /\ CoverInv /\ [Next]_vars =>
        [\A r \in Runs :
           (/\ runs[r].status # "succeeded" /\ runs'[r].status = "succeeded"
            /\ jobs[runs[r].job].kind = "crawl_pass")
             => \/ runs[r].attempted = Schools
                \/ \E w \in Limited : /\ wk[w].run = r /\ wk[w].pc = "school"
                                      /\ wk'[w].pc = "unlock"]_vars
  BY StepSucceeds
<1> QED
  BY <1>1, <1>2, <1>3, PTL DEF Spec, PassCovers

\* As long as nothing failed: the two halves of FailInv.
FailWorkers ==
  \A w \in Workers : /\ wk[w].pc # "crashed"
                     /\ wk[w].pc = "bump" /\ wk[w].out = "page" => wk[w].fail
                     /\ wk[w].pc = "bump" => runs[wk[w].run].status # "succeeded"
FailRuns ==
  \A r \in Runs : runs[r].failed =>
    /\ runs[r].status # "succeeded"
    /\ runs[r].status = "running" =>
         \E w \in Workers : wk[w].pc \in Crawling /\ wk[w].run = r /\ wk[w].fail

\* The two halves of FailInv.
LEMMA FailParts ==
  FailInv <=> (faults = 0 => FailWorkers /\ FailRuns)
BY DEF FailInv, FailWorkers, FailRuns

\* Workers outside the loop over the schools do not matter.
LEMMA FailQuiet ==
  ASSUME FailWorkers, FailRuns, NEW w \in Workers, Only(w),
         wk[w].pc \notin Crawling, wk'[w].pc \notin Crawling \cup {"crashed"},
         \A r \in Runs : \/ runs'[r] = runs[r]
                         \/ ~runs'[r].failed /\ runs'[r].status # "succeeded",
         \A v \in Workers : wk[v].pc \in Crawling => wk[v].run \in Runs
  PROVE  FailWorkers' /\ FailRuns'
<1>1. FailWorkers'
  <2>1. \A v \in Workers : v # w => wk'[v] = wk[v]
    BY DEF Only
  <2> QED
    BY <2>1 DEF FailWorkers, Crawling
<1>2. FailRuns'
  <2>1. \A v \in Workers : wk[v].pc \in Crawling => wk'[v] = wk[v]
    BY DEF Only
  <2> QED
    BY <2>1 DEF FailRuns
<1> QED
  BY <1>1, <1>2

\* Who is at the schools stays at them, and does not forget a failure.
CrawlersGoOn ==
  \A v \in Workers : wk[v].pc \in Crawling =>
    /\ wk'[v].pc \in Crawling
    /\ wk'[v].run = wk[v].run
    /\ wk[v].fail => wk'[v].fail

\* A run whose status stays, and whose worker goes on.
LEMMA FailKept ==
  ASSUME FailRuns, NEW r \in Runs, runs[r].failed, runs'[r].status = runs[r].status,
         CrawlersGoOn
  PROVE  /\ runs'[r].status # "succeeded"
         /\ runs'[r].status = "running" =>
              \E v \in Workers : wk'[v].pc \in Crawling /\ wk'[v].run = r /\ wk'[v].fail
<1>1. runs'[r].status # "succeeded"
  BY DEF FailRuns
<1>2. ASSUME runs'[r].status = "running"
      PROVE  \E v \in Workers : wk'[v].pc \in Crawling /\ wk'[v].run = r /\ wk'[v].fail
  <2>1. PICK v \in Workers : wk[v].pc \in Crawling /\ wk[v].run = r /\ wk[v].fail
    BY <1>2 DEF FailRuns
  <2>2. wk'[v].pc \in Crawling /\ wk'[v].run = r /\ wk'[v].fail
    BY <2>1 DEF CrawlersGoOn
  <2> QED
    BY <2>2
<1> QED
  BY <1>1, <1>2

\* FailInv is preserved by every step.
LEMMA StepFails ==
  ASSUME NoLimit, PlaceInv, NoRemapInv, CoverInv, FailInv, [Next]_vars
  PROVE  FailInv'
<1>0. /\ TypeOK /\ faults \in Nat /\ runs \in [Runs -> RunRows]
      /\ \A v \in Workers : wk[v].pc \in Crawling => wk[v].run \in Runs
  BY Typed, FactsAssumption DEF PlaceInv, WorkerOK, Crawling, WithRun
<1>1. CASE Same
  BY <1>1 DEF Same, FailInv
<1>2. ASSUME NEW w \in Workers, RunStep(w)
      PROVE  FailInv'
  <2>1. CASE faults' = faults + 1
    BY <1>0, <2>1 DEF FailInv
  <2>2. CASE faults' # faults + 1
    <3>1. faults' = faults
      BY <1>2, <2>2 DEF RunStep, Calm, Discover, School, Bump, Ends
    <3> SUFFICES ASSUME FailWorkers, FailRuns PROVE FailWorkers' /\ FailRuns'
      BY <3>1, FailParts DEF FailInv, FailWorkers, FailRuns
    <3>2. CASE Calm(w)
      BY <1>0, <2>2, <3>2, FailQuiet DEF Calm
    <3>3. ASSUME NEW r, Inserted(w, r), wk[w].pc = "insert"
          PROVE  FailWorkers' /\ FailRuns'
      <4>1. wk'[w].pc \notin Crawling \cup {"crashed"} /\ wk[w].pc \notin Crawling /\ Only(w)
        BY <3>3 DEF Inserted, Crawling
      <4>2. \A x \in Runs : \/ runs'[x] = runs[x]
                            \/ ~runs'[x].failed /\ runs'[x].status # "succeeded"
        BY <3>3 DEF Inserted
      <4> QED
        BY <1>0, <4>1, <4>2, FailQuiet
    <3>4. CASE Discover(w)
      <4>1. Only(w) /\ wk'[w].pc = "school" /\ wk[w].pc = "discover" /\ runs' = runs
        BY <1>0, <3>4, DiscoverDoes DEF Discover
      <4>2. FailWorkers'
        BY <4>1 DEF Only, FailWorkers
      <4>3. \A v \in Workers : wk[v].pc \in Crawling => wk'[v] = wk[v]
        BY <4>1 DEF Only, Crawling
      <4>4. FailRuns'
        BY <4>1, <4>3 DEF FailRuns
      <4> QED
        BY <4>2, <4>4
    <3>5. ASSUME NEW s \in Schools, NEW out \in Outcomes, School(w, s, out)
          PROVE  FailWorkers' /\ FailRuns'
      <4> DEFINE own == wk[w].run
      <4>1. /\ Schooled(w, s, out) /\ wk[w].pc = "school" /\ s \in wk[w].pend
            /\ \/ runs' = runs
               \/ Attempted(s, own)
        BY <1>0, <3>5, SchoolDoes DEF School
      <4>2. own \in Runs /\ wk[w].pend \cap runs[own].attempted = {}
        BY <4>1 DEF PlaceInv, WorkerOK, WithRun, Crawling
      <4>3. runs[own].status # "succeeded"
        BY <4>1, <4>2 DEF CoverInv, NoLimit
      <4>4. \A r \in Runs : runs'[r].status = runs[r].status /\ runs'[r].failed = runs[r].failed
        BY <4>1 DEF Attempted
      <4>5. /\ Only(w) /\ wk'[w].pc = "bump" /\ wk'[w].run = own /\ wk'[w].out = out
            /\ wk[w].fail => wk'[w].fail
            /\ out = "page" => wk'[w].fail
        <5>1. wk'[w].fail = (wk[w].fail \/ out # "ok")
          BY <4>1 DEF Schooled
        <5> QED
          BY <4>1, <5>1 DEF Schooled
      <4>6. FailWorkers'
        <5> SUFFICES ASSUME NEW v \in Workers
                     PROVE  /\ wk'[v].pc # "crashed"
                            /\ wk'[v].pc = "bump" /\ wk'[v].out = "page" => wk'[v].fail
                            /\ wk'[v].pc = "bump" => runs'[wk'[v].run].status # "succeeded"
          BY DEF FailWorkers
        <5>1. CASE v = w
          BY <4>2, <4>3, <4>4, <4>5, <5>1
        <5>2. CASE v # w
          BY <1>0, <4>4, <4>5, <5>2 DEF FailWorkers, Only, Crawling
        <5> QED
          BY <5>1, <5>2
      <4>7. CrawlersGoOn
        BY <4>5 DEF Only, Crawling, CrawlersGoOn
      <4>8. FailRuns'
        <5> SUFFICES ASSUME NEW r \in Runs, runs'[r].failed
                     PROVE  /\ runs'[r].status # "succeeded"
                            /\ runs'[r].status = "running" =>
                                 \E v \in Workers : wk'[v].pc \in Crawling /\ wk'[v].run = r /\ wk'[v].fail
          BY DEF FailRuns
        <5>1. runs[r].failed /\ runs'[r].status = runs[r].status
          BY <4>4
        <5> QED
          BY <4>7, <5>1, FailKept
      <4> QED
        BY <4>6, <4>8
    <3>6. CASE Bump(w)
      <4> DEFINE own == wk[w].run
      <4>1. Bumped(w) /\ wk[w].pc = "bump" /\ own \in Runs
        BY <1>0, <3>6, BumpDoes DEF Bump, PlaceInv, WorkerOK, WithRun
      <4>2. \A r \in Runs : runs'[r].status = runs[r].status /\ (r # own => runs'[r] = runs[r])
        BY <4>1 DEF Bumped
      <4>3. FailWorkers'
        BY <1>0, <4>1, <4>2 DEF Bumped, Only, FailWorkers, Crawling
      <4>4. CrawlersGoOn
        BY <4>1 DEF Bumped, Only, Crawling, CrawlersGoOn
      <4>5. runs'[own].failed => runs[own].failed \/ wk[w].fail
        <5>1. runs'[own].failed = (runs[own].failed \/ wk[w].out = "page")
          BY <4>1 DEF Bumped
        <5>2. wk[w].out = "page" => wk[w].fail
          BY <4>1 DEF FailWorkers
        <5> QED
          BY <5>1, <5>2
      <4>6. runs[own].status # "succeeded"
        BY <4>1 DEF FailWorkers
      <4>7. FailRuns'
        <5> SUFFICES ASSUME NEW r \in Runs, runs'[r].failed
                     PROVE  /\ runs'[r].status # "succeeded"
                            /\ runs'[r].status = "running" =>
                                 \E v \in Workers : wk'[v].pc \in Crawling /\ wk'[v].run = r /\ wk'[v].fail
          BY DEF FailRuns
        <5>1. CASE runs[r].failed
          BY <4>2, <4>4, <5>1, FailKept
        <5>2. CASE ~runs[r].failed
          <6>1. r = own /\ wk[w].fail
            BY <4>2, <4>5, <5>2
          <6>2. wk[w].pc \in Crawling
            BY <4>1 DEF Crawling
          <6>3. wk'[w].pc \in Crawling /\ wk'[w].run = r /\ wk'[w].fail
            BY <4>4, <6>1, <6>2 DEF CrawlersGoOn
          <6>4. runs'[r].status # "succeeded"
            BY <4>1, <4>2, <4>6, <6>1
          <6> QED
            BY <6>3, <6>4
        <5> QED
          BY <5>1, <5>2
      <4> QED
        BY <4>3, <4>7
    <3>7. ASSUME NEW r, NEW st, Ends(w, r, st)
          PROVE  FailWorkers' /\ FailRuns'
      <4>1. Only(w) /\ wk'[w].pc \in {"unlock", "off", "sweep"} /\ wk[w].pc # "crashed"
            /\ wk[w].pc \in Locked /\ wk[w].pc # "bump" /\ r = wk[w].run /\ r \in Runs
        BY <3>7 DEF Ends, FailWorkers, NoRemapInv, Locked, PlaceInv, WorkerOK, WithRun
      <4>2. \A x \in Runs : /\ runs'[x].failed = runs[x].failed
                            /\ \/ runs'[x].status = runs[x].status
                               \/ x = r /\ runs[x].status = "running" /\ runs'[x].status = st
                            /\ x = r /\ runs[x].status = "running" => runs'[x].status = st
        BY <1>0, <3>7, EndsRuns
      <4>3. \A v \in Workers : v # w => wk[v].pc \notin Crawling
        BY <4>1, BumpAlone DEF Locked, Crawling
      <4>4. FailWorkers'
        BY <4>1, <4>3 DEF FailWorkers, Only, Crawling
      <4>5. st # "running"
        BY <3>7 DEF Ends, PassStatus
      <4>6. FailRuns'
        <5> SUFFICES ASSUME NEW x \in Runs, runs[x].failed
                     PROVE  runs'[x].status \notin {"running", "succeeded"}
          BY <4>2 DEF FailRuns
        <5>1. runs[x].status # "succeeded"
          BY DEF FailRuns
        <5>2. CASE runs[x].status = "running"
          <6>1. wk[w].pc \in Crawling /\ wk[w].run = x /\ wk[w].fail
            BY <4>3, <5>2 DEF FailRuns
          <6>2. st # "succeeded" /\ x = r
            BY <3>7, <4>1, <6>1 DEF Ends, PassStatus, Crawling
          <6> QED
            BY <4>2, <4>5, <5>2, <6>2
        <5>3. CASE runs[x].status # "running"
          BY <4>2, <5>1, <5>3
        <5> QED
          BY <5>2, <5>3
      <4> QED
        BY <4>4, <4>6
    <3> QED
      BY <1>2, <3>2, <3>3, <3>4, <3>5, <3>6, <3>7 DEF RunStep
  <2> QED
    BY <2>1, <2>2
<1> QED
  BY <1>1, <1>2, StepIs

\* FailInv holds at the start.
LEMMA InitFails ==
  ASSUME Init PROVE FailInv
BY DEF Init, FailInv, Off, NoRun, Crawling

\* What became of the schools of a pass is told: every one is counted, but for
\* one at each death, and, as long as nothing died or raised, a crawl whose row
\* counts a failed page is not recorded as succeeded (bump_run_counters,
\* finish_run, _run_crawl_pass_locked).
THEOREM OutcomesAreTold ==
  ASSUME NoRemap, NoLimit PROVE Spec => []OutcomeTold
<1>1. Init => PlaceInv /\ NoRemapInv /\ CoverInv /\ FailInv
  BY InitPlaces, InitCovers, InitFails
<1>2. PlaceInv /\ NoRemapInv /\ CoverInv /\ FailInv /\ [Next]_vars =>
        PlaceInv' /\ NoRemapInv' /\ CoverInv' /\ FailInv'
  BY NextPlaces, StepNoRemap, StepCovers, StepFails
<1>3. FailInv => FailuresTold
  BY DEF FailInv, FailuresTold, Crawled
<1>4. CountsComplete /\ FailuresTold => OutcomeTold
  BY DEF OutcomeTold
<1> QED
  BY <1>1, <1>2, <1>3, <1>4, SchoolsAreCounted, PTL DEF Spec

(***************************************************************************)
(* Who owns a job, while no lease expires that is being renewed.           *)
(***************************************************************************)
OwnInv == ClaimInv /\ LeaseInv /\ RunInv /\ ReachInv

\* The worker w leaves its pass, or goes on in it where it opened its run; it
\* fails into the exception handler from inside the pass.
Leaves(w) == Only(w) /\ wk'[w].pc \notin InPass

Within(w) ==
  /\ Only(w)
  /\ wk[w].pc \in InPass \ {"unlock"} /\ wk'[w].pc \in InPass \ {"open", "insert", "unlock"}
  /\ wk'[w].job = wk[w].job /\ wk'[w].claim = wk[w].claim /\ wk'[w].keeper = wk[w].keeper
  /\ wk'[w].pc \in WithRun => wk[w].pc \in WithRun /\ wk'[w].run = wk[w].run

RunsStay == \A r \in Runs : runs'[r].status = runs[r].status /\ runs'[r].job = runs[r].job

\* No job changes, except that rows are inserted.
Quiet ==
  /\ \A j \in Jobs : jobs'[j] = jobs[j] \/ (jobs[j].status = "none" /\ jobs'[j].status = "queued")
  /\ RunsStay
  /\ UNCHANGED claims

\* What the proofs about owners use of PlaceInv.
LEMMA OwnTypes ==
  ASSUME PlaceInv
  PROVE  /\ TypeOK /\ claims \in Nat
         /\ jobs \in [Jobs -> JobRows] /\ runs \in [Runs -> RunRows]
         /\ wk \in [Workers -> WorkerRecords]
         /\ \A w \in Workers : /\ wk[w].pc \in InPass => wk[w].job \in Jobs /\ wk[w].claim <= claims
                                                         /\ wk[w].claim \in Nat
                               /\ wk[w].pc \in WithRun => /\ wk[w].run \in Runs
                                                          /\ runs[wk[w].run].job = wk[w].job
                                                          /\ runs[wk[w].run].status # "none"
<1>1. /\ TypeOK /\ claims \in Nat
      /\ jobs \in [Jobs -> JobRows] /\ runs \in [Runs -> RunRows]
      /\ wk \in [Workers -> WorkerRecords]
  BY Typed, FactsAssumption DEF PlaceInv
<1> QED
  BY <1>1 DEF PlaceInv, WorkerOK

\* A step that changes no job preserves the ownership of all.
LEMMA QuietOwns ==
  ASSUME PlaceInv, OwnInv, Quiet,
         wk' = wk \/ \E w \in Workers : Leaves(w) \/ Within(w)
  PROVE  OwnInv'
<1>0. \A w \in Workers : wk[w].pc \in InPass => wk[w].job \in Jobs
  BY OwnTypes
<1>1. \A w \in Workers : wk'[w].pc \in InPass =>
        /\ wk[w].pc \in InPass /\ wk'[w].job = wk[w].job /\ wk'[w].claim = wk[w].claim
        /\ wk'[w].keeper = wk[w].keeper
        /\ wk'[w].pc \in WithRun => wk[w].pc \in WithRun /\ wk'[w].run = wk[w].run
        /\ wk'[w].pc \in {"open", "insert"} => wk[w].pc = wk'[w].pc
        /\ wk'[w].pc # "unlock" => wk[w].pc # "unlock"
  BY DEF Leaves, Within, Only
<1>2. \A w \in Workers : wk'[w].pc \in InPass /\ Owns(w)' =>
        Owns(w) /\ jobs'[wk[w].job] = jobs[wk[w].job]
  BY <1>0, <1>1 DEF Quiet, Owns
<1>3. \A w \in Workers : wk'[w].pc \in InPass /\ Owns(w) =>
        Owns(w)' /\ jobs'[wk[w].job] = jobs[wk[w].job]
  BY <1>0, <1>1 DEF Quiet, Owns
<1>4. \A w \in Workers : Leased(w)' => Leased(w) /\ wk'[w].pc \in InPass
  BY <1>1 DEF Leased, InPass
<1>5. ClaimInv'
  BY <1>1 DEF OwnInv, ClaimInv
<1>6. LeaseInv'
  BY <1>1, <1>3, <1>4 DEF OwnInv, LeaseInv
<1>7. RunInv'
  BY <1>1, <1>2 DEF OwnInv, RunInv, Quiet, RunsStay, InPass, WithRun
<1>8. ReachInv'
  BY DEF OwnInv, ReachInv, Quiet, RunsStay
<1> QED
  BY <1>5, <1>6, <1>7, <1>8 DEF OwnInv

\* The leases change, and nothing else of a job.
LeasesOnly ==
  \A j \in Jobs : /\ jobs'[j].status = jobs[j].status /\ jobs'[j].started = jobs[j].started
                  /\ jobs'[j].refused = jobs[j].refused

\* So does one that only changes leases, if no leased worker's lease is lost.
LEMMA LeasesOwn ==
  ASSUME PlaceInv, OwnInv, LeasesOnly, RunsStay,
         \A w \in Workers : /\ wk'[w].pc = wk[w].pc /\ wk'[w].job = wk[w].job
                            /\ wk'[w].claim = wk[w].claim /\ wk'[w].run = wk[w].run,
         \A w \in Workers : Leased(w) =>
           jobs'[wk[w].job].lease = "valid" /\ wk'[w].keeper = wk[w].keeper
  PROVE  OwnInv'
<1>0. \A w \in Workers : wk[w].pc \in InPass => wk[w].job \in Jobs
  BY OwnTypes
<1>1. \A w \in Workers : wk[w].pc \in InPass => (Owns(w)' <=> Owns(w))
  BY <1>0 DEF Owns, LeasesOnly
<1>2. \A w \in Workers : (Leased(w)' <=> Leased(w)) /\ (Leased(w) => wk[w].pc \in InPass)
  BY DEF Leased, InPass
<1>3. ClaimInv'
  BY DEF OwnInv, ClaimInv
<1>4. LeaseInv'
  BY <1>1, <1>2 DEF OwnInv, LeaseInv
<1>5. RunInv'
  BY <1>1 DEF OwnInv, RunInv, RunsStay, InPass, WithRun
<1>6. ReachInv'
  BY DEF OwnInv, ReachInv, RunsStay, LeasesOnly
<1> QED
  BY <1>3, <1>4, <1>5, <1>6 DEF OwnInv

\* A lease expires only where no worker keeps it.
LEMMA ExpireOwns ==
  ASSUME "lease" \notin Faults, PlaceInv, OwnInv, NEW j \in Jobs, Expire(j)
  PROVE  OwnInv'
<1>0. jobs \in [Jobs -> JobRows] /\ \A w \in Workers : wk[w].pc \in InPass => wk[w].job \in Jobs
  BY OwnTypes
<1>1. LeasesOnly /\ \A x \in Jobs : x # j => jobs'[x].lease = jobs[x].lease
  BY <1>0 DEF Expire, LeasesOnly, JobRows
<1>2. \A w \in Workers : Leased(w) => wk[w].job # j
  <2> SUFFICES ASSUME NEW w \in Workers, Leased(w), wk[w].job = j PROVE FALSE
    OBVIOUS
  <2>1. Owns(w) /\ (wk[w].keeper \/ wk[w].pc \in {"open", "insert"})
    BY DEF OwnInv, LeaseInv, Leased
  <2>2. Kept(j)
    BY <2>1 DEF Kept, Owns
  <2> QED
    BY <2>2 DEF Expire
<1>3. \A w \in Workers : Leased(w) => jobs'[wk[w].job].lease = "valid"
  BY <1>0, <1>1, <1>2 DEF OwnInv, LeaseInv, Leased, InPass
<1> QED
  BY <1>1, <1>3, LeasesOwn DEF Expire, RunsStay

\* A renewal takes no lease away.
LEMMA RenewOwns ==
  ASSUME PlaceInv, OwnInv, NEW w \in Workers, Renew(w)
  PROVE  OwnInv'
<1>0. /\ jobs \in [Jobs -> JobRows] /\ wk \in [Workers -> WorkerRecords]
      /\ \A v \in Workers : wk[v].pc \in InPass => wk[v].job \in Jobs
  BY OwnTypes
<1>1. CASE jobs[wk[w].job].status = "running"
  <2>1. jobs' = [jobs EXCEPT ![wk[w].job].lease = "valid"] /\ wk' = wk /\ runs' = runs
    BY <1>1 DEF Renew
  <2>2. LeasesOnly /\ \A x \in Jobs : jobs'[x].lease \in {jobs[x].lease, "valid"}
    BY <1>0, <2>1 DEF LeasesOnly, JobRows
  <2>3. \A v \in Workers : Leased(v) => jobs'[wk[v].job].lease = "valid"
    BY <1>0, <2>2 DEF OwnInv, LeaseInv, Leased, InPass
  <2> QED
    BY <2>1, <2>2, <2>3, LeasesOwn DEF RunsStay
<1>2. CASE jobs[wk[w].job].status # "running"
  <2>1. jobs' = jobs /\ wk' = [wk EXCEPT ![w].keeper = FALSE] /\ runs' = runs
    BY <1>2 DEF Renew
  <2>2. ~Leased(w)
    BY <1>2 DEF OwnInv, LeaseInv, Owns
  <2>3. \A v \in Workers : /\ wk'[v].pc = wk[v].pc /\ wk'[v].job = wk[v].job
                           /\ wk'[v].claim = wk[v].claim /\ wk'[v].run = wk[v].run
                           /\ v # w => wk'[v].keeper = wk[v].keeper
    BY <1>0, <2>1 DEF WorkerRecords
  <2>4. \A v \in Workers : Leased(v) =>
           jobs'[wk[v].job].lease = "valid" /\ wk'[v].keeper = wk[v].keeper
    BY <2>1, <2>2, <2>3 DEF OwnInv, LeaseInv
  <2> QED
    BY <2>1, <2>3, <2>4, LeasesOwn DEF RunsStay, LeasesOnly
<1> QED
  BY <1>1, <1>2

\* The sweep takes no job from a worker that keeps its lease.
LEMMA SweepOwns ==
  ASSUME PlaceInv, OwnInv, NEW w \in Workers, Sweep(w)
  PROVE  OwnInv'
<1>0. TypeOK /\ jobs \in [Jobs -> JobRows]
      /\ \A v \in Workers : wk[v].pc \in InPass => wk[v].job \in Jobs
  BY OwnTypes
<1>1. Walks(w, "enqueue") /\ wk[w].pc = "sweep"
  BY <1>0, GotoWalks DEF Sweep, Goto, WorkerStates
<1>2. \A v \in Workers : wk'[v].pc \in InPass => wk'[v] = wk[v]
  BY <1>1 DEF Walks, Only, InPass
<1>3. \A j \in Jobs : \/ jobs'[j] = jobs[j]
                      \/ /\ jobs[j].status = "running" /\ jobs[j].lease = "expired"
                         /\ jobs'[j].status = "queued"
  BY <1>0 DEF Sweep, Swept, JobRows
<1>4. runs' = runs
  BY DEF Sweep
<1>5. \A v \in Workers : wk'[v].pc \in InPass /\ Owns(v)' => Owns(v)
  BY <1>0, <1>2, <1>3 DEF Owns
<1>6. \A v \in Workers : Leased(v)' => Leased(v) /\ wk'[v] = wk[v]
  BY <1>2 DEF Leased, InPass
<1>7. \A v \in Workers : Leased(v) => jobs'[wk[v].job] = jobs[wk[v].job]
  BY <1>0, <1>3 DEF OwnInv, LeaseInv, Leased, InPass
<1>8. ClaimInv'
  BY <1>2 DEF OwnInv, ClaimInv
<1>9. LeaseInv'
  BY <1>6, <1>7 DEF OwnInv, LeaseInv, Owns
<1>10. RunInv'
  BY <1>2, <1>4, <1>5 DEF OwnInv, RunInv, InPass, WithRun
<1>11. ReachInv'
  BY <1>3, <1>4 DEF OwnInv, ReachInv
<1> QED
  BY <1>8, <1>9, <1>10, <1>11 DEF OwnInv

\* A claim is new, so the job it takes is owned by one worker.
LEMMA ClaimOwns ==
  ASSUME PlaceInv, OwnInv, NEW w \in Workers, Claim(w)
  PROVE  OwnInv'
<1>0. /\ TypeOK /\ claims \in Nat /\ jobs \in [Jobs -> JobRows]
      /\ \A v \in Workers : wk[v].pc \in InPass =>
           wk[v].job \in Jobs /\ wk[v].claim <= claims /\ wk[v].claim \in Nat
  BY OwnTypes
<1>1. PICK j : Claimed(w, j)
  BY <1>0, ClaimDoes
<1>2. \A v \in Workers : v # w => wk'[v] = wk[v]
  BY <1>1 DEF Claimed, Only
<1>3. runs' = runs
  BY DEF Claim
<1>4. \A v \in Workers : v # w /\ wk[v].pc \in InPass /\ Owns(v)' => Owns(v)
  BY <1>0, <1>1, <1>2 DEF Owns, Claimed
<1>5. \A v \in Workers : Leased(v) => wk[v].job \in Jobs /\ jobs'[wk[v].job] = jobs[wk[v].job]
  BY <1>0, <1>1 DEF OwnInv, LeaseInv, Owns, Claimed, Leased, InPass
<1>6. ClaimInv'
  <2>1. wk'[w].claim = claims + 1 /\ \A v \in Workers : wk[v].pc \in InPass => wk[v].claim # claims + 1
    BY <1>0, <1>1 DEF Claimed
  <2> QED
    BY <1>2, <2>1 DEF OwnInv, ClaimInv
<1>7. LeaseInv'
  <2>1. Owns(w)' /\ jobs'[wk'[w].job].lease = "valid" /\ (w \in Pollers => wk'[w].keeper)
    BY <1>1 DEF Claimed, Owns
  <2>2. \A v \in Workers : v # w => (Leased(v)' => Leased(v))
    BY <1>2 DEF Leased
  <2> QED
    BY <1>2, <1>5, <2>1, <2>2 DEF OwnInv, LeaseInv, Owns
<1>8. RunInv'
  <2>1. wk'[w].pc = "open"
    BY <1>1 DEF Claimed
  <2> QED
    BY <1>2, <1>3, <1>4, <2>1 DEF OwnInv, RunInv, InPass, WithRun
<1>9. ReachInv'
  BY <1>1, <1>3 DEF OwnInv, ReachInv, Claimed
<1> QED
  BY <1>6, <1>7, <1>8, <1>9 DEF OwnInv

\* Two workers in their passes that own one job are one.
LEMMA OneOwner ==
  ASSUME OwnInv, NEW v \in Workers, NEW w \in Workers, Owns(v), Owns(w),
         wk[v].pc \in InPass, wk[w].pc \in InPass, wk[v].job = wk[w].job
  PROVE  v = w
BY DEF OwnInv, ClaimInv, Owns

\* A worker goes on with its run, be it found or inserted.
LEMMA OpenReadOwns ==
  ASSUME PlaceInv, OwnInv, NEW w \in Workers, OpenRead(w)
  PROVE  OwnInv'
<1>0. TypeOK
  BY OwnTypes
<1>1. jobs' = jobs /\ runs' = runs /\ wk[w].pc = "open"
  BY DEF OpenRead
<1>2. /\ Only(w) /\ wk'[w].job = wk[w].job /\ wk'[w].claim = wk[w].claim
      /\ wk'[w].keeper = wk[w].keeper
      /\ \/ /\ wk'[w].pc = "insert"
            /\ \A r \in Runs : ~(runs[r].status = "running" /\ runs[r].job = wk[w].job)
         \/ /\ wk'[w].pc \in {"lock", "remap"}
            /\ \E r \in Runs : /\ runs[r].status = "running" /\ runs[r].job = wk[w].job
                               /\ wk'[w].run = r
  <2>1. CASE \E r \in OpenRuns(wk[w].job) : Opened(w, r)
    <3>1. PICK r \in Runs : Opened(w, r) /\ runs[r].status = "running" /\ runs[r].job = wk[w].job
      BY <2>1 DEF OpenRuns
    <3> QED
      BY <1>0, <3>1, OpenedDoes
  <2>2. CASE OpenRuns(wk[w].job) = {} /\ wk' = [wk EXCEPT ![w].pc = "insert"]
    <3>1. Walks(w, "insert")
      BY <1>0, <2>2, GotoWalks DEF WorkerStates, InPass
    <3> QED
      BY <2>2, <3>1 DEF Walks, OpenRuns
  <2> QED
    BY <2>1, <2>2 DEF OpenRead
<1>3. \A v \in Workers : Owns(v)' <=> Owns(v)
  BY <1>1, <1>2 DEF Owns, Only
<1>4. \A v \in Workers : Leased(v)' => Leased(v)
  BY <1>1, <1>2 DEF Leased, Only
<1>5. ClaimInv'
  BY <1>1, <1>2 DEF OwnInv, ClaimInv, Only, InPass
<1>6. LeaseInv'
  BY <1>1, <1>2, <1>3, <1>4 DEF OwnInv, LeaseInv, Only
<1>7. RunInv'
  <2>1. ASSUME NEW v \in Workers, NEW r \in Runs, runs[r].status = "running", runs[r].job = wk'[v].job
        PROVE  wk'[v].pc # "insert" /\ (wk'[v].pc \in WithRun /\ Owns(v)' => wk'[v].run = r)
    <3>1. CASE v = w
      BY <1>2, <2>1, <3>1 DEF OwnInv, RunInv
    <3>2. CASE v # w
      BY <1>2, <1>3, <2>1, <3>2 DEF OwnInv, RunInv, Only
    <3> QED
      BY <3>1, <3>2
  <2> QED
    BY <1>1, <2>1 DEF OwnInv, RunInv
<1>8. ReachInv'
  BY <1>1 DEF OwnInv, ReachInv
<1> QED
  BY <1>5, <1>6, <1>7, <1>8 DEF OwnInv

\* A run is inserted by the only owner of its job, where no run is open.
LEMMA OpenInsertOwns ==
  ASSUME PlaceInv, OwnInv, NEW w \in Workers, OpenInsert(w)
  PROVE  OwnInv'
<1>0. wk[w].pc = "insert" /\ jobs' = jobs /\ wk[w].job \in Jobs
  BY OwnTypes DEF OpenInsert, InPass
<1>1. PICK r : Inserted(w, r)
  BY OpenInsertDoes
<1>2. Only(w) /\ wk'[w].job = wk[w].job /\ wk'[w].claim = wk[w].claim
      /\ wk'[w].keeper = wk[w].keeper /\ wk'[w].run = r /\ wk'[w].pc \in {"lock", "remap"}
  BY <1>1 DEF Inserted
<1>3. /\ r \in Runs /\ runs'[r].status = "running" /\ runs'[r].job = wk[w].job
      /\ \A x \in Runs : x # r => runs'[x] = runs[x]
  BY <1>1 DEF Inserted
<1>4. Owns(w) /\ jobs[wk[w].job].status = "running"
  BY <1>0 DEF OwnInv, LeaseInv, Leased, Owns
<1>5. \A x \in Runs : ~(runs[x].status = "running" /\ runs[x].job = wk[w].job)
  BY <1>0 DEF OwnInv, RunInv
<1>6. \A v \in Workers : Owns(v)' <=> Owns(v)
  BY <1>0, <1>2 DEF Owns, Only
<1>7. \A v \in Workers : Leased(v)' => Leased(v)
  BY <1>0, <1>2 DEF Leased, Only
<1>8. ClaimInv'
  BY <1>0, <1>2 DEF OwnInv, ClaimInv, Only, InPass
<1>9. LeaseInv'
  BY <1>0, <1>2, <1>6, <1>7 DEF OwnInv, LeaseInv, Only
<1>10. RunInv'
  <2>1. ASSUME NEW v \in Workers, NEW x \in Runs, runs'[x].status = "running", runs'[x].job = wk'[v].job
        PROVE  wk'[v].pc # "insert" /\ (wk'[v].pc \in WithRun /\ Owns(v)' => wk'[v].run = x)
    <3>1. CASE v = w
      BY <1>2, <1>3, <1>5, <2>1, <3>1
    <3>2. CASE v # w /\ x = r
      <4>1. wk'[v] = wk[v] /\ wk[v].job = wk[w].job
        BY <1>2, <1>3, <2>1, <3>2 DEF Only
      <4>2. wk[v].pc # "insert"
        <5> SUFFICES ASSUME wk[v].pc = "insert" PROVE FALSE
          OBVIOUS
        <5>1. Owns(v)
          BY DEF OwnInv, LeaseInv, Leased
        <5> QED
          BY <1>0, <1>4, <3>2, <4>1, <5>1, OneOwner DEF InPass
      <4>3. ~(wk[v].pc \in WithRun /\ Owns(v))
        BY <1>0, <1>4, <3>2, <4>1, OneOwner DEF InPass, WithRun
      <4> QED
        BY <1>6, <4>1, <4>2, <4>3
    <3>3. CASE v # w /\ x # r
      BY <1>2, <1>3, <1>6, <2>1, <3>3 DEF OwnInv, RunInv, Only
    <3> QED
      BY <3>1, <3>2, <3>3
  <2>2. ASSUME NEW x \in Runs, NEW y \in Runs, runs'[x].status = "running",
               runs'[y].status = "running", runs'[x].job = runs'[y].job
        PROVE  x = y
    BY <1>3, <1>5, <2>2 DEF OwnInv, RunInv
  <2> QED
    BY <2>1, <2>2 DEF RunInv
<1>11. ReachInv'
  BY <1>0, <1>3, <1>4 DEF OwnInv, ReachInv
<1> QED
  BY <1>8, <1>9, <1>10, <1>11 DEF OwnInv

\* The worker w completes its job, if the job is still its own, and with it every
\* run of the job that is open, unless it was refused the lock.
Completes(w) ==
  /\ wk[w].pc \in InPass /\ Only(w)
  /\ \/ wk'[w].pc \notin InPass
     \/ wk'[w].pc = "unlock" /\ wk'[w].job = wk[w].job /\ wk'[w].claim = wk[w].claim
  /\ ~Owns(w) => jobs' = jobs
  /\ Owns(w) => /\ \A j \in Jobs : j # wk[w].job => jobs'[j] = jobs[j]
                /\ jobs'[wk[w].job].status \notin {"queued", "running"}
                /\ \/ jobs'[wk[w].job].refused
                   \/ \A r \in Runs : runs[r].job = wk[w].job => runs'[r].status # "running"
  /\ \A r \in Runs : /\ runs'[r].job = runs[r].job
                     /\ runs'[r].status = "running" => runs[r].status = "running"

\* Completing a job takes it from nobody else, and leaves no run of it open.
LEMMA CompletesOwns ==
  ASSUME PlaceInv, OwnInv, NEW w \in Workers, Completes(w)
  PROVE  OwnInv'
<1>0. \A v \in Workers : wk[v].pc \in InPass => wk[v].job \in Jobs
  BY OwnTypes
<1>1. \A v \in Workers : v # w => wk'[v] = wk[v]
  BY DEF Completes, Only
<1>2. wk[w].pc \in InPass /\ (wk'[w].pc \in InPass => /\ wk'[w].pc = "unlock" /\ wk'[w].job = wk[w].job
                                                       /\ wk'[w].claim = wk[w].claim)
  BY DEF Completes
<1>3. \A v \in Workers : v # w /\ wk[v].pc \in InPass /\ Owns(v) =>
        jobs'[wk[v].job] = jobs[wk[v].job]
  <2> SUFFICES ASSUME NEW v \in Workers, v # w, wk[v].pc \in InPass, Owns(v)
               PROVE  jobs'[wk[v].job] = jobs[wk[v].job]
    OBVIOUS
  <2>1. CASE Owns(w)
    <3>1. wk[v].job # wk[w].job
      BY <1>2, <2>1, OneOwner
    <3> QED
      BY <1>0, <2>1, <3>1 DEF Completes
  <2>2. CASE ~Owns(w)
    BY <2>2 DEF Completes
  <2> QED
    BY <2>1, <2>2
<1>4. \A v \in Workers : v # w /\ wk[v].pc \in InPass /\ Owns(v)' => Owns(v)
  <2> SUFFICES ASSUME NEW v \in Workers, v # w, wk[v].pc \in InPass, Owns(v)'
               PROVE  Owns(v)
    OBVIOUS
  <2>1. CASE Owns(w)
    BY <1>0, <1>1, <2>1 DEF Completes, Owns
  <2>2. CASE ~Owns(w)
    BY <1>1, <2>2 DEF Completes, Owns
  <2> QED
    BY <2>1, <2>2
<1>5. wk'[w].pc \in InPass => ~Owns(w)'
  <2>1. CASE Owns(w)
    BY <1>2, <2>1 DEF Completes, Owns
  <2>2. CASE ~Owns(w)
    BY <1>2, <2>2 DEF Completes, Owns
  <2> QED
    BY <2>1, <2>2
<1>6. ClaimInv'
  BY <1>1, <1>2 DEF OwnInv, ClaimInv
<1>7. LeaseInv'
  <2>1. ~Leased(w)'
    BY <1>2 DEF Leased, InPass
  <2>2. \A v \in Workers : v # w => (Leased(v)' <=> Leased(v))
    BY <1>1 DEF Leased
  <2>3. \A v \in Workers : v # w /\ Leased(v) => /\ wk[v].pc \in InPass /\ Owns(v)
                                                 /\ jobs'[wk[v].job] = jobs[wk[v].job]
    BY <1>3 DEF OwnInv, LeaseInv, Leased, InPass
  <2> QED
    BY <1>1, <2>1, <2>2, <2>3 DEF OwnInv, LeaseInv, Owns
<1>8. RunInv'
  <2>1. \A v \in Workers : wk'[v].pc \in InPass /\ Owns(v)' => Owns(v) /\ v # w
    BY <1>1, <1>4, <1>5
  <2>2. \A r \in Runs : /\ runs'[r].job = runs[r].job
                        /\ runs'[r].status = "running" => runs[r].status = "running"
    BY DEF Completes
  <2>3. ASSUME NEW v \in Workers, NEW r \in Runs, runs'[r].status = "running", runs'[r].job = wk'[v].job
        PROVE  wk'[v].pc # "insert" /\ (wk'[v].pc \in WithRun /\ Owns(v)' => wk'[v].run = r)
    <3>1. CASE v = w
      BY <1>2, <1>5, <3>1 DEF InPass, WithRun
    <3>2. CASE v # w
      BY <1>1, <2>1, <2>2, <2>3, <3>2 DEF OwnInv, RunInv, InPass, WithRun
    <3> QED
      BY <3>1, <3>2
  <2> QED
    BY <2>2, <2>3 DEF OwnInv, RunInv
<1>9. ReachInv'
  <2> SUFFICES ASSUME NEW r \in Runs, runs'[r].status = "running"
               PROVE  /\ runs'[r].job \in Jobs
                      /\ \/ jobs'[runs'[r].job].status \in {"queued", "running"}
                         \/ jobs'[runs'[r].job].refused
    BY DEF ReachInv
  <2>1. /\ runs'[r].job = runs[r].job /\ runs[r].job \in Jobs
        /\ \/ jobs[runs[r].job].status \in {"queued", "running"}
           \/ jobs[runs[r].job].refused
    BY DEF Completes, OwnInv, ReachInv
  <2>2. CASE ~Owns(w) \/ runs[r].job # wk[w].job
    BY <2>1, <2>2 DEF Completes
  <2>3. CASE Owns(w) /\ runs[r].job = wk[w].job
    BY <2>1, <2>3 DEF Completes
  <2> QED
    BY <2>2, <2>3
<1> QED
  BY <1>6, <1>7, <1>8, <1>9 DEF OwnInv

\* What complete_job does to the rows.
LEMMA CompletedJob ==
  ASSUME PlaceInv, NEW w \in Workers, wk[w].pc \in InPass, NEW st \in {"done", "error"},
         NEW js, js = Completed(jobs, wk[w].job, wk[w].claim, st)
  PROVE  /\ js \in [Jobs -> JobRows]
         /\ ~Owns(w) => js = jobs
         /\ Owns(w) => /\ js # jobs
                       /\ \A j \in Jobs : j # wk[w].job => js[j] = jobs[j]
                       /\ js[wk[w].job].status = st
<1>1. TypeOK /\ wk[w].job \in Jobs /\ jobs \in [Jobs -> JobRows]
  BY OwnTypes
<1>2. js \in [Jobs -> JobRows]
  BY <1>1, CompletedTyped
<1>3. ~Owns(w) => js = jobs
  BY DEF Completed, Owns
<1>4. ASSUME Owns(w)
      PROVE  /\ \A j \in Jobs : j # wk[w].job => js[j] = jobs[j]
             /\ js[wk[w].job].status = st /\ js # jobs
  <2>1. js = [jobs EXCEPT ![wk[w].job].status = st]
    BY <1>4 DEF Completed, Owns
  <2>2. js[wk[w].job].status = st /\ \A j \in Jobs : j # wk[w].job => js[j] = jobs[j]
    BY <1>1, <2>1 DEF JobRows
  <2>3. jobs[wk[w].job].status = "running"
    BY <1>4 DEF Owns
  <2> QED
    BY <2>2, <2>3
<1> QED
  BY <1>2, <1>3, <1>4

\* A worker that is refused the lock stamps its own job only.
LEMMA ContendedOwns ==
  ASSUME PlaceInv, OwnInv, NEW w \in Workers, Contended(w)
  PROVE  OwnInv'
<1> DEFINE js == Completed(jobs, wk[w].job, wk[w].claim, "error")
<1>0. TypeOK /\ jobs \in [Jobs -> JobRows] /\ wk[w].pc \in InPass /\ wk[w].job \in Jobs
  BY OwnTypes DEF Contended, InPass
<1>1. jobs' = [js EXCEPT ![wk[w].job].refused = @ \/ js # jobs] /\ runs' = runs
  BY DEF Contended
<1>2. /\ js \in [Jobs -> JobRows]
      /\ ~Owns(w) => js = jobs
      /\ Owns(w) => /\ js # jobs
                    /\ \A j \in Jobs : j # wk[w].job => js[j] = jobs[j]
                    /\ js[wk[w].job].status = "error"
  BY <1>0, CompletedJob
<1>3. Rests(w)
  BY <1>0, DoneRests DEF Contended
<1> HIDE DEF js
<1>4. ~Owns(w) => jobs' = jobs
  <2> SUFFICES ASSUME ~Owns(w) PROVE jobs' = jobs
    OBVIOUS
  <2>1. js = jobs
    BY <1>2
  <2>2. jobs[wk[w].job].refused \in BOOLEAN
    BY <1>0 DEF JobRows
  <2>3. (jobs[wk[w].job].refused \/ js # jobs) = jobs[wk[w].job].refused
    BY <2>1, <2>2
  <2>4. jobs' = [jobs EXCEPT ![wk[w].job] = [jobs[wk[w].job] EXCEPT !.refused = jobs[wk[w].job].refused]]
    BY <1>0, <1>1, <2>1, <2>3
  <2>5. [jobs[wk[w].job] EXCEPT !.refused = jobs[wk[w].job].refused] = jobs[wk[w].job]
    BY <1>0 DEF JobRows
  <2> QED
    BY <1>0, <2>4, <2>5
<1>5. Owns(w) => /\ \A j \in Jobs : j # wk[w].job => jobs'[j] = jobs[j]
                 /\ jobs'[wk[w].job].status = "error"
                 /\ jobs'[wk[w].job].refused
  <2> SUFFICES ASSUME Owns(w)
               PROVE  /\ \A j \in Jobs : j # wk[w].job => jobs'[j] = jobs[j]
                      /\ jobs'[wk[w].job].status = "error"
                      /\ jobs'[wk[w].job].refused
    OBVIOUS
  <2>1. js # jobs
    BY <1>2
  <2>2. (js[wk[w].job].refused \/ js # jobs) = TRUE
    BY <2>1
  <2>3. jobs' = [js EXCEPT ![wk[w].job].refused = TRUE]
    BY <1>0, <1>1, <1>2, <2>2
  <2> QED
    BY <1>0, <1>2, <2>3 DEF JobRows
<1>6. Only(w) /\ wk'[w].pc \notin InPass
  BY <1>3 DEF Rests, InPass
<1>7. Completes(w)
  BY <1>0, <1>1, <1>4, <1>5, <1>6 DEF Completes
<1> QED
  BY <1>7, CompletesOwns

\* The end of a pass: its run is closed.
LEMMA EndOwns ==
  ASSUME PlaceInv, OwnInv, NEW w \in Workers, wk[w].pc \in WithRun, NEW st \in {"done", "error"},
         jobs' = Completed(jobs, wk[w].job, wk[w].claim, st),
         NEW rst, rst # "running", runs' = Closed(runs, wk[w].run, rst),
         Walks(w, "unlock") \/ Rests(w)
  PROVE  OwnInv'
<1>0. /\ TypeOK /\ runs \in [Runs -> RunRows] /\ wk[w].pc \in InPass /\ wk[w].job \in Jobs
      /\ wk[w].run \in Runs
  BY OwnTypes DEF InPass, WithRun
<1>1. \A r \in Runs : /\ runs'[r].job = runs[r].job
                      /\ runs'[r].status = "running" => runs[r].status = "running" /\ r # wk[w].run
  BY <1>0 DEF Closed, RunRows
<1>2. ~Owns(w) => jobs' = jobs
  BY <1>0, CompletedJob
<1>3. Owns(w) => /\ \A j \in Jobs : j # wk[w].job => jobs'[j] = jobs[j]
                 /\ jobs'[wk[w].job].status = st
  BY <1>0, CompletedJob
<1>4. Owns(w) => \A r \in Runs : runs[r].job = wk[w].job => runs'[r].status # "running"
  BY <1>1 DEF OwnInv, RunInv
<1>5. /\ Only(w)
      /\ \/ wk'[w].pc \notin InPass
         \/ wk'[w].pc = "unlock" /\ wk'[w].job = wk[w].job /\ wk'[w].claim = wk[w].claim
  BY DEF Rests, Walks, InPass
<1>6. st \notin {"queued", "running"}
  OBVIOUS
<1>7. Completes(w)
  BY <1>0, <1>1, <1>2, <1>3, <1>4, <1>5, <1>6 DEF Completes
<1> QED
  BY <1>7, CompletesOwns

\* The exception handler closes the run of its own job only.
LEMMA MarkCrashedOwns ==
  ASSUME PlaceInv, OwnInv, NEW w \in Workers, MarkCrashed(w)
  PROVE  OwnInv'
<1>0. TypeOK /\ runs \in [Runs -> RunRows] /\ wk[w].pc \in InPass /\ wk[w].job \in Jobs
  BY OwnTypes DEF InPass, MarkCrashed
<1>j. jobs' = Completed(jobs, wk[w].job, wk[w].claim, "error")
  BY DEF MarkCrashed
<1>2. ~Owns(w) => jobs' = jobs
  BY <1>0, <1>j, CompletedJob
<1>3. Owns(w) => /\ \A j \in Jobs : j # wk[w].job => jobs'[j] = jobs[j]
                 /\ jobs'[wk[w].job].status = "error"
  BY <1>0, <1>j, CompletedJob
<1>4. Rests(w)
  BY <1>0, DoneRests DEF MarkCrashed
<1>5. \/ runs' = runs /\ (Owns(w) => OpenRuns(wk[w].job) = {})
      \/ \E r \in OpenRuns(wk[w].job) : runs' = Closed(runs, r, "failed")
  BY DEF MarkCrashed, Owns
<1>6. /\ \A r \in Runs : /\ runs'[r].job = runs[r].job
                         /\ runs'[r].status = "running" => runs[r].status = "running"
      /\ Owns(w) => \A r \in Runs : runs[r].job = wk[w].job => runs'[r].status # "running"
  <2>1. CASE runs' = runs /\ (Owns(w) => OpenRuns(wk[w].job) = {})
    BY <2>1 DEF OpenRuns
  <2>2. CASE \E r \in OpenRuns(wk[w].job) : runs' = Closed(runs, r, "failed")
    <3>1. PICK r \in Runs : /\ runs[r].status = "running" /\ runs[r].job = wk[w].job
                            /\ runs' = Closed(runs, r, "failed")
      BY <2>2 DEF OpenRuns
    <3>2. \A x \in Runs : /\ runs'[x].job = runs[x].job
                          /\ runs'[x].status = "running" => runs[x].status = "running" /\ x # r
      BY <1>0, <3>1 DEF Closed, RunRows
    <3> QED
      BY <3>1, <3>2 DEF OwnInv, RunInv
  <2> QED
    BY <1>5, <2>1, <2>2
<1>7. Only(w) /\ wk'[w].pc \notin InPass
  BY <1>4 DEF Rests, InPass
<1>8. Completes(w)
  BY <1>0, <1>2, <1>3, <1>6, <1>7 DEF Completes
<1> QED
  BY <1>8, CompletesOwns

\* Enqueuing changes no job that is there.
LEMMA InsertQuiet ==
  ASSUME TypeOK, NEW k \in {"crawl_pass", "remap"}, Insert(k)
  PROVE  \A j \in Jobs : jobs'[j] = jobs[j] \/ (jobs[j].status = "none" /\ jobs'[j].status = "queued")
<1> DEFINE n == Min(Unused)
           row == [NoJob EXCEPT !.status = "queued", !.kind = k]
<1>1. jobs \in [Jobs -> JobRows]
  BY Typed
<1>2. row.status = "queued"
  BY DEF NoJob
<1>3. jobs' = [jobs EXCEPT ![n] = row]
  BY DEF Insert
<1>4. n \in Unused
  <2>1. Unused \subseteq Nat
    BY FactsAssumption DEF Unused, Jobs
  <2>2. Unused # {}
    BY DEF Insert, CanInsert
  <2> QED
    BY <2>1, <2>2, MinOfNaturals
<1> HIDE DEF n, row
<1> QED
  BY <1>1, <1>2, <1>3, <1>4 DEF Unused

\* OwnInv is preserved by the poll loop.
LEMMA PollOwns ==
  ASSUME PlaceInv, OwnInv, NEW w \in Workers, PollStep(w)
  PROVE  OwnInv'
<1>0. TypeOK
  BY OwnTypes
<1>1. CASE Boot(w) \/ PollAgain(w)
  <2>1. Walks(w, "sweep")
    BY <1>0, <1>1, GotoWalks DEF Boot, PollAgain, Goto, WorkerStates
  <2>2. Leaves(w) /\ Quiet
    BY <1>1, <2>1 DEF Boot, PollAgain, Walks, Leaves, Quiet, RunsStay, InPass
  <2> QED
    BY <2>2, QuietOwns
<1>2. CASE Enqueue(w)
  <2>1. Walks(w, "claim")
    BY <1>0, <1>2, GotoWalks DEF Enqueue, Goto, WorkerStates
  <2>2. Quiet
    BY <1>0, <1>2, InsertQuiet DEF Enqueue, Quiet, RunsStay
  <2>3. Leaves(w)
    BY <2>1 DEF Walks, Leaves, InPass
  <2> QED
    BY <2>2, <2>3, QuietOwns
<1>3. CASE CliBeaten(w)
  <2>1. Rests(w)
    BY <1>0, <1>3, OffRests DEF CliBeaten
  <2>2. Leaves(w) /\ Quiet
    BY <1>3, <2>1 DEF CliBeaten, Rests, Leaves, Quiet, RunsStay, InPass
  <2> QED
    BY <2>2, QuietOwns
<1> QED
  BY <1>1, <1>2, <1>3, SweepOwns, ClaimOwns DEF PollStep

\* OwnInv is preserved by the steps of a pass.
LEMMA PassOwns ==
  ASSUME PlaceInv, OwnInv, NEW w \in Workers, PassStep(w)
  PROVE  OwnInv'
<1>0. TypeOK
  BY OwnTypes
<1>1. CASE TryLock(w)
  <2> DEFINE to == IF lock = NoWorker THEN "discover" ELSE "contended"
  <2>1. Walks(w, to)
    BY <1>0, <1>1, GotoWalks DEF TryLock, WorkerStates, InPass
  <2>2. Within(w) /\ Quiet
    BY <1>1, <2>1 DEF TryLock, Walks, Within, Quiet, RunsStay, InPass, WithRun
  <2> QED
    BY <2>2, QuietOwns
<1>2. CASE Discover(w)
  <2>1. Within(w) /\ Quiet
    BY <1>0, <1>2, DiscoverDoes DEF Discover, Within, Quiet, RunsStay, InPass, WithRun
  <2> QED
    BY <2>1, QuietOwns
<1>3. CASE \E s \in Schools, out \in Outcomes : School(w, s, out)
  <2>1. PICK s \in Schools, out \in Outcomes : School(w, s, out)
    BY <1>3
  <2>2. Schooled(w, s, out) /\ RunsStay
    BY <1>0, <2>1, SchoolDoes DEF RunsStay, Attempted
  <2>3. Within(w) /\ Quiet
    BY <2>1, <2>2 DEF School, Schooled, Within, Quiet, InPass, WithRun
  <2> QED
    BY <2>3, QuietOwns
<1>4. CASE Bump(w)
  <2>1. Within(w) /\ Quiet
    BY <1>0, <1>4, BumpDoes DEF Bump, Bumped, Within, Quiet, RunsStay, InPass, WithRun
  <2> QED
    BY <2>1, QuietOwns
<1>5. CASE ClosePass(w)
  <2>1. Walks(w, "unlock")
    BY <1>0, <1>5, GotoWalks DEF ClosePass, WorkerStates, InPass
  <2>2. wk[w].pc \in WithRun /\ PassStatus(w) # "running"
    BY <1>5 DEF ClosePass, WithRun, PassStatus
  <2> QED
    BY <1>5, <2>1, <2>2, EndOwns DEF ClosePass
<1>6. CASE AbortPass(w)
  <2>1. Walks(w, "unlock")
    BY <1>0, <1>6, GotoWalks DEF AbortPass, WorkerStates, InPass
  <2>2. wk[w].pc \in WithRun
    BY <1>6 DEF AbortPass, WithRun
  <2> QED
    BY <1>6, <2>1, <2>2, EndOwns DEF AbortPass
<1>7. CASE Unlock(w)
  <2>1. Rests(w)
    BY <1>0, <1>7, DoneRests DEF Unlock
  <2>2. Leaves(w) /\ Quiet
    BY <1>7, <2>1 DEF Unlock, Rests, Leaves, Quiet, RunsStay, InPass
  <2> QED
    BY <2>2, QuietOwns
<1>8. CASE Remap(w)
  <2>1. Rests(w)
    BY <1>0, <1>8, DoneRests DEF Remap
  <2>2. wk[w].pc \in WithRun
    BY <1>8 DEF Remap, WithRun
  <2> QED
    BY <1>8, <2>1, <2>2, EndOwns DEF Remap
<1> QED
  BY <1>1, <1>2, <1>3, <1>4, <1>5, <1>6, <1>7, <1>8, OpenReadOwns, OpenInsertOwns,
     ContendedOwns, MarkCrashedOwns DEF PassStep

\* OwnInv is preserved by every fault.
LEMMA FaultOwns ==
  ASSUME PlaceInv, OwnInv, NEW w \in Workers, FaultStep(w)
  PROVE  OwnInv'
<1>0. TypeOK
  BY OwnTypes
<1>1. Quiet
  BY DEF FaultStep, Raise, PollFails, MarkFails, Crash, Stop, Gone, Quiet, RunsStay
<1>2. CASE Raise(w) /\ w \in Pollers
  <2>1. wk' = [wk EXCEPT ![w].pc = "crashed"] /\ wk[w].pc \in InPass \ {"crashed", "unlock"}
    BY <1>0, <1>2, Typed DEF Raise
  <2>2. Walks(w, "crashed")
    BY <1>0, <2>1, GotoWalks DEF WorkerStates, InPass
  <2>3. Within(w)
    BY <2>1, <2>2 DEF Walks, Within, InPass, WithRun
  <2> QED
    BY <1>1, <2>3, QuietOwns
<1>3. CASE ~(Raise(w) /\ w \in Pollers)
  <2>1. Only(w) /\ wk'[w].pc \in {"sweep", "off"}
    <3>1. CASE Raise(w) /\ w \notin Pollers
      BY <1>0, <3>1, OffRests DEF Raise, Rests
    <3>2. CASE PollFails(w)
      BY <1>0, <3>2, GotoWalks DEF PollFails, WorkerStates, Walks
    <3>3. CASE MarkFails(w)
      BY <1>0, <3>3, DoneRests DEF MarkFails, Rests
    <3>4. CASE Crash(w) \/ Stop(w)
      BY <1>0, <3>4, OffRests DEF Crash, Stop, Gone, Rests
    <3> QED
      BY <1>3, <3>1, <3>2, <3>3, <3>4 DEF FaultStep
  <2>2. Leaves(w)
    BY <2>1 DEF Leaves, InPass
  <2> QED
    BY <1>1, <2>2, QuietOwns
<1> QED
  BY <1>2, <1>3

\* OwnInv is preserved by a call of the command line.
LEMMA CliOwns ==
  ASSUME PlaceInv, OwnInv, NEW w \in Workers, NEW k \in Kinds, Cli(w, k)
  PROVE  OwnInv'
<1> DEFINE n == [Off EXCEPT !.pc = "cli", !.kind = k]
<1>0. TypeOK /\ k \in {"crawl_pass", "remap"}
  BY OwnTypes, FactsAssumption
<1>1. n \in WorkerRecords /\ n.pc = "cli"
  BY <1>0, RowTypes DEF WorkerRecords, Off, WorkerStates
<1>2. Only(w) /\ wk'[w] = n
  BY <1>0, <1>1, SetOnly DEF Cli
<1>3. Leaves(w)
  BY <1>1, <1>2 DEF Leaves, InPass
<1>4. Quiet
  BY <1>0, InsertQuiet DEF Cli, Quiet, RunsStay
<1> QED
  BY <1>3, <1>4, QuietOwns

\* OwnInv is preserved by every step while no kept lease expires.
LEMMA StepOwns ==
  ASSUME "lease" \notin Faults, PlaceInv, OwnInv, [Next]_vars
  PROVE  OwnInv'
<1>0. TypeOK
  BY OwnTypes
<1>1. CASE RunNow
  <2>1. Quiet /\ wk' = wk
    BY <1>0, <1>1, InsertQuiet DEF RunNow, Quiet, RunsStay
  <2> QED
    BY <2>1, QuietOwns
<1>2. CASE DayPasses \/ UNCHANGED vars
  <2>1. Quiet /\ wk' = wk
    BY <1>2 DEF DayPasses, vars, Quiet, RunsStay
  <2> QED
    BY <2>1, QuietOwns
<1> QED
  BY <1>1, <1>2, ExpireOwns, PollOwns, PassOwns, FaultOwns, RenewOwns, CliOwns DEF Next, Workers

\* OwnInv holds at the start.
LEMMA InitOwns ==
  ASSUME Init PROVE OwnInv
BY DEF Init, OwnInv, ClaimInv, LeaseInv, RunInv, ReachInv, Leased, Off, NoRun, InPass, WithRun

\* No run stays open for nobody, whatever died or raised in between: its job
\* will be claimed again, or was refused because a pass was running, as long as
\* no lease expires that is being renewed (sweep_expired_leases,
\* get_or_open_run, mark_job_crashed).
THEOREM OpenRunsAreReachable ==
  ASSUME "lease" \notin Faults PROVE Spec => []OpenRunIsReachable
<1>1. Init => PlaceInv /\ OwnInv
  BY InitPlaces, InitOwns
<1>2. PlaceInv /\ OwnInv /\ [Next]_vars => PlaceInv' /\ OwnInv'
  BY NextPlaces, StepOwns
<1>3. OwnInv => OpenRunIsReachable
  BY DEF OwnInv, ReachInv, OpenRunIsReachable
<1> QED
  BY <1>1, <1>2, <1>3, PTL DEF Spec

(***************************************************************************)
(* A pass is closed by its worker, and by no other.                        *)
(***************************************************************************)
ClosedByItsWorkerStep ==
  \A r \in Runs : runs[r].status = "running" /\ runs'[r].status # "running" =>
    \A w \in Workers :
      wk[w].pc \in {"discover", "school", "bump"} /\ wk[w].run = r =>
        wk'[w].pc # wk[w].pc

\* Every step closes only the run its worker is on.
LEMMA StepCloses ==
  ASSUME Clis = {}, PlaceInv, OwnInv, [Next]_vars
  PROVE  ClosedByItsWorkerStep
<1>0. TypeOK
  BY OwnTypes
<1> SUFFICES ASSUME NEW r \in Runs, runs[r].status = "running", runs'[r].status # "running",
                    NEW v \in Workers, wk[v].pc \in {"discover", "school", "bump"}, wk[v].run = r
             PROVE  wk'[v].pc # wk[v].pc
  BY DEF ClosedByItsWorkerStep
<1>1. PICK w \in Workers : \E x, st : Ends(w, x, st)
  <2>1. ASSUME NEW w \in Workers, RunStep(w)
        PROVE  \E x, st : Ends(w, x, st)
    <3>1. CASE Calm(w) \/ Discover(w)
      BY <3>1 DEF Calm, Discover
    <3>2. CASE \E x : Inserted(w, x)
      BY <3>2 DEF Inserted, NoRun
    <3>3. CASE \E s \in Schools, out \in Outcomes : School(w, s, out)
      BY <1>0, <3>3, SchoolDoes DEF Attempted
    <3>4. CASE Bump(w)
      BY <1>0, <3>4, BumpDoes DEF Bumped
    <3> QED
      BY <2>1, <3>1, <3>2, <3>3, <3>4 DEF RunStep
  <2> QED
    BY <2>1, StepIs DEF Same
<1>2. PICK x, st : Ends(w, x, st)
  BY <1>1
<1>3. x = r
  BY <1>0, <1>2, EndsRuns
<1>4. wk'[w].pc # wk[w].pc
  BY <1>2 DEF Ends
<1>5. wk[w].job = runs[r].job /\ wk[w].pc \in InPass \ {"unlock"}
  BY <1>2, <1>3, OwnTypes DEF Ends, InPass, WithRun
<1>6. wk[v].job = runs[r].job /\ wk[v].pc \in InPass \ {"unlock"}
  BY OwnTypes DEF InPass, WithRun
<1>7. Owns(v) /\ Owns(w)
  BY <1>5, <1>6 DEF OwnInv, LeaseInv, Leased, Workers
<1>8. v = w
  BY <1>5, <1>6, <1>7, OneOwner
<1> QED
  BY <1>4, <1>8

\* A pass that a worker is in the middle of is closed by that worker and by no
\* other, where only servers run passes and no lease expires that is being
\* renewed (close_run, get_or_open_run, mark_job_crashed).
THEOREM PassesClosedByTheirWorker ==
  ASSUME "lease" \notin Faults, Clis = {} PROVE Spec => ClosedByItsWorker
<1>1. Init => PlaceInv /\ OwnInv
  BY InitPlaces, InitOwns
<1>2. PlaceInv /\ OwnInv /\ [Next]_vars => PlaceInv' /\ OwnInv'
  BY NextPlaces, StepOwns
<1>3. PlaceInv /\ OwnInv /\ [Next]_vars => [ClosedByItsWorkerStep]_vars
  BY StepCloses
<1> QED
  BY <1>1, <1>2, <1>3, PTL DEF Spec, ClosedByItsWorker, ClosedByItsWorkerStep
=============================================================================
