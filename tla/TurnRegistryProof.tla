------------------------- MODULE TurnRegistryProof --------------------------
(***************************************************************************)
(* Proved for any number of chats, turns and callers, any set of           *)
(* operations and any initial transcripts: the types; single flight and    *)
(* the honesty of the terminal event; that TurnRegistry implements         *)
(* SingleFlight; that the ceilings hold; that the shutdown leaves nothing  *)
(* behind; and that the transcript is honest (one record per message, and  *)
(* "cancelled" only where the student stopped the turn or let go of its    *)
(* question), no update of it is lost, and an answer is taken once.        *)
(***************************************************************************)
EXTENDS TurnRegistry, SequenceTheorems, FiniteSetTheorems, TLAPS

(***************************************************************************)
(* The operations on a transcript keep it a transcript.                    *)
(***************************************************************************)

\* An empty transcript is one.
LEMMA EmptyType == <<>> \in Seq(Records)
OBVIOUS

\* The last record of a transcript that is not empty is a record.
LEMMA LatestType ==
  ASSUME NEW recs \in Seq(Records), recs # <<>>
  PROVE  Latest(recs) \in Records
BY DEF Latest

\* Replacing the last record (_unpark_if_parked, accept_clarification).
LEMMA ReplaceType ==
  ASSUME NEW recs \in Seq(Records), recs # <<>>, NEW rec \in Records
  PROVE  ReplaceLatest(recs, rec) \in Seq(Records)
BY DEF ReplaceLatest

\* Adding a turn's record (append_or_replace).
LEMMA AppendType ==
  ASSUME NEW recs \in Seq(Records), NEW rec \in Records
  PROVE  AppendOrReplace(recs, rec) \in Seq(Records)
<1>1. CASE recs = <<>>
  BY <1>1 DEF AppendOrReplace, IsParked
<1>2. CASE recs # <<>>
  BY <1>2, ReplaceType DEF AppendOrReplace
<1> QED BY <1>1, <1>2

\* A history cut before one of its records (_rewrite_history).
LEMMA PrefixType ==
  ASSUME NEW recs \in Seq(Records), NEW i \in 1 .. Len(recs)
  PROVE  SubSeq(recs, 1, i - 1) \in Seq(Records)
BY SubSeqProperties

\* Changing the status of a record (the parked one) leaves a record.
LEMMA StatusType ==
  ASSUME NEW rec \in Records, NEW st \in Statuses
  PROVE  [rec EXCEPT !.status = st] \in Records
BY DEF Records

\* What a turn with an identity writes is a record.
LEMMA RecordType ==
  ASSUME TypeOK, NEW t \in Turns, mid[t] # NoTurn, NEW st \in Statuses
  PROVE  RecordOf(t, st) \in Records
BY DEF TypeOK, RecordOf, Records

(***************************************************************************)
(* Type correctness.  A write of the transcript is a write of records only *)
(* if its turn has an identity by then, and if the snapshot of a caller    *)
(* that is about to settle a question holds one; that is what the other    *)
(* parts say.                                                              *)
(***************************************************************************)

\* A caller that is doing something for a chat knows which one.
CallerHasChat ==
  \A c \in Callers : cpc[c] \notin {"idle", "drain"} => csess[c] \in Sessions

\* A canceller knows the turn it waits for.
CallerHasTurn ==
  \A c \in Callers : cpc[c] \in {"join", "persist"} => ctgt[c] \in Turns

\* A caller about to settle a question has read a transcript with one.
CallerHasQuestion ==
  \A c \in Callers :
    cpc[c] \in {"unparkWrite", "acceptWrite", "acceptResume"} => csnap[c] # <<>>

\* A run that got past its announcement has an identity ...
RunHasIdentity ==
  \A t \in Turns :
    phase[t] \in {"meta", "input", "graph", "committed", "cleared", "failing",
                  "failwrite", "failed"} => mid[t] # NoTurn

\* ... and so has every turn whose partial record is about to be written.
PartialHasIdentity ==
  \A p \in Persisters, t \in Turns :
    Persists(p, t) /\ persist[p] \in {"write", "retryWrite"} => mid[t] # NoTurn

\* The inductive invariant.
TypeInv ==
  /\ TypeOK
  /\ CallerHasChat
  /\ CallerHasTurn
  /\ CallerHasQuestion
  /\ RunHasIdentity
  /\ PartialHasIdentity

\* start's check-and-claim window.
LEMMA TypeClaim ==
  ASSUME TypeInv, NEW t \in Turns, NEW g \in BOOLEAN, Claim(t, g)
  PROVE  TypeInv'
<1> USE RegistryAssumption DEF TypeInv, Claim, regVars, drainVars, ckptVars, callerVars
<1>1. TypeOK'
  BY DEF TypeOK, Phases
<1>2. CallerHasChat' /\ CallerHasTurn' /\ CallerHasQuestion'
  BY DEF TypeOK, CallerHasChat, CallerHasTurn, CallerHasQuestion
<1>3. RunHasIdentity'
  BY DEF TypeOK, RunHasIdentity
<1>4. PartialHasIdentity'
  BY DEF TypeOK, PartialHasIdentity, Persists
<1> QED BY <1>1, <1>2, <1>3, <1>4

\* start fails and releases its claim.
LEMMA TypeReject ==
  ASSUME TypeInv, NEW t \in Turns, Reject(t)
  PROVE  TypeInv'
<1> USE RegistryAssumption DEF TypeInv, Reject, ReleaseClaim, regVars, drainVars, ckptVars, callerVars
<1>1. TypeOK'
  BY EmptyType DEF TypeOK, Phases
<1>2. CallerHasChat' /\ CallerHasTurn' /\ CallerHasQuestion'
  BY DEF TypeOK, CallerHasChat, CallerHasTurn, CallerHasQuestion
<1>3. RunHasIdentity'
  BY DEF TypeOK, RunHasIdentity
<1>4. PartialHasIdentity'
  BY DEF TypeOK, PartialHasIdentity, Persists
<1> QED BY <1>1, <1>2, <1>3, <1>4

\* start creates the task.
LEMMA TypeSpawn ==
  ASSUME TypeInv, NEW t \in Turns, Spawn(t)
  PROVE  TypeInv'
<1> USE RegistryAssumption DEF TypeInv, Spawn, regVars, drainVars, ckptVars, callerVars
<1>1. TypeOK'
  BY DEF TypeOK, Phases
<1>2. CallerHasChat' /\ CallerHasTurn' /\ CallerHasQuestion'
  BY DEF TypeOK, CallerHasChat, CallerHasTurn, CallerHasQuestion
<1>3. RunHasIdentity'
  BY DEF TypeOK, RunHasIdentity
<1>4. PartialHasIdentity'
  BY DEF TypeOK, PartialHasIdentity, Persists
<1> QED BY <1>1, <1>2, <1>3, <1>4

\* An edit reads the history and cuts it before the edited record.
LEMMA TypeRewriteRead ==
  ASSUME TypeInv, NEW t \in Turns, RewriteRead(t)
  PROVE  TypeInv'
<1> USE RegistryAssumption DEF TypeInv, RewriteRead, regVars, drainVars, ckptVars, callerVars
<1>0. PICK i \in 1 .. Len(records[SessionOf[t]]) :
        tsnap' = [tsnap EXCEPT ![t] = SubSeq(records[SessionOf[t]], 1, i - 1)]
  OBVIOUS
<1>a. SubSeq(records[SessionOf[t]], 1, i - 1) \in Seq(Records)
  BY PrefixType DEF TypeOK
<1>1. TypeOK'
  BY <1>0, <1>a DEF TypeOK, Phases
<1>2. CallerHasChat' /\ CallerHasTurn' /\ CallerHasQuestion'
  BY DEF TypeOK, CallerHasChat, CallerHasTurn, CallerHasQuestion
<1>3. RunHasIdentity'
  BY DEF TypeOK, RunHasIdentity
<1>4. PartialHasIdentity'
  BY DEF TypeOK, PartialHasIdentity, Persists
<1> QED BY <1>1, <1>2, <1>3, <1>4

\* The cut history is written.
LEMMA TypeRewriteWrite ==
  ASSUME TypeInv, NEW t \in Turns, RewriteWrite(t)
  PROVE  TypeInv'
<1> USE RegistryAssumption DEF TypeInv, RewriteWrite, regVars, drainVars, ckptVars, callerVars
<1>1. TypeOK'
  BY EmptyType DEF TypeOK, Phases
<1>2. CallerHasChat' /\ CallerHasTurn' /\ CallerHasQuestion'
  BY DEF TypeOK, CallerHasChat, CallerHasTurn, CallerHasQuestion
<1>3. RunHasIdentity'
  BY DEF TypeOK, RunHasIdentity
<1>4. PartialHasIdentity'
  BY DEF TypeOK, PartialHasIdentity, Persists
<1> QED BY <1>1, <1>2, <1>3, <1>4

\* _drive's finally, with any terminal event.
LEMMA TypeDriveEnds ==
  ASSUME TypeInv, NEW t \in Turns, NEW e \in Terminals, DriveEnds(t, e)
  PROVE  TypeInv'
<1> USE RegistryAssumption DEF TypeInv, DriveEnds, Finalize, Unregister, DropLocals, regVars, drainVars, ckptVars, callerVars
<1>1. TypeOK'
  <2>1. stream' \in [Turns -> Seq(Terminals)]
    BY DEF TypeOK
  <2>2. phase' \in [Turns -> Phases] /\ hooks' \in SUBSET Turns
    BY DEF TypeOK, Phases
  <2>3. turns' \in [Sessions -> Turns \cup {NoTurn}]
      /\ handles' \in [Sessions -> Turns \cup {NoTurn}]
    BY DEF TypeOK
  <2>4. tsnap' \in [Turns -> Seq(Records)]
      /\ psnap' \in [Persisters -> Seq(Records)]
      /\ persist' \in [Persisters -> PersistStates]
    BY EmptyType DEF TypeOK, Persisters, PersistStates
  <2> QED BY <2>1, <2>2, <2>3, <2>4 DEF TypeOK
<1>2. CallerHasChat' /\ CallerHasTurn' /\ CallerHasQuestion'
  BY DEF TypeOK, CallerHasChat, CallerHasTurn, CallerHasQuestion
<1>3. RunHasIdentity'
  BY DEF TypeOK, RunHasIdentity
<1>4. PartialHasIdentity'
  BY DEF TypeOK, PartialHasIdentity, Persists
<1> QED BY <1>1, <1>2, <1>3, <1>4

\* A completion hook ends.
LEMMA TypeHookDone ==
  ASSUME TypeInv, NEW t \in Turns, HookDone(t)
  PROVE  TypeInv'
<1> USE RegistryAssumption DEF TypeInv, HookDone, turnVars, regVars, drainVars, ckptVars, callerVars
<1>1. TypeOK'
  BY DEF TypeOK, Phases
<1>2. CallerHasChat' /\ CallerHasTurn' /\ CallerHasQuestion'
  BY DEF TypeOK, CallerHasChat, CallerHasTurn, CallerHasQuestion
<1>3. RunHasIdentity'
  BY DEF TypeOK, RunHasIdentity
<1>4. PartialHasIdentity'
  BY DEF TypeOK, PartialHasIdentity, Persists
<1> QED BY <1>1, <1>2, <1>3, <1>4

\* The task's first step.
LEMMA TypeFirstStep ==
  ASSUME TypeInv, NEW t \in Turns, FirstStep(t)
  PROVE  TypeInv'
<1> USE RegistryAssumption DEF TypeInv, FirstStep, Goto, regVars, drainVars, ckptVars, callerVars
<1>1. TypeOK'
  BY DEF TypeOK, Phases, MessageIds
<1>2. CallerHasChat' /\ CallerHasTurn' /\ CallerHasQuestion'
  BY DEF TypeOK, CallerHasChat, CallerHasTurn, CallerHasQuestion
<1>3. RunHasIdentity'
  BY DEF TypeOK, RunHasIdentity, MessageIds
<1>4. PartialHasIdentity'
  BY DEF TypeOK, PartialHasIdentity, Persists, MessageIds
<1> QED BY <1>1, <1>2, <1>3, <1>4

\* Parked detection gives the turn a message_id.
LEMMA TypePrefetch ==
  ASSUME TypeInv, NEW t \in Turns, Prefetch(t)
  PROVE  TypeInv'
<1> USE RegistryAssumption DEF TypeInv, Prefetch, Goto, regVars, drainVars, ckptVars, callerVars
<1>0. (IF IsParked(records[SessionOf[t]])
       THEN Latest(records[SessionOf[t]]).mid ELSE t) \in MessageIds
  BY LatestType DEF TypeOK, IsParked, Records, MessageIds
<1>1. TypeOK'
  BY <1>0 DEF TypeOK, Phases, MessageIds
<1>2. CallerHasChat' /\ CallerHasTurn' /\ CallerHasQuestion'
  BY DEF TypeOK, CallerHasChat, CallerHasTurn, CallerHasQuestion
<1>3. RunHasIdentity'
  BY <1>0 DEF TypeOK, RunHasIdentity
<1>4. PartialHasIdentity'
  BY <1>0 DEF TypeOK, PartialHasIdentity, Persists
<1> QED BY <1>1, <1>2, <1>3, <1>4

\* A failed first read gives it one too.
LEMMA TypePrefetchFails ==
  ASSUME TypeInv, NEW t \in Turns, PrefetchFails(t)
  PROVE  TypeInv'
<1> USE RegistryAssumption DEF TypeInv, PrefetchFails, Goto, regVars, drainVars, ckptVars, callerVars
<1>1. TypeOK'
  BY DEF TypeOK, Phases, MessageIds
<1>2. CallerHasChat' /\ CallerHasTurn' /\ CallerHasQuestion'
  BY DEF TypeOK, CallerHasChat, CallerHasTurn, CallerHasQuestion
<1>3. RunHasIdentity'
  BY DEF TypeOK, RunHasIdentity, MessageIds
<1>4. PartialHasIdentity'
  BY DEF TypeOK, PartialHasIdentity, Persists, MessageIds
<1> QED BY <1>1, <1>2, <1>3, <1>4

\* The session row is ensured.
LEMMA TypeEnsureSession ==
  ASSUME TypeInv, NEW t \in Turns, EnsureSession(t)
  PROVE  TypeInv'
<1> USE RegistryAssumption DEF TypeInv, EnsureSession, Goto, regVars, drainVars, ckptVars, callerVars
<1>1. TypeOK'
  BY DEF TypeOK, Phases
<1>2. CallerHasChat' /\ CallerHasTurn' /\ CallerHasQuestion'
  BY DEF TypeOK, CallerHasChat, CallerHasTurn, CallerHasQuestion
<1>3. RunHasIdentity'
  BY DEF TypeOK, RunHasIdentity
<1>4. PartialHasIdentity'
  BY DEF TypeOK, PartialHasIdentity, Persists
<1> QED BY <1>1, <1>2, <1>3, <1>4

\* The node starts from the thread's records.
LEMMA TypeEnterGraph ==
  ASSUME TypeInv, NEW t \in Turns, EnterGraph(t)
  PROVE  TypeInv'
<1> USE RegistryAssumption DEF TypeInv, EnterGraph, Goto, regVars, drainVars, ckptVars, callerVars
<1>1. TypeOK'
  BY DEF TypeOK, Phases
<1>2. CallerHasChat' /\ CallerHasTurn' /\ CallerHasQuestion'
  BY DEF TypeOK, CallerHasChat, CallerHasTurn, CallerHasQuestion
<1>3. RunHasIdentity'
  BY DEF TypeOK, RunHasIdentity
<1>4. PartialHasIdentity'
  BY DEF TypeOK, PartialHasIdentity, Persists
<1> QED BY <1>1, <1>2, <1>3, <1>4

\* The run raises.
LEMMA TypeRunFails ==
  ASSUME TypeInv, NEW t \in Turns, RunFails(t)
  PROVE  TypeInv'
<1> USE RegistryAssumption DEF TypeInv, RunFails, Goto, regVars, drainVars, ckptVars, callerVars
<1>1. TypeOK'
  BY DEF TypeOK, Phases
<1>2. CallerHasChat' /\ CallerHasTurn' /\ CallerHasQuestion'
  BY DEF TypeOK, CallerHasChat, CallerHasTurn, CallerHasQuestion
<1>3. RunHasIdentity'
  BY DEF TypeOK, RunHasIdentity
<1>4. PartialHasIdentity'
  BY DEF TypeOK, PartialHasIdentity, Persists
<1> QED BY <1>1, <1>2, <1>3, <1>4

\* The node's record is committed.
LEMMA TypeNodeCommits ==
  ASSUME TypeInv, NEW t \in Turns,
         NEW st \in {"complete", "awaiting_input"}, NodeCommits(t, st)
  PROVE  TypeInv'
<1> USE RegistryAssumption DEF TypeInv, NodeCommits, Goto, regVars, drainVars, ckptVars, callerVars
<1>0. AppendOrReplace(tsnap[t], RecordOf(t, st)) \in Seq(Records)
  <2>1. RecordOf(t, st) \in Records
    BY RecordType DEF RunHasIdentity, Statuses
  <2> QED BY <2>1, AppendType DEF TypeOK
<1>1. TypeOK'
  BY <1>0 DEF TypeOK, Phases
<1>2. CallerHasChat' /\ CallerHasTurn' /\ CallerHasQuestion'
  BY DEF TypeOK, CallerHasChat, CallerHasTurn, CallerHasQuestion
<1>3. RunHasIdentity'
  BY DEF TypeOK, RunHasIdentity
<1>4. PartialHasIdentity'
  BY DEF TypeOK, PartialHasIdentity, Persists
<1> QED BY <1>1, <1>2, <1>3, <1>4

\* A continuation clears the intent.
LEMMA TypeClearIntent ==
  ASSUME TypeInv, NEW t \in Turns, ClearIntent(t)
  PROVE  TypeInv'
<1> USE RegistryAssumption DEF TypeInv, ClearIntent, Goto, regVars, drainVars, ckptVars, callerVars
<1>1. TypeOK'
  BY DEF TypeOK, Phases
<1>2. CallerHasChat' /\ CallerHasTurn' /\ CallerHasQuestion'
  BY DEF TypeOK, CallerHasChat, CallerHasTurn, CallerHasQuestion
<1>3. RunHasIdentity'
  BY DEF TypeOK, RunHasIdentity
<1>4. PartialHasIdentity'
  BY DEF TypeOK, PartialHasIdentity, Persists
<1> QED BY <1>1, <1>2, <1>3, <1>4

\* _write_failure_record reads.
LEMMA TypeFailureRead ==
  ASSUME TypeInv, NEW t \in Turns, FailureRead(t)
  PROVE  TypeInv'
<1> USE RegistryAssumption DEF TypeInv, FailureRead, Goto, regVars, drainVars, ckptVars, callerVars
<1>1. TypeOK'
  BY DEF TypeOK, Phases
<1>2. CallerHasChat' /\ CallerHasTurn' /\ CallerHasQuestion'
  BY DEF TypeOK, CallerHasChat, CallerHasTurn, CallerHasQuestion
<1>3. RunHasIdentity'
  BY DEF TypeOK, RunHasIdentity
<1>4. PartialHasIdentity'
  BY DEF TypeOK, PartialHasIdentity, Persists
<1> QED BY <1>1, <1>2, <1>3, <1>4

\* _write_failure_record writes.
LEMMA TypeFailureWrite ==
  ASSUME TypeInv, NEW t \in Turns, FailureWrite(t)
  PROVE  TypeInv'
<1> USE RegistryAssumption DEF TypeInv, FailureWrite, Goto, regVars, drainVars, ckptVars, callerVars
<1>0. AppendOrReplace(tsnap[t], RecordOf(t, "error")) \in Seq(Records)
  <2>1. RecordOf(t, "error") \in Records
    BY RecordType DEF RunHasIdentity, Statuses
  <2> QED BY <2>1, AppendType DEF TypeOK
<1>1. TypeOK'
  BY <1>0 DEF TypeOK, Phases
<1>2. CallerHasChat' /\ CallerHasTurn' /\ CallerHasQuestion'
  BY DEF TypeOK, CallerHasChat, CallerHasTurn, CallerHasQuestion
<1>3. RunHasIdentity'
  BY DEF TypeOK, RunHasIdentity
<1>4. PartialHasIdentity'
  BY DEF TypeOK, PartialHasIdentity, Persists
<1> QED BY <1>1, <1>2, <1>3, <1>4

\* The error record could not be written.
LEMMA TypeFailureUnrecorded ==
  ASSUME TypeInv, NEW t \in Turns, FailureUnrecorded(t)
  PROVE  TypeInv'
<1> USE RegistryAssumption DEF TypeInv, FailureUnrecorded, Goto, regVars, drainVars, ckptVars, callerVars
<1>1. TypeOK'
  BY DEF TypeOK, Phases
<1>2. CallerHasChat' /\ CallerHasTurn' /\ CallerHasQuestion'
  BY DEF TypeOK, CallerHasChat, CallerHasTurn, CallerHasQuestion
<1>3. RunHasIdentity'
  BY DEF TypeOK, RunHasIdentity
<1>4. PartialHasIdentity'
  BY DEF TypeOK, PartialHasIdentity, Persists
<1> QED BY <1>1, <1>2, <1>3, <1>4

\* The watchdog fires.
LEMMA TypeExpire ==
  ASSUME TypeInv, NEW t \in Turns, Expire(t)
  PROVE  TypeInv'
<1> USE RegistryAssumption DEF TypeInv, Expire, regVars, drainVars, ckptVars, callerVars
<1>1. TypeOK'
  BY DEF TypeOK, Phases, PersistStates, Persisters
<1>2. CallerHasChat' /\ CallerHasTurn' /\ CallerHasQuestion'
  BY DEF TypeOK, CallerHasChat, CallerHasTurn, CallerHasQuestion
<1>3. RunHasIdentity'
  BY DEF TypeOK, RunHasIdentity
<1>4. PartialHasIdentity'
  BY DEF TypeOK, PartialHasIdentity, Persists
<1> QED BY <1>1, <1>2, <1>3, <1>4

\* A cancelled task stops.
LEMMA TypeTaskCancelled ==
  ASSUME TypeInv, NEW t \in Turns, TaskCancelled(t)
  PROVE  TypeInv'
<1> USE RegistryAssumption DEF TypeInv, TaskCancelled, Unregister, DropLocals, regVars, drainVars, ckptVars, callerVars
<1>0. \/ handles' = handles
      \/ handles' = [handles EXCEPT ![SessionOf[t]] = IF @ = t THEN NoTurn ELSE @]
  OBVIOUS
<1>1. TypeOK'
  <2>1. phase' \in [Turns -> Phases]
    BY DEF TypeOK, Phases
  <2>2. handles' \in [Sessions -> Turns \cup {NoTurn}]
    BY <1>0 DEF TypeOK
  <2>3. tsnap' \in [Turns -> Seq(Records)]
      /\ psnap' \in [Persisters -> Seq(Records)]
      /\ persist' \in [Persisters -> PersistStates]
    BY EmptyType DEF TypeOK, Persisters, PersistStates
  <2> QED BY <2>1, <2>2, <2>3 DEF TypeOK
<1>2. CallerHasChat' /\ CallerHasTurn' /\ CallerHasQuestion'
  BY DEF TypeOK, CallerHasChat, CallerHasTurn, CallerHasQuestion
<1>3. RunHasIdentity'
  BY DEF TypeOK, RunHasIdentity
<1>4. PartialHasIdentity'
  BY DEF TypeOK, PartialHasIdentity, Persists
<1> QED BY <1>1, <1>2, <1>3, <1>4

\* _persist_partial reads: only a turn with an identity goes on to write.
LEMMA TypePersistRead ==
  ASSUME TypeInv, NEW t \in Turns, NEW p \in Persisters, PersistRead(p, t)
  PROVE  TypeInv'
<1> USE RegistryAssumption DEF TypeInv, PersistRead, regVars, drainVars, ckptVars, callerVars
<1>1. TypeOK'
  BY DEF TypeOK, PersistStates
<1>2. CallerHasChat' /\ CallerHasTurn' /\ CallerHasQuestion'
  BY DEF TypeOK, CallerHasChat, CallerHasTurn, CallerHasQuestion
<1>3. RunHasIdentity'
  BY DEF TypeOK, RunHasIdentity
<1>4. PartialHasIdentity'
  BY DEF TypeOK, PartialHasIdentity, Persists
<1> QED BY <1>1, <1>2, <1>3, <1>4

\* An attempt to persist fails or is cut off.
LEMMA TypePersistFails ==
  ASSUME TypeInv, NEW t \in Turns, NEW p \in Persisters, PersistFails(p, t)
  PROVE  TypeInv'
<1> USE RegistryAssumption DEF TypeInv, PersistFails, regVars, drainVars, ckptVars, callerVars
<1>1. TypeOK'
  BY DEF TypeOK, PersistStates
<1>2. CallerHasChat' /\ CallerHasTurn' /\ CallerHasQuestion'
  BY DEF TypeOK, CallerHasChat, CallerHasTurn, CallerHasQuestion
<1>3. RunHasIdentity'
  BY DEF TypeOK, RunHasIdentity
<1>4. PartialHasIdentity'
  BY DEF TypeOK, PartialHasIdentity, Persists
<1> QED BY <1>1, <1>2, <1>3, <1>4

\* _persist_partial writes.
LEMMA TypePersistWrite ==
  ASSUME TypeInv, NEW t \in Turns, NEW p \in Persisters, PersistWrite(p, t)
  PROVE  TypeInv'
<1> USE RegistryAssumption DEF TypeInv, PersistWrite, regVars, drainVars, ckptVars, callerVars
<1>0. AppendOrReplace(psnap[p], RecordOf(t, PartialStatus(p))) \in Seq(Records)
  <2>1. PartialStatus(p) \in Statuses
    BY DEF PartialStatus, Statuses
  <2>2. RecordOf(t, PartialStatus(p)) \in Records
    BY <2>1, RecordType DEF PartialHasIdentity
  <2> QED BY <2>2, AppendType DEF TypeOK
<1>1. TypeOK'
  BY <1>0 DEF TypeOK, PersistStates
<1>2. CallerHasChat' /\ CallerHasTurn' /\ CallerHasQuestion'
  BY DEF TypeOK, CallerHasChat, CallerHasTurn, CallerHasQuestion
<1>3. RunHasIdentity'
  BY DEF TypeOK, RunHasIdentity
<1>4. PartialHasIdentity'
  BY DEF TypeOK, PartialHasIdentity, Persists
<1> QED BY <1>1, <1>2, <1>3, <1>4

\* The common start of cancel and of the drain, for whatever the caller then
\* does to its own bookkeeping.
LEMMA TypeCancelOrUnpark ==
  ASSUME TypeInv, NEW c \in Callers, NEW s \in Sessions,
         NEW cause \in {"user", "shutdown"}, CancelOrUnpark(c, s, cause),
         stopping' \in {"no", "drain", "closed"},
         drainQueue' \in SUBSET Sessions,
         ckind' \in [Callers -> {"none", "cancel", "delete", "accept", "drain"}]
  PROVE  TypeInv'
<1> USE RegistryAssumption DEF TypeInv, CancelOrUnpark, regVars, ckptVars
<1>1. CASE Active(s) /\ cpc' = [cpc EXCEPT ![c] = "join"]
           /\ why' = [why EXCEPT ![turns[s]] = cause]
           /\ ctgt' = [ctgt EXCEPT ![c] = turns[s]]
  <2>0. turns[s] \in Turns
    BY <1>1 DEF Active, TypeOK
  <2>1. TypeOK'
    BY <1>1, <2>0 DEF TypeOK, CallerStates
  <2>2. CallerHasChat' /\ CallerHasTurn' /\ CallerHasQuestion'
    BY <1>1, <2>0 DEF TypeOK, CallerHasChat, CallerHasTurn, CallerHasQuestion
  <2>3. RunHasIdentity'
    BY DEF TypeOK, RunHasIdentity
  <2>4. PartialHasIdentity'
    BY <1>1, <2>0 DEF TypeOK, PartialHasIdentity, Persists
  <2> QED BY <2>1, <2>2, <2>3, <2>4
<1>2. CASE cpc' = [cpc EXCEPT ![c] = "unparkRead"] /\ UNCHANGED <<why, ctgt>>
  <2>1. TypeOK'
    BY <1>2 DEF TypeOK, CallerStates
  <2>2. CallerHasChat' /\ CallerHasTurn' /\ CallerHasQuestion'
    BY <1>2 DEF TypeOK, CallerHasChat, CallerHasTurn, CallerHasQuestion
  <2>3. RunHasIdentity'
    BY DEF TypeOK, RunHasIdentity
  <2>4. PartialHasIdentity'
    BY <1>2 DEF TypeOK, PartialHasIdentity, Persists
  <2> QED BY <2>1, <2>2, <2>3, <2>4
<1> QED BY <1>1, <1>2

\* The canceller has joined the task.
LEMMA TypeJoined ==
  ASSUME TypeInv, NEW c \in Callers, Joined(c)
  PROVE  TypeInv'
<1> USE RegistryAssumption DEF TypeInv, Joined, regVars, drainVars, ckptVars, callerVars
<1>1. TypeOK'
  BY DEF TypeOK, CallerStates, PersistStates, Persisters
<1>2. CallerHasChat' /\ CallerHasTurn' /\ CallerHasQuestion'
  BY DEF TypeOK, CallerHasChat, CallerHasTurn, CallerHasQuestion
<1>3. RunHasIdentity'
  BY DEF TypeOK, RunHasIdentity
<1>4. PartialHasIdentity'
  BY DEF TypeOK, PartialHasIdentity, Persists
<1> QED BY <1>1, <1>2, <1>3, <1>4

\* The canceller ends the turn.
LEMMA TypeCancelDone ==
  ASSUME TypeInv, NEW c \in Callers, CancelDone(c)
  PROVE  TypeInv'
<1> USE RegistryAssumption DEF TypeInv, CancelDone, Finalize, Returned, regVars, drainVars, ckptVars, callerVars
<1>0. ctgt[c] \in Turns
  BY DEF CallerHasTurn
<1>1. TypeOK'
  <2>1. stream' \in [Turns -> Seq(Terminals)]
    BY <1>0 DEF TypeOK, Terminals
  <2>2. phase' \in [Turns -> Phases] /\ hooks' \in SUBSET Turns
    BY <1>0 DEF TypeOK, Phases
  <2>3. turns' \in [Sessions -> Turns \cup {NoTurn}]
    BY <1>0 DEF TypeOK
  <2>4. psnap' \in [Persisters -> Seq(Records)]
      /\ persist' \in [Persisters -> PersistStates]
    BY EmptyType DEF TypeOK, Persisters, PersistStates
  <2>5. cpc' \in [Callers -> CallerStates]
      /\ csnap' \in [Callers -> Seq(Records)]
    BY EmptyType DEF TypeOK, CallerStates
  <2>6. ckind' \in [Callers -> {"none", "cancel", "delete", "accept", "drain"}]
      /\ csess' \in [Callers -> Sessions \cup {NoSession}]
      /\ ctgt' \in [Callers -> Turns \cup {NoTurn}]
    BY DEF TypeOK
  <2> QED BY <2>1, <2>2, <2>3, <2>4, <2>5, <2>6 DEF TypeOK
<1>2. CallerHasChat' /\ CallerHasTurn' /\ CallerHasQuestion'
  BY DEF TypeOK, CallerHasChat, CallerHasTurn, CallerHasQuestion
<1>3. RunHasIdentity'
  BY DEF TypeOK, RunHasIdentity
<1>4. PartialHasIdentity'
  BY DEF TypeOK, PartialHasIdentity, Persists
<1> QED BY <1>1, <1>2, <1>3, <1>4

\* _unpark_if_parked reads a parked question.
LEMMA TypeUnparkRead ==
  ASSUME TypeInv, NEW c \in Callers, UnparkRead(c)
  PROVE  TypeInv'
<1> USE RegistryAssumption DEF TypeInv, UnparkRead, turnVars, regVars, drainVars, ckptVars, callerVars
<1>1. TypeOK'
  BY DEF TypeOK, CallerStates, CallerHasChat
<1>2. CallerHasChat' /\ CallerHasTurn' /\ CallerHasQuestion'
  BY DEF TypeOK, CallerHasChat, CallerHasTurn, CallerHasQuestion, IsParked
<1>3. RunHasIdentity'
  BY DEF TypeOK, RunHasIdentity
<1>4. PartialHasIdentity'
  BY DEF TypeOK, PartialHasIdentity, Persists
<1> QED BY <1>1, <1>2, <1>3, <1>4

\* _unpark_if_parked writes it back as cancelled.
LEMMA TypeUnparkWrite ==
  ASSUME TypeInv, NEW c \in Callers, UnparkWrite(c)
  PROVE  TypeInv'
<1> USE RegistryAssumption DEF TypeInv, UnparkWrite, Returned, turnVars, regVars, drainVars, ckptVars, callerVars
<1>0. ReplaceLatest(csnap[c], [Latest(csnap[c]) EXCEPT !.status = "cancelled"])
        \in Seq(Records)
  <2>1. csnap[c] \in Seq(Records) /\ csnap[c] # <<>>
    BY DEF TypeOK, CallerHasQuestion
  <2>2. [Latest(csnap[c]) EXCEPT !.status = "cancelled"] \in Records
    BY <2>1, LatestType, StatusType DEF Statuses
  <2> QED BY <2>1, <2>2, ReplaceType
<1>1. TypeOK'
  BY <1>0, EmptyType DEF TypeOK, CallerStates, CallerHasChat
<1>2. CallerHasChat' /\ CallerHasTurn' /\ CallerHasQuestion'
  BY DEF TypeOK, CallerHasChat, CallerHasTurn, CallerHasQuestion
<1>3. RunHasIdentity'
  BY DEF TypeOK, RunHasIdentity
<1>4. PartialHasIdentity'
  BY DEF TypeOK, PartialHasIdentity, Persists
<1> QED BY <1>1, <1>2, <1>3, <1>4

\* It finds nothing parked, or fails.
LEMMA TypeUnparkIdle ==
  ASSUME TypeInv, NEW c \in Callers, UnparkIdle(c)
  PROVE  TypeInv'
<1> USE RegistryAssumption DEF TypeInv, UnparkIdle, Returned, turnVars, regVars, drainVars, ckptVars, callerVars
<1>1. TypeOK'
  BY EmptyType DEF TypeOK, CallerStates
<1>2. CallerHasChat' /\ CallerHasTurn' /\ CallerHasQuestion'
  BY DEF TypeOK, CallerHasChat, CallerHasTurn, CallerHasQuestion
<1>3. RunHasIdentity'
  BY DEF TypeOK, RunHasIdentity
<1>4. PartialHasIdentity'
  BY DEF TypeOK, PartialHasIdentity, Persists
<1> QED BY <1>1, <1>2, <1>3, <1>4

\* adelete_thread.
LEMMA TypeDropThread ==
  ASSUME TypeInv, NEW c \in Callers, DropThread(c)
  PROVE  TypeInv'
<1> USE RegistryAssumption DEF TypeInv, DropThread, turnVars, regVars, drainVars, ckptVars, callerVars
<1>1. TypeOK'
  BY EmptyType DEF TypeOK, CallerStates, CallerHasChat
<1>2. CallerHasChat' /\ CallerHasTurn' /\ CallerHasQuestion'
  BY DEF TypeOK, CallerHasChat, CallerHasTurn, CallerHasQuestion
<1>3. RunHasIdentity'
  BY DEF TypeOK, RunHasIdentity
<1>4. PartialHasIdentity'
  BY DEF TypeOK, PartialHasIdentity, Persists
<1> QED BY <1>1, <1>2, <1>3, <1>4

\* adelete_thread fails.
LEMMA TypeDropFails ==
  ASSUME TypeInv, NEW c \in Callers, DropFails(c)
  PROVE  TypeInv'
<1> USE RegistryAssumption DEF TypeInv, DropFails, Idle, turnVars, regVars, drainVars, ckptVars, callerVars
<1>1. TypeOK'
  BY EmptyType DEF TypeOK, CallerStates
<1>2. CallerHasChat' /\ CallerHasTurn' /\ CallerHasQuestion'
  BY DEF TypeOK, CallerHasChat, CallerHasTurn, CallerHasQuestion
<1>3. RunHasIdentity'
  BY DEF TypeOK, RunHasIdentity
<1>4. PartialHasIdentity'
  BY DEF TypeOK, PartialHasIdentity, Persists
<1> QED BY <1>1, <1>2, <1>3, <1>4

\* The session row is deleted.
LEMMA TypeDropRow ==
  ASSUME TypeInv, NEW c \in Callers, DropRow(c)
  PROVE  TypeInv'
<1> USE RegistryAssumption DEF TypeInv, DropRow, Idle, turnVars, regVars, drainVars, ckptVars, callerVars
<1>1. TypeOK'
  BY EmptyType DEF TypeOK, CallerStates, CallerHasChat
<1>2. CallerHasChat' /\ CallerHasTurn' /\ CallerHasQuestion'
  BY DEF TypeOK, CallerHasChat, CallerHasTurn, CallerHasQuestion
<1>3. RunHasIdentity'
  BY DEF TypeOK, RunHasIdentity
<1>4. PartialHasIdentity'
  BY DEF TypeOK, PartialHasIdentity, Persists
<1> QED BY <1>1, <1>2, <1>3, <1>4

\* accept_clarification takes the clarify claim.
LEMMA TypeAcceptCall ==
  ASSUME TypeInv, NEW c \in Callers, NEW s \in Sessions, AcceptCall(c, s)
  PROVE  TypeInv'
<1> USE RegistryAssumption DEF TypeInv, AcceptCall, turnVars, regVars, drainVars, ckptVars, callerVars
<1>1. TypeOK'
  BY DEF TypeOK, CallerStates
<1>2. CallerHasChat' /\ CallerHasTurn' /\ CallerHasQuestion'
  BY DEF TypeOK, CallerHasChat, CallerHasTurn, CallerHasQuestion
<1>3. RunHasIdentity'
  BY DEF TypeOK, RunHasIdentity
<1>4. PartialHasIdentity'
  BY DEF TypeOK, PartialHasIdentity, Persists
<1> QED BY <1>1, <1>2, <1>3, <1>4

\* accept_clarification reads the pending question.
LEMMA TypeAcceptRead ==
  ASSUME TypeInv, NEW c \in Callers, AcceptRead(c)
  PROVE  TypeInv'
<1> USE RegistryAssumption DEF TypeInv, AcceptRead, turnVars, regVars, drainVars, ckptVars, callerVars
<1>1. TypeOK'
  BY DEF TypeOK, CallerStates, CallerHasChat
<1>2. CallerHasChat' /\ CallerHasTurn' /\ CallerHasQuestion'
  BY DEF TypeOK, CallerHasChat, CallerHasTurn, CallerHasQuestion, PendingV2, IsParked
<1>3. RunHasIdentity'
  BY DEF TypeOK, RunHasIdentity
<1>4. PartialHasIdentity'
  BY DEF TypeOK, PartialHasIdentity, Persists
<1> QED BY <1>1, <1>2, <1>3, <1>4

\* accept_clarification writes the answered question.
LEMMA TypeAcceptWrite ==
  ASSUME TypeInv, NEW c \in Callers, AcceptWrite(c)
  PROVE  TypeInv'
<1> USE RegistryAssumption DEF TypeInv, AcceptWrite, turnVars, regVars, drainVars, ckptVars, callerVars
<1>0. ReplaceLatest(csnap[c], [Latest(csnap[c]) EXCEPT !.status = "complete"])
        \in Seq(Records)
  <2>1. csnap[c] \in Seq(Records) /\ csnap[c] # <<>>
    BY DEF TypeOK, CallerHasQuestion
  <2>2. [Latest(csnap[c]) EXCEPT !.status = "complete"] \in Records
    BY <2>1, LatestType, StatusType DEF Statuses
  <2> QED BY <2>1, <2>2, ReplaceType
<1>1. TypeOK'
  BY <1>0 DEF TypeOK, CallerStates
<1>2. CallerHasChat' /\ CallerHasTurn' /\ CallerHasQuestion'
  BY DEF TypeOK, CallerHasChat, CallerHasTurn, CallerHasQuestion
<1>3. RunHasIdentity'
  BY DEF TypeOK, RunHasIdentity
<1>4. PartialHasIdentity'
  BY DEF TypeOK, PartialHasIdentity, Persists
<1> QED BY <1>1, <1>2, <1>3, <1>4

\* accept_clarification's finally.
LEMMA TypeReleaseAccept ==
  ASSUME TypeInv, NEW c \in Callers, ReleaseAccept(c),
         UNCHANGED <<regVars, drainVars, turnVars, ckptVars>>
  PROVE  TypeInv'
<1> USE RegistryAssumption DEF TypeInv, ReleaseAccept, Idle, turnVars, regVars, drainVars, ckptVars, callerVars
<1>1. TypeOK'
  BY EmptyType DEF TypeOK, CallerStates
<1>2. CallerHasChat' /\ CallerHasTurn' /\ CallerHasQuestion'
  BY DEF TypeOK, CallerHasChat, CallerHasTurn, CallerHasQuestion
<1>3. RunHasIdentity'
  BY DEF TypeOK, RunHasIdentity
<1>4. PartialHasIdentity'
  BY DEF TypeOK, PartialHasIdentity, Persists
<1> QED BY <1>1, <1>2, <1>3, <1>4

\* start_continuation takes the chat and spawns the second half.
LEMMA TypeContinue ==
  ASSUME TypeInv, NEW c \in Callers, NEW t \in Turns, Continue(c, t)
  PROVE  TypeInv'
<1> USE RegistryAssumption DEF TypeInv, Continue, ReleaseAccept, Idle, regVars, drainVars, ckptVars, callerVars
<1>0. Latest(csnap[c]).goal \in BOOLEAN
  BY LatestType DEF TypeOK, CallerHasQuestion, Records
<1>1. TypeOK'
  BY <1>0, EmptyType DEF TypeOK, CallerStates, Phases
<1>2. CallerHasChat' /\ CallerHasTurn' /\ CallerHasQuestion'
  BY DEF TypeOK, CallerHasChat, CallerHasTurn, CallerHasQuestion
<1>3. RunHasIdentity'
  BY DEF TypeOK, RunHasIdentity
<1>4. PartialHasIdentity'
  BY DEF TypeOK, PartialHasIdentity, Persists
<1> QED BY <1>1, <1>2, <1>3, <1>4

\* aclose begins.
LEMMA TypeDrainBegin ==
  ASSUME TypeInv, NEW c \in Callers, DrainBegin(c)
  PROVE  TypeInv'
<1> USE RegistryAssumption DEF TypeInv, DrainBegin, ActiveTurns, turnVars, regVars, drainVars, ckptVars, callerVars
<1>1. TypeOK'
  BY DEF TypeOK, CallerStates
<1>2. CallerHasChat' /\ CallerHasTurn' /\ CallerHasQuestion'
  BY DEF TypeOK, CallerHasChat, CallerHasTurn, CallerHasQuestion
<1>3. RunHasIdentity'
  BY DEF TypeOK, RunHasIdentity
<1>4. PartialHasIdentity'
  BY DEF TypeOK, PartialHasIdentity, Persists
<1> QED BY <1>1, <1>2, <1>3, <1>4

\* aclose returns.
LEMMA TypeDrainDone ==
  ASSUME TypeInv, NEW c \in Callers, DrainDone(c)
  PROVE  TypeInv'
<1> USE RegistryAssumption DEF TypeInv, DrainDone, Idle, turnVars, regVars, drainVars, ckptVars, callerVars
<1>1. TypeOK'
  BY EmptyType DEF TypeOK, CallerStates
<1>2. CallerHasChat' /\ CallerHasTurn' /\ CallerHasQuestion'
  BY DEF TypeOK, CallerHasChat, CallerHasTurn, CallerHasQuestion
<1>3. RunHasIdentity'
  BY DEF TypeOK, RunHasIdentity
<1>4. PartialHasIdentity'
  BY DEF TypeOK, PartialHasIdentity, Persists
<1> QED BY <1>1, <1>2, <1>3, <1>4

\* A step of a start call, of a task or of its hook.
LEMMA TypeTurnStep ==
  ASSUME TypeInv, NEW t \in Turns, TurnStep(t)
  PROVE  TypeInv'
<1>1. CASE StartStep(t)
  BY <1>1, TypeReject, TypeSpawn, TypeRewriteRead, TypeRewriteWrite DEF StartStep
<1>2. CASE RunStep(t)
  <2>1. CASE ErrorWithoutRecord(t) \/ RunDone(t) \/ RunError(t)
    <3>1. PICK e \in Terminals : DriveEnds(t, e)
      BY <2>1 DEF ErrorWithoutRecord, RunDone, RunError, Terminals
    <3> QED BY <3>1, TypeDriveEnds
  <2>2. CASE \E st \in {"complete", "awaiting_input"} : NodeCommits(t, st)
    BY <2>2, TypeNodeCommits DEF Statuses
  <2>3. CASE FirstStep(t) \/ Prefetch(t) \/ PrefetchFails(t) \/ EnsureSession(t)
             \/ EnterGraph(t) \/ RunFails(t) \/ ClearIntent(t)
    BY <2>3, TypeFirstStep, TypePrefetch, TypePrefetchFails, TypeEnsureSession,
       TypeEnterGraph, TypeRunFails, TypeClearIntent
  <2>4. CASE FailureRead(t) \/ FailureWrite(t) \/ FailureUnrecorded(t)
    BY <2>4, TypeFailureRead, TypeFailureWrite, TypeFailureUnrecorded
  <2> QED BY <1>2, <2>1, <2>2, <2>3, <2>4 DEF RunStep
<1>3. CASE StopStep(t)
  <2>1. CASE PersistStep(t, t)
    BY <2>1, TypePersistRead, TypePersistFails, TypePersistWrite
       DEF PersistStep, Persisters
  <2>2. CASE ExpireDone(t)
    BY <2>2, TypeDriveEnds DEF ExpireDone, Terminals
  <2> QED BY <1>3, <2>1, <2>2, TypeExpire, TypeTaskCancelled DEF StopStep
<1> QED BY <1>1, <1>2, <1>3, TypeHookDone DEF TurnStep

\* A step of a request that is under way.
LEMMA TypeCallerStep ==
  ASSUME TypeInv, NEW c \in Callers, CallerStep(c)
  PROVE  TypeInv'
<1>1. CASE Joined(c) \/ CancelDone(c) \/ UnparkRead(c) \/ UnparkWrite(c) \/ UnparkIdle(c)
  BY <1>1, TypeJoined, TypeCancelDone, TypeUnparkRead, TypeUnparkWrite, TypeUnparkIdle
<1>2. CASE \E t \in Turns : PersistStep(c, t)
  BY <1>2, TypePersistRead, TypePersistFails, TypePersistWrite
     DEF PersistStep, Persisters
<1>3. CASE DropThread(c) \/ DropFails(c) \/ DropRow(c)
  BY <1>3, TypeDropThread, TypeDropFails, TypeDropRow
<1>4. CASE AcceptFails(c) \/ ContinueFails(c)
  <2>1. ReleaseAccept(c) /\ UNCHANGED <<regVars, drainVars, turnVars, ckptVars>>
    BY <1>4 DEF AcceptFails, ContinueFails
  <2> QED BY <2>1, TypeReleaseAccept
<1>5. CASE AcceptRead(c) \/ AcceptWrite(c)
  BY <1>5, TypeAcceptRead, TypeAcceptWrite
<1>6. CASE \E t \in Turns : Continue(c, t)
  BY <1>6, TypeContinue
<1>7. CASE \E s \in Sessions : DrainNext(c, s)
  <2>1. PICK s \in Sessions : DrainNext(c, s)
    BY <1>7
  <2>2. /\ CancelOrUnpark(c, s, "shutdown")
        /\ stopping' \in {"no", "drain", "closed"}
        /\ drainQueue' \in SUBSET Sessions
        /\ ckind' \in [Callers -> {"none", "cancel", "delete", "accept", "drain"}]
    BY <2>1 DEF DrainNext, TypeInv, TypeOK
  <2> QED BY <2>2, TypeCancelOrUnpark
<1> QED BY <1>1, <1>2, <1>3, <1>4, <1>5, <1>6, <1>7, TypeDrainDone DEF CallerStep

\* A request that arrives.
LEMMA TypeRequest ==
  ASSUME TypeInv, Request
  PROVE  TypeInv'
<1>1. CASE \E t \in Turns, goal \in BOOLEAN : Claim(t, goal)
  BY <1>1, TypeClaim
<1>2. CASE \E c \in Callers, s \in Sessions : AcceptCall(c, s)
  BY <1>2, TypeAcceptCall
<1>3. CASE \E c \in Callers, s \in Sessions, kind \in {"cancel", "delete"} :
             CancelCall(c, s, kind)
  <2>1. PICK c \in Callers, s \in Sessions, kind \in {"cancel", "delete"} :
          CancelCall(c, s, kind)
    BY <1>3
  <2>2. /\ CancelOrUnpark(c, s, "user")
        /\ stopping' \in {"no", "drain", "closed"}
        /\ drainQueue' \in SUBSET Sessions
        /\ ckind' \in [Callers -> {"none", "cancel", "delete", "accept", "drain"}]
    BY <2>1 DEF CancelCall, TypeInv, TypeOK, drainVars
  <2> QED BY <2>2, TypeCancelOrUnpark
<1>4. CASE \E c \in Callers : DrainBegin(c)
  BY <1>4, TypeDrainBegin
<1> QED BY <1>1, <1>2, <1>3, <1>4 DEF Request

\* TypeInv holds initially, whatever transcripts the process finds.
LEMMA TypeInit ==
  ASSUME Init
  PROVE  TypeInv
<1> USE RegistryAssumption DEF Init
<1>1. TypeOK
  BY EmptyType DEF TypeOK, Phases, PersistStates, CallerStates
<1>2. CallerHasChat /\ CallerHasTurn /\ CallerHasQuestion
  BY DEF CallerHasChat, CallerHasTurn, CallerHasQuestion
<1>3. RunHasIdentity /\ PartialHasIdentity
  BY DEF RunHasIdentity, PartialHasIdentity
<1> QED BY <1>1, <1>2, <1>3 DEF TypeInv

\* Every step keeps TypeInv.
LEMMA TypeStep ==
  ASSUME TypeInv, [Next]_vars
  PROVE  TypeInv'
<1>1. CASE UNCHANGED vars
  BY <1>1 DEF vars, regVars, turnVars, ckptVars, callerVars, drainVars, TypeInv,
     TypeOK, CallerHasChat, CallerHasTurn, CallerHasQuestion, RunHasIdentity,
     PartialHasIdentity, Persists
<1> QED BY <1>1, TypeRequest, TypeTurnStep, TypeCallerStep DEF Next

\* Types are kept: every variable has its kind, and in particular whatever is
\* written to a transcript is a record with a message_id and, when a question
\* is settled, there is one to settle (_persist_partial, _unpark_if_parked,
\* accept_clarification, _write_failure_record).
THEOREM TypeInvariant == Spec => []TypeInv
BY TypeInit, TypeStep, PTL DEF Spec

\* The type invariant that the runs check.
THEOREM TypeCorrect == Spec => []TypeOK
BY TypeInvariant, PTL DEF TypeInv

(***************************************************************************)
(* Single flight.  That a turn at work holds its chat's claim is inductive *)
(* only together with the converse (who holds a claim is at work) and with *)
(* what is true of a canceller: the turn it waits for has not been         *)
(* finalized, was marked by this canceller and by no other, and has        *)
(* stopped once the canceller persists.                                    *)
(***************************************************************************)
\* The phases in which somebody works for the turn.
Work == {"prep", "rewrite", "ended"} \cup TaskLive

\* A request inside _cancel_active or _drain_active_with_error.
Cancelling(c) == cpc[c] \in {"join", "persist"}

\* Who holds a chat's claim is at work for a turn of that chat.
OwnerWorks ==
  \A s \in Sessions : turns[s] # NoTurn =>
    SessionOf[turns[s]] = s /\ phase[turns[s]] \in Work

\* And who is at work holds it.
WorkOwns == \A t \in Turns : phase[t] \in Work => turns[SessionOf[t]] = t

\* The turn a canceller waits for is not finalized, carries its mark, and has
\* stopped once the canceller persists.
CancellerWaits ==
  \A c \in Callers : Cancelling(c) =>
    /\ ctgt[c] \in Turns
    /\ phase[ctgt[c]] \in TaskLive \cup {"ended"}
    /\ cpc[c] = "persist" => phase[ctgt[c]] = "ended"
    /\ why[ctgt[c]] = IF ckind[c] = "drain" THEN "shutdown" ELSE "user"

\* No two cancellers wait for the same turn.
OneCanceller ==
  \A c, d \in Callers :
    Cancelling(c) /\ Cancelling(d) /\ ctgt[c] = ctgt[d] => c = d

\* Only the shutdown walks the drain queue.
DrainerDrains == \A c \in Callers : cpc[c] = "drain" => ckind[c] = "drain"

\* A turn is marked only while it has a task, and keeps the mark.
OnlyTasksAreStopped ==
  \A t \in Turns : why[t] # "none" => phase[t] \in TaskLive \cup {"ended", "final"}

\* No terminal event before the end.
NoEarlyTerminal == \A t \in Turns : phase[t] # "final" => stream[t] = <<>>

FlightInv ==
  /\ OwnerWorks
  /\ WorkOwns
  /\ CancellerWaits
  /\ OneCanceller
  /\ DrainerDrains
  /\ OnlyTasksAreStopped
  /\ NoEarlyTerminal
  /\ TerminalTellsCause

\* All that FlightInv reads.
flightVars == <<turns, phase, why, stream, cpc, ctgt, ckind>>

\* What none of these steps touches cannot break the invariant: the reads and
\* writes of a partial record, and the completion hooks.
LEMMA FlightFrame ==
  ASSUME TypeInv, FlightInv, UNCHANGED flightVars
  PROVE  FlightInv'
BY DEF TypeInv, TypeOK, FlightInv, OwnerWorks, WorkOwns, CancellerWaits,
       OneCanceller, DrainerDrains, OnlyTasksAreStopped, NoEarlyTerminal,
       TerminalTellsCause, flightVars, Cancelling

\* A start call or a task goes on to its next phase.
LEMMA FlightAdvance ==
  ASSUME TypeInv, FlightInv, NEW t \in Turns,
         NEW to \in TaskLive \cup {"rewrite"},
         phase[t] \in Work \ {"ended"},
         phase[t] \in TaskLive => to \in TaskLive,
         phase' = [phase EXCEPT ![t] = to],
         UNCHANGED <<turns, why, stream, cpc, ctgt, ckind>>
  PROVE  FlightInv'
<1> USE DEF TypeInv, TypeOK, FlightInv, Work, TaskLive, Cancelling
<1>1. OwnerWorks'
  BY DEF OwnerWorks
<1>2. WorkOwns'
  BY DEF WorkOwns
<1>3. CancellerWaits'
  BY DEF CancellerWaits
<1>4. OneCanceller' /\ DrainerDrains'
  BY DEF OneCanceller, DrainerDrains
<1>5. OnlyTasksAreStopped' /\ NoEarlyTerminal' /\ TerminalTellsCause'
  BY DEF OnlyTasksAreStopped, NoEarlyTerminal, TerminalTellsCause
<1> QED BY <1>1, <1>2, <1>3, <1>4, <1>5

\* A caller moves to a state in which it cancels nothing.
LEMMA FlightCaller ==
  ASSUME TypeInv, FlightInv, NEW c \in Callers, NEW to \in CallerStates,
         ~Cancelling(c), to \notin {"join", "persist"},
         cpc' = [cpc EXCEPT ![c] = to],
         \A d \in Callers : d # c => ctgt'[d] = ctgt[d] /\ ckind'[d] = ckind[d],
         to = "drain" => ckind'[c] = "drain",
         UNCHANGED <<turns, phase, why, stream>>
  PROVE  FlightInv'
<1> USE DEF TypeInv, TypeOK, FlightInv, Cancelling
<1>1. OwnerWorks' /\ WorkOwns'
  BY DEF OwnerWorks, WorkOwns
<1>2. CancellerWaits'
  BY DEF CancellerWaits
<1>3. OneCanceller'
  BY DEF OneCanceller
<1>4. DrainerDrains'
  BY DEF DrainerDrains
<1>5. OnlyTasksAreStopped' /\ NoEarlyTerminal' /\ TerminalTellsCause'
  BY DEF OnlyTasksAreStopped, NoEarlyTerminal, TerminalTellsCause
<1> QED BY <1>1, <1>2, <1>3, <1>4, <1>5

\* start and start_continuation take a free chat for a turn nobody knows.
LEMMA FlightTake ==
  ASSUME TypeInv, FlightInv, NEW t \in Turns, NEW to \in {"prep", "spawned"},
         phase[t] = "new", turns[SessionOf[t]] = NoTurn,
         turns' = [turns EXCEPT ![SessionOf[t]] = t],
         phase' = [phase EXCEPT ![t] = to],
         UNCHANGED <<why, stream>>,
         \A d \in Callers : Cancelling(d)' =>
            Cancelling(d) /\ cpc'[d] = cpc[d] /\ ctgt'[d] = ctgt[d] /\ ckind'[d] = ckind[d],
         \A d \in Callers : cpc'[d] = "drain" => ckind'[d] = "drain"
  PROVE  FlightInv'
<1> USE RegistryAssumption DEF TypeInv, TypeOK, FlightInv, Work, TaskLive, MessageIds
<1>1. OwnerWorks'
  BY DEF OwnerWorks
<1>2. ASSUME NEW u \in Turns, phase'[u] \in Work
      PROVE  turns'[SessionOf[u]] = u
  <2>1. CASE u = t
    BY <2>1
  <2>2. CASE u # t
    <3>1. phase[u] \in Work
      BY <1>2, <2>2
    <3>2. turns[SessionOf[u]] = u /\ SessionOf[u] # SessionOf[t]
      BY <3>1 DEF WorkOwns
    <3> QED BY <3>2
  <2> QED BY <2>1, <2>2
<1>3. CancellerWaits'
  BY DEF CancellerWaits, Cancelling
<1>4. OneCanceller' /\ DrainerDrains'
  BY DEF OneCanceller, DrainerDrains
<1>5. OnlyTasksAreStopped' /\ NoEarlyTerminal' /\ TerminalTellsCause'
  BY DEF OnlyTasksAreStopped, NoEarlyTerminal, TerminalTellsCause
<1> QED BY <1>1, <1>2, <1>3, <1>4, <1>5 DEF WorkOwns

\* start fails and pops its claim.
LEMMA FlightReject ==
  ASSUME TypeInv, FlightInv, NEW t \in Turns, Reject(t)
  PROVE  FlightInv'
<1> USE RegistryAssumption
    DEF TypeInv, TypeOK, FlightInv, Work, TaskLive, Reject, ReleaseClaim, callerVars
<1>1. OwnerWorks'
  BY DEF OwnerWorks, WorkOwns
<1>2. WorkOwns'
  BY DEF WorkOwns, OwnerWorks
<1>3. CancellerWaits'
  BY DEF CancellerWaits, Cancelling
<1>4. OneCanceller' /\ DrainerDrains'
  BY DEF OneCanceller, DrainerDrains, Cancelling
<1>5. OnlyTasksAreStopped'
  BY DEF OnlyTasksAreStopped
<1>6. NoEarlyTerminal'
  BY DEF NoEarlyTerminal
<1>7. TerminalTellsCause'
  BY DEF TerminalTellsCause
<1> QED BY <1>1, <1>2, <1>3, <1>4, <1>5, <1>6, <1>7

\* The task ends by itself: nobody waits for it, and the event it sends is not
\* done_cancelled.
LEMMA FlightDriveEnds ==
  ASSUME TypeInv, FlightInv, NEW t \in Turns, phase[t] \in TaskLive,
         NEW e \in Terminals \ {"done_cancelled"}, DriveEnds(t, e)
  PROVE  FlightInv'
<1> USE RegistryAssumption
    DEF TypeInv, TypeOK, FlightInv, Work, TaskLive, DriveEnds, Finalize, callerVars
<1>1. OwnerWorks'
  BY DEF OwnerWorks, WorkOwns
<1>2. WorkOwns'
  BY DEF WorkOwns, OwnerWorks
<1>3. CancellerWaits'
  BY DEF CancellerWaits, Cancelling
<1>4. OneCanceller' /\ DrainerDrains'
  BY DEF OneCanceller, DrainerDrains, Cancelling
<1>5. OnlyTasksAreStopped' /\ NoEarlyTerminal'
  BY DEF OnlyTasksAreStopped, NoEarlyTerminal
<1>6. TerminalTellsCause'
  BY DEF NoEarlyTerminal, TerminalTellsCause
<1> QED BY <1>1, <1>2, <1>3, <1>4, <1>5, <1>6

\* The cancelled task stops; its claim stays.
LEMMA FlightTaskCancelled ==
  ASSUME TypeInv, FlightInv, NEW t \in Turns, TaskCancelled(t)
  PROVE  FlightInv'
<1> USE DEF TypeInv, TypeOK, FlightInv, Work, TaskLive, TaskCancelled, callerVars
<1>1. OwnerWorks' /\ WorkOwns'
  BY DEF OwnerWorks, WorkOwns
<1>3. CancellerWaits'
  BY DEF CancellerWaits, Cancelling
<1>4. OneCanceller' /\ DrainerDrains'
  BY DEF OneCanceller, DrainerDrains, Cancelling
<1>5. OnlyTasksAreStopped' /\ NoEarlyTerminal' /\ TerminalTellsCause'
  BY DEF OnlyTasksAreStopped, NoEarlyTerminal, TerminalTellsCause
<1> QED BY <1>1, <1>3, <1>4, <1>5

\* cancel or the drain marks the active turn, which no one had marked, or goes
\* to look for a parked question.
LEMMA FlightCancelOrUnpark ==
  ASSUME TypeInv, FlightInv, NEW c \in Callers, NEW s \in Sessions,
         ~Cancelling(c), ckind'[c] \in {"cancel", "delete", "drain"},
         \A d \in Callers : d # c => ckind'[d] = ckind[d],
         CancelOrUnpark(c, s, IF ckind'[c] = "drain" THEN "shutdown" ELSE "user")
  PROVE  FlightInv'
<1> DEFINE cause == IF ckind'[c] = "drain" THEN "shutdown" ELSE "user"
<1>1. CASE ~Active(s)
  <2>1. UNCHANGED <<turns, phase, why, stream, ctgt>>
        /\ cpc' = [cpc EXCEPT ![c] = "unparkRead"]
    BY <1>1 DEF CancelOrUnpark, regVars
  <2> QED BY <2>1, FlightCaller DEF CallerStates
<1>2. CASE Active(s)
  <2> USE <1>2 DEF TypeInv, TypeOK, FlightInv, Cancelling
  <2>1. /\ UNCHANGED <<turns, phase, stream>>
        /\ why' = [why EXCEPT ![turns[s]] = cause]
        /\ ctgt' = [ctgt EXCEPT ![c] = turns[s]]
        /\ cpc' = [cpc EXCEPT ![c] = "join"]
    BY DEF CancelOrUnpark, regVars
  <2>2. turns[s] \in Turns /\ why[turns[s]] = "none" /\ phase[turns[s]] \in TaskLive
    BY DEF Active
  <2>3. OwnerWorks' /\ WorkOwns'
    BY <2>1 DEF OwnerWorks, WorkOwns
  <2>4. \A d \in Callers : Cancelling(d) => ctgt[d] # turns[s]
    BY <2>2 DEF CancellerWaits
  <2>5. CancellerWaits'
    BY <2>1, <2>2, <2>4 DEF CancellerWaits
  <2>6. OneCanceller' /\ DrainerDrains'
    BY <2>1, <2>4 DEF OneCanceller, DrainerDrains
  <2>7. OnlyTasksAreStopped' /\ NoEarlyTerminal' /\ TerminalTellsCause'
    BY <2>1, <2>2 DEF OnlyTasksAreStopped, NoEarlyTerminal, TerminalTellsCause, TaskLive
  <2> QED BY <2>3, <2>5, <2>6, <2>7
<1> QED BY <1>1, <1>2

\* The canceller has joined the task.
LEMMA FlightJoined ==
  ASSUME TypeInv, FlightInv, NEW c \in Callers, Joined(c)
  PROVE  FlightInv'
<1> USE DEF TypeInv, TypeOK, FlightInv, Joined, regVars, Cancelling
<1>1. OwnerWorks' /\ WorkOwns'
  BY DEF OwnerWorks, WorkOwns
<1>2. CancellerWaits'
  BY DEF CancellerWaits
<1>3. OneCanceller' /\ DrainerDrains'
  BY DEF OneCanceller, DrainerDrains
<1>4. OnlyTasksAreStopped' /\ NoEarlyTerminal' /\ TerminalTellsCause'
  BY DEF OnlyTasksAreStopped, NoEarlyTerminal, TerminalTellsCause
<1> QED BY <1>1, <1>2, <1>3, <1>4

\* The canceller appends the terminal event and gives the chat back.
LEMMA FlightCancelDone ==
  ASSUME TypeInv, FlightInv, NEW c \in Callers, CancelDone(c)
  PROVE  FlightInv'
<1> USE RegistryAssumption DEF TypeInv, TypeOK, FlightInv
<1> DEFINE t == ctgt[c]
           e == IF ckind[c] = "drain" THEN "error" ELSE "done_cancelled"
<1>1. /\ t \in Turns
      /\ phase[t] = "ended"
      /\ why[t] = IF ckind[c] = "drain" THEN "shutdown" ELSE "user"
      /\ stream[t] = <<>>
      /\ turns[SessionOf[t]] = t
  BY DEF CancelDone, CancellerWaits, Cancelling, NoEarlyTerminal, WorkOwns, Work
<1>2. /\ stream' = [stream EXCEPT ![t] = <<e>>]
      /\ phase' = [phase EXCEPT ![t] = "final"]
      /\ turns' = [turns EXCEPT ![SessionOf[t]] = NoTurn]
      /\ UNCHANGED why
  BY <1>1 DEF CancelDone, Finalize
<1>3. /\ ctgt' = [ctgt EXCEPT ![c] = NoTurn]
      /\ \A d \in Callers : d # c => cpc'[d] = cpc[d] /\ ckind'[d] = ckind[d]
      /\ cpc'[c] \notin {"join", "persist"}
      /\ cpc'[c] = "drain" => ckind'[c] = "drain"
  BY DEF CancelDone, Returned
<1>4. OwnerWorks'
  BY <1>1, <1>2 DEF OwnerWorks
<1>5. ASSUME NEW u \in Turns, phase'[u] \in Work
      PROVE  turns'[SessionOf[u]] = u
  <2>1. u # t /\ phase[u] \in Work
    BY <1>1, <1>2, <1>5 DEF Work, TaskLive
  <2>2. turns[SessionOf[u]] = u /\ SessionOf[u] # SessionOf[t]
    BY <1>1, <2>1 DEF WorkOwns
  <2> QED BY <1>2, <2>2
<1>6. \A d \in Callers : d # c /\ Cancelling(d) => ctgt[d] # t
  BY DEF OneCanceller, CancelDone, Cancelling
<1>7. CancellerWaits'
  BY <1>1, <1>2, <1>3, <1>6 DEF CancellerWaits, Cancelling
<1>8. OneCanceller' /\ DrainerDrains'
  <2>1. ASSUME NEW d \in Callers, Cancelling(d)'
        PROVE  d # c /\ Cancelling(d) /\ ctgt'[d] = ctgt[d]
    BY <1>3, <2>1 DEF Cancelling
  <2>2. OneCanceller'
    BY <2>1 DEF OneCanceller
  <2>3. DrainerDrains'
    BY <1>3 DEF DrainerDrains
  <2> QED BY <2>2, <2>3
<1>9. OnlyTasksAreStopped' /\ NoEarlyTerminal'
  BY <1>1, <1>2 DEF OnlyTasksAreStopped, NoEarlyTerminal
<1>10. TerminalTellsCause'
  BY <1>1, <1>2 DEF TerminalTellsCause
<1> QED BY <1>4, <1>5, <1>7, <1>8, <1>9, <1>10 DEF WorkOwns

(***************************************************************************)
(* What the same steps are for SingleFlight: which of its actions, or      *)
(* none.                                                                   *)
(***************************************************************************)
\* A step of SingleFlight, or none.
Simulates == [Promised!Next]_(Promised!vars)

\* A step that leaves the registry, the marks and the streams alone and takes
\* no turn into or out of its life is no step of SingleFlight.
LEMMA MapStutter ==
  ASSUME TypeInv, UNCHANGED <<turns, why, stream>>,
         \A t \in Turns : /\ (phase'[t] = "new") = (phase[t] = "new")
                          /\ (phase'[t] \in {"rejected", "final"})
                               = (phase[t] \in {"rejected", "final"})
  PROVE  Simulates
BY DEF Simulates, Promised!vars

\* A turn that is at work goes on.
LEMMA MapAdvance ==
  ASSUME TypeInv, NEW t \in Turns, NEW to \in Work, phase[t] \in Work,
         phase' = [phase EXCEPT ![t] = to],
         UNCHANGED <<turns, why, stream>>
  PROVE  Simulates
BY MapStutter DEF TypeInv, TypeOK, Work, TaskLive

\* Taking a chat, with or without a task yet, is Take.
LEMMA MapTake ==
  ASSUME TypeInv, NEW t \in Turns, NEW to \in {"prep", "spawned"},
         phase[t] = "new", turns[SessionOf[t]] = NoTurn,
         turns' = [turns EXCEPT ![SessionOf[t]] = t],
         phase' = [phase EXCEPT ![t] = to],
         UNCHANGED <<why, stream>>
  PROVE  Simulates
<1>1. Promised!Take(t)
  BY DEF TypeInv, TypeOK, Promised!Take
<1> QED BY <1>1 DEF Simulates, Promised!Next

\* A start that fails is Refuse.
LEMMA MapReject ==
  ASSUME TypeInv, FlightInv, NEW t \in Turns, Reject(t)
  PROVE  Simulates
<1>1. turns[SessionOf[t]] = t /\ why[t] = "none" /\ phase[t] \in {"prep", "rewrite"}
  BY DEF FlightInv, WorkOwns, OnlyTasksAreStopped, Work, TaskLive, Reject
<1>2. Promised!Refuse(t)
  BY <1>1 DEF TypeInv, TypeOK, Promised!Refuse, Promised!Over, Reject, ReleaseClaim
<1> QED BY <1>2 DEF Simulates, Promised!Next

\* What ends a turn that is at work is End.
LEMMA MapEnd ==
  ASSUME TypeInv, NEW t \in Turns, NEW e \in Terminals,
         phase[t] \notin {"new", "rejected", "final"},
         turns[SessionOf[t]] = t, stream[t] = <<>>,
         (e = "done_cancelled") <=> (why[t] = "user"),
         why[t] = "shutdown" => e = "error",
         Finalize(t, e), UNCHANGED why
  PROVE  Simulates
<1>0. Append(stream[t], e) = <<e>>
  OBVIOUS
<1>1. /\ stream' = [stream EXCEPT ![t] = <<e>>]
      /\ phase' = [phase EXCEPT ![t] = "final"]
      /\ turns' = [turns EXCEPT ![SessionOf[t]] = NoTurn]
  BY <1>0, RegistryAssumption DEF Finalize, TypeInv, TypeOK
<1>2. Promised!Over(t)
  BY <1>1 DEF Promised!Over, TypeInv, TypeOK
<1>3. Promised!End(t, e)
  BY <1>1, <1>2 DEF Promised!End
<1> QED BY <1>3 DEF Simulates, Promised!Next, Promised!Events, Terminals

\* A task that ends by itself is End.
LEMMA MapDriveEnds ==
  ASSUME TypeInv, FlightInv, NEW t \in Turns, phase[t] \in TaskLive,
         NEW e \in Terminals \ {"done_cancelled"}, DriveEnds(t, e)
  PROVE  Simulates
<1>1. turns[SessionOf[t]] = t /\ why[t] = "none" /\ stream[t] = <<>>
      /\ phase[t] \notin {"new", "rejected", "final"}
  BY DEF FlightInv, WorkOwns, NoEarlyTerminal, Work, TaskLive, DriveEnds
<1> QED BY <1>1, MapEnd DEF DriveEnds

\* Marking a turn is Stop; going to look for a parked question is nothing.
LEMMA MapCancelOrUnpark ==
  ASSUME TypeInv, NEW c \in Callers, NEW s \in Sessions,
         NEW cause \in {"user", "shutdown"}, CancelOrUnpark(c, s, cause)
  PROVE  Simulates
<1>1. CASE ~Active(s)
  BY <1>1, MapStutter DEF CancelOrUnpark, regVars
<1>2. CASE Active(s)
  <2>1. turns[s] \in Turns /\ why[turns[s]] = "none" /\ phase[turns[s]] \in TaskLive
    BY <1>2 DEF Active, TypeInv, TypeOK
  <2>2. /\ UNCHANGED <<turns, phase, stream>>
        /\ why' = [why EXCEPT ![turns[s]] = cause]
    BY <1>2 DEF CancelOrUnpark, regVars
  <2>3. Promised!Stop(turns[s], cause)
    BY <2>1, <2>2 DEF TypeInv, TypeOK, Promised!Stop, TaskLive
  <2> QED BY <2>1, <2>3 DEF Simulates, Promised!Next
<1> QED BY <1>1, <1>2

\* A canceller that ends its turn is End, with the event that tells the cause.
LEMMA MapCancelDone ==
  ASSUME TypeInv, FlightInv, NEW c \in Callers, CancelDone(c)
  PROVE  Simulates
<1> DEFINE t == ctgt[c]
           e == IF ckind[c] = "drain" THEN "error" ELSE "done_cancelled"
<1>1. /\ t \in Turns
      /\ phase[t] = "ended"
      /\ why[t] = IF ckind[c] = "drain" THEN "shutdown" ELSE "user"
      /\ stream[t] = <<>>
      /\ turns[SessionOf[t]] = t
  BY DEF CancelDone, FlightInv, CancellerWaits, Cancelling, NoEarlyTerminal, WorkOwns, Work
<1>2. Finalize(t, e) /\ UNCHANGED why
  BY DEF CancelDone
<1>3. e \in Terminals /\ ((e = "done_cancelled") <=> (why[t] = "user"))
      /\ (why[t] = "shutdown" => e = "error")
  BY <1>1 DEF Terminals
<1> HIDE DEF t, e
<1> QED BY <1>1, <1>2, <1>3, MapEnd

(***************************************************************************)
(* Every step.                                                             *)
(***************************************************************************)

\* A step of a start call, of a task or of its hook.
LEMMA TurnKeeps ==
  ASSUME TypeInv, FlightInv, NEW t \in Turns, TurnStep(t)
  PROVE  FlightInv' /\ Simulates
<1>1. CASE Reject(t)
  BY <1>1, FlightReject, MapReject
<1>2. CASE Spawn(t) \/ RewriteRead(t) \/ RewriteWrite(t)
  <2>1. PICK to \in {"rewrite", "spawned"} :
          /\ phase[t] \in {"prep", "rewrite"}
          /\ phase' = [phase EXCEPT ![t] = to]
          /\ UNCHANGED <<turns, why, stream, cpc, ctgt, ckind>>
    BY <1>2 DEF Spawn, RewriteRead, RewriteWrite, regVars, callerVars
  <2> QED BY <2>1, FlightAdvance, MapAdvance DEF Work, TaskLive
<1>3. CASE FirstStep(t) \/ Prefetch(t) \/ PrefetchFails(t) \/ EnsureSession(t)
           \/ EnterGraph(t) \/ RunFails(t) \/ ClearIntent(t)
           \/ (\E st \in {"complete", "awaiting_input"} : NodeCommits(t, st))
           \/ FailureRead(t) \/ FailureWrite(t) \/ FailureUnrecorded(t) \/ Expire(t)
  <2>1. PICK to \in TaskLive :
          /\ phase[t] \in TaskLive
          /\ phase' = [phase EXCEPT ![t] = to]
          /\ UNCHANGED <<turns, why, stream, cpc, ctgt, ckind>>
    BY <1>3 DEF FirstStep, Prefetch, PrefetchFails, EnsureSession, EnterGraph,
       RunFails, ClearIntent, NodeCommits, FailureRead, FailureWrite,
       FailureUnrecorded, Expire, Goto, TaskLive, regVars, callerVars
  <2> QED BY <2>1, FlightAdvance, MapAdvance DEF Work, TaskLive
<1>4. CASE ErrorWithoutRecord(t) \/ RunDone(t) \/ RunError(t) \/ ExpireDone(t)
  <2>1. PICK e \in Terminals \ {"done_cancelled"} :
          phase[t] \in TaskLive /\ DriveEnds(t, e)
    BY <1>4 DEF ErrorWithoutRecord, RunDone, RunError, ExpireDone, Terminals, TaskLive
  <2> QED BY <2>1, FlightDriveEnds, MapDriveEnds
<1>5. CASE TaskCancelled(t)
  <2>1. /\ phase[t] \in Work /\ phase' = [phase EXCEPT ![t] = "ended"]
        /\ UNCHANGED <<turns, why, stream>>
    BY <1>5 DEF TaskCancelled, Work
  <2> QED BY <1>5, <2>1, FlightTaskCancelled, MapAdvance DEF Work
<1>6. CASE PersistStep(t, t) \/ HookDone(t)
  <2>1. UNCHANGED flightVars
    BY <1>6 DEF PersistStep, PersistRead, PersistFails, PersistWrite, HookDone,
       flightVars, regVars, turnVars, callerVars
  <2> QED BY <2>1, FlightFrame, MapStutter DEF flightVars
<1> QED BY <1>1, <1>2, <1>3, <1>4, <1>5, <1>6
        DEF TurnStep, StartStep, RunStep, StopStep

\* A caller that cancels nothing and goes on to where it cancels nothing.
LEMMA CallerKeeps ==
  ASSUME TypeInv, FlightInv, NEW c \in Callers, NEW to \in CallerStates,
         ~Cancelling(c), to \notin {"join", "persist"},
         cpc' = [cpc EXCEPT ![c] = to],
         \A d \in Callers : d # c => ctgt'[d] = ctgt[d] /\ ckind'[d] = ckind[d],
         to = "drain" => ckind'[c] = "drain",
         UNCHANGED <<turns, phase, why, stream>>
  PROVE  FlightInv' /\ Simulates
BY FlightCaller, MapStutter

\* A step of a request that is under way.
LEMMA CallerStepKeeps ==
  ASSUME TypeInv, FlightInv, NEW c \in Callers, CallerStep(c)
  PROVE  FlightInv' /\ Simulates
<1> USE DEF Cancelling, regVars, turnVars, callerVars
<1>1. CASE Joined(c)
  <2>1. UNCHANGED <<turns, phase, why, stream>>
    BY <1>1 DEF Joined
  <2> QED BY <1>1, <2>1, FlightJoined, MapStutter
<1>2. CASE CancelDone(c)
  BY <1>2, FlightCancelDone, MapCancelDone
<1>3. CASE \E t \in Turns : PersistStep(c, t)
  <2>1. UNCHANGED flightVars
    BY <1>3 DEF PersistStep, PersistRead, PersistFails, PersistWrite, flightVars
  <2> QED BY <2>1, FlightFrame, MapStutter DEF flightVars
<1>4. CASE UnparkRead(c) \/ DropThread(c) \/ AcceptRead(c) \/ AcceptWrite(c)
  <2>1. PICK to \in {"unparkWrite", "dropRow", "acceptWrite", "acceptResume"} :
          /\ ~Cancelling(c)
          /\ cpc' = [cpc EXCEPT ![c] = to]
          /\ UNCHANGED <<turns, phase, why, stream, ctgt, ckind>>
    BY <1>4 DEF UnparkRead, DropThread, AcceptRead, AcceptWrite
  <2> QED BY <2>1, CallerKeeps DEF CallerStates
<1>5. CASE UnparkWrite(c) \/ UnparkIdle(c)
  <2>1. /\ ~Cancelling(c)
        /\ Returned(c)
        /\ UNCHANGED <<turns, phase, why, stream>>
    BY <1>5 DEF UnparkWrite, UnparkIdle
  <2>2. PICK to \in {"drop", "drain", "idle"} :
          /\ cpc' = [cpc EXCEPT ![c] = to]
          /\ to = "drain" => ckind'[c] = "drain"
          /\ \A d \in Callers : d # c => ctgt'[d] = ctgt[d] /\ ckind'[d] = ckind[d]
    BY <2>1 DEF Returned, TypeInv, TypeOK
  <2> QED BY <2>1, <2>2, CallerKeeps DEF CallerStates
<1>6. CASE DropFails(c) \/ DropRow(c) \/ AcceptFails(c) \/ ContinueFails(c) \/ DrainDone(c)
  <2>1. /\ ~Cancelling(c)
        /\ Idle(c)
        /\ UNCHANGED <<turns, phase, why, stream>>
    BY <1>6 DEF DropFails, DropRow, AcceptFails, ContinueFails, DrainDone, ReleaseAccept
  <2>2. /\ cpc' = [cpc EXCEPT ![c] = "idle"]
        /\ \A d \in Callers : d # c => ctgt'[d] = ctgt[d] /\ ckind'[d] = ckind[d]
    BY <2>1 DEF Idle, TypeInv, TypeOK
  <2> QED BY <2>1, <2>2, CallerKeeps DEF CallerStates
<1>7. CASE \E t \in Turns : Continue(c, t)
  <2>1. PICK t \in Turns : Continue(c, t)
    BY <1>7
  <2>2. /\ phase[t] = "new" /\ turns[SessionOf[t]] = NoTurn
        /\ turns' = [turns EXCEPT ![SessionOf[t]] = t]
        /\ phase' = [phase EXCEPT ![t] = "spawned"]
        /\ UNCHANGED <<why, stream>>
    BY <2>1 DEF Continue, SlotFree
  <2>3. /\ cpc' = [cpc EXCEPT ![c] = "idle"]
        /\ \A d \in Callers : d # c => ctgt'[d] = ctgt[d] /\ ckind'[d] = ckind[d]
    BY <2>1 DEF Continue, ReleaseAccept, Idle, TypeInv, TypeOK
  <2>4. \A d \in Callers : Cancelling(d)' =>
          Cancelling(d) /\ cpc'[d] = cpc[d] /\ ctgt'[d] = ctgt[d] /\ ckind'[d] = ckind[d]
    BY <2>3 DEF TypeInv, TypeOK
  <2>5. \A d \in Callers : cpc'[d] = "drain" => ckind'[d] = "drain"
    BY <2>3 DEF FlightInv, DrainerDrains, TypeInv, TypeOK
  <2> HIDE DEF Cancelling
  <2> QED BY <2>2, <2>4, <2>5, FlightTake, MapTake
<1>8. CASE \E s \in Sessions : DrainNext(c, s)
  <2>1. PICK s \in Sessions : DrainNext(c, s)
    BY <1>8
  <2>2. /\ ~Cancelling(c)
        /\ ckind'[c] = "drain"
        /\ UNCHANGED ckind
        /\ CancelOrUnpark(c, s, "shutdown")
    BY <2>1 DEF DrainNext, FlightInv, DrainerDrains
  <2> HIDE DEF Cancelling
  <2>3. FlightInv'
    BY <2>2, FlightCancelOrUnpark
  <2> QED BY <2>2, <2>3, MapCancelOrUnpark
<1> QED BY <1>1, <1>2, <1>3, <1>4, <1>5, <1>6, <1>7, <1>8 DEF CallerStep

\* A request that arrives.
LEMMA RequestKeeps ==
  ASSUME TypeInv, FlightInv, Request
  PROVE  FlightInv' /\ Simulates
<1>1. CASE \E t \in Turns, goal \in BOOLEAN : Claim(t, goal)
  <2>1. PICK t \in Turns, goal \in BOOLEAN : Claim(t, goal)
    BY <1>1
  <2>2. /\ phase[t] = "new" /\ turns[SessionOf[t]] = NoTurn
        /\ turns' = [turns EXCEPT ![SessionOf[t]] = t]
        /\ phase' = [phase EXCEPT ![t] = "prep"]
        /\ UNCHANGED <<why, stream, cpc, ctgt, ckind>>
    BY <2>1 DEF Claim, SlotFree, callerVars
  <2>3. /\ \A d \in Callers : Cancelling(d)' =>
             Cancelling(d) /\ cpc'[d] = cpc[d] /\ ctgt'[d] = ctgt[d] /\ ckind'[d] = ckind[d]
        /\ \A d \in Callers : cpc'[d] = "drain" => ckind'[d] = "drain"
    BY <2>2 DEF FlightInv, DrainerDrains, Cancelling
  <2> QED BY <2>2, <2>3, FlightTake, MapTake
<1>2. CASE \E c \in Callers, s \in Sessions : AcceptCall(c, s)
  <2>1. PICK c \in Callers, s \in Sessions : AcceptCall(c, s)
    BY <1>2
  <2>2. /\ cpc[c] = "idle"
        /\ cpc' = [cpc EXCEPT ![c] = "acceptRead"]
        /\ \A d \in Callers : d # c => ctgt'[d] = ctgt[d] /\ ckind'[d] = ckind[d]
        /\ UNCHANGED <<turns, phase, why, stream>>
    BY <2>1 DEF AcceptCall, regVars, turnVars, TypeInv, TypeOK
  <2> QED BY <2>2, CallerKeeps DEF CallerStates, Cancelling
<1>3. CASE \E c \in Callers, s \in Sessions, kind \in {"cancel", "delete"} :
             CancelCall(c, s, kind)
  <2>1. PICK c \in Callers, s \in Sessions, kind \in {"cancel", "delete"} :
          CancelCall(c, s, kind)
    BY <1>3
  <2>2. /\ ~Cancelling(c)
        /\ ckind'[c] \in {"cancel", "delete"}
        /\ \A d \in Callers : d # c => ckind'[d] = ckind[d]
        /\ CancelOrUnpark(c, s, "user")
    BY <2>1 DEF CancelCall, Cancelling, TypeInv, TypeOK
  <2>3. FlightInv'
    BY <2>2, FlightCancelOrUnpark
  <2> QED BY <2>2, <2>3, MapCancelOrUnpark
<1>4. CASE \E c \in Callers : DrainBegin(c)
  <2>1. PICK c \in Callers : DrainBegin(c)
    BY <1>4
  <2>2. /\ cpc[c] = "idle"
        /\ cpc' = [cpc EXCEPT ![c] = "drain"]
        /\ ckind'[c] = "drain"
        /\ \A d \in Callers : d # c => ctgt'[d] = ctgt[d] /\ ckind'[d] = ckind[d]
        /\ UNCHANGED <<turns, phase, why, stream>>
    BY <2>1 DEF DrainBegin, regVars, turnVars, TypeInv, TypeOK
  <2> QED BY <2>2, CallerKeeps DEF CallerStates, Cancelling
<1> QED BY <1>1, <1>2, <1>3, <1>4 DEF Request

\* Every step keeps the invariant and is a step of SingleFlight or none.
LEMMA FlightStep ==
  ASSUME TypeInv, FlightInv, [Next]_vars
  PROVE  FlightInv' /\ Simulates
<1>1. CASE UNCHANGED vars
  <2>1. UNCHANGED flightVars
    BY <1>1 DEF vars, regVars, turnVars, callerVars, flightVars
  <2> QED BY <2>1, FlightFrame, MapStutter DEF flightVars
<1> QED BY <1>1, RequestKeeps, TurnKeeps, CallerStepKeeps DEF Next

\* Nothing has been claimed, marked or sent when the process starts.
LEMMA FlightInit ==
  ASSUME Init
  PROVE  FlightInv /\ Promised!Init
<1>1. FlightInv
  BY RegistryAssumption DEF Init, FlightInv, OwnerWorks, WorkOwns, CancellerWaits,
     OneCanceller, DrainerDrains, OnlyTasksAreStopped, NoEarlyTerminal,
     TerminalTellsCause, Work, TaskLive, Cancelling
<1>2. Promised!Init
  BY DEF Init, Promised!Init
<1> QED BY <1>1, <1>2

\* The invariant the three theorems rest on.
THEOREM Flight == Spec => [](TypeInv /\ FlightInv)
<1>1. TypeInv /\ FlightInv /\ [Next]_vars => (TypeInv /\ FlightInv)'
  BY TypeStep, FlightStep
<1>2. Init => TypeInv /\ FlightInv
  BY TypeInit, FlightInit
<1> QED BY <1>1, <1>2, PTL DEF Spec

\* Single flight, for every number of chats, requests and turns: whoever works
\* on a turn's behalf, the start call, the task, the watchdog or a canceller in
\* another request, holds the chat's claim for it (start, _drive, _finalize,
\* _cancel_active, _drain_active_with_error).
THEOREM SingleFlightHolds == Spec => []ClaimCoversWork
<1>1. TypeInv /\ FlightInv => ClaimCoversWork
  BY DEF TypeInv, TypeOK, FlightInv, WorkOwns, CancellerWaits, Cancelling, Work,
     ClaimCoversWork, AtWork
<1> QED BY <1>1, Flight, PTL

\* The terminal event tells the cause: a stop by the student, the shutdown or
\* the turn's own end are never taken for one another, whatever raced (_drive's
\* finally, _cancel_active, _drain_active_with_error, _handle_timeout).
THEOREM TerminalIsHonest == Spec => []TerminalTellsCause
<1>1. FlightInv => TerminalTellsCause
  BY DEF FlightInv
<1> QED BY <1>1, Flight, PTL

\* The registry implements SingleFlight: every step it takes is a Take, Refuse,
\* Stop or End of a turn, or invisible to its callers.
THEOREM Implements == Spec => KeepsPromise
<1>1. Init => Promised!Init
  BY FlightInit
<1>2. TypeInv /\ FlightInv /\ [Next]_vars => [Promised!Next]_(Promised!vars)
  BY FlightStep DEF Simulates
<1> QED BY <1>1, <1>2, Flight, PTL DEF Spec, KeepsPromise, Promised!Spec

(***************************************************************************)
(* The ceilings on turns and on goal runs: every step either takes a slot  *)
(* that start's checks found free, or only gives slots back.               *)
(***************************************************************************)
\* The chats in which a goal run is active.
GoalTurns == {s \in ActiveTurns : isGoal[turns[s]]}

\* A step that takes no slot: every chat keeps its turn or lets go of it.
GivesBack ==
  isGoal' = isGoal /\ \A s \in Sessions : turns'[s] \in {turns[s], NoTurn}

\* A step that takes one, for a turn nobody knows.
TakesSlot(t, goal) ==
  /\ phase[t] = "new"
  /\ SlotFree(SessionOf[t], goal)
  /\ turns' = [turns EXCEPT ![SessionOf[t]] = t]
  /\ isGoal' = [isGoal EXCEPT ![t] = goal]

\* A turn's own steps take no slot (TurnStep).
LEMMA TurnGivesBack ==
  ASSUME TypeInv, NEW t \in Turns, TurnStep(t)
  PROVE  GivesBack
<1> USE DEF regVars
<1>1. CASE StartStep(t)
  BY <1>1 DEF StartStep, Reject, ReleaseClaim, Spawn, RewriteRead, RewriteWrite,
     GivesBack, TypeInv, TypeOK
<1>2. CASE ErrorWithoutRecord(t) \/ RunDone(t) \/ RunError(t) \/ ExpireDone(t)
  <2>1. \E e \in Terminals : Finalize(t, e) /\ isGoal' = isGoal
    BY <1>2 DEF ErrorWithoutRecord, RunDone, RunError, ExpireDone, DriveEnds, Terminals
  <2> QED
    BY <2>1 DEF Finalize, GivesBack, TypeInv, TypeOK
<1>3. CASE FirstStep(t) \/ Prefetch(t) \/ PrefetchFails(t) \/ EnsureSession(t)
           \/ EnterGraph(t) \/ RunFails(t) \/ ClearIntent(t)
           \/ (\E st \in {"complete", "awaiting_input"} : NodeCommits(t, st))
           \/ FailureRead(t) \/ FailureWrite(t) \/ FailureUnrecorded(t) \/ Expire(t)
  <2>1. UNCHANGED <<turns, isGoal>>
    BY <1>3 DEF FirstStep, Prefetch, PrefetchFails, EnsureSession, EnterGraph,
       RunFails, ClearIntent, NodeCommits, FailureRead, FailureWrite,
       FailureUnrecorded, Expire, Goto
  <2> QED
    BY <2>1 DEF GivesBack
<1>4. CASE TaskCancelled(t) \/ PersistStep(t, t) \/ HookDone(t)
  <2>1. UNCHANGED <<turns, isGoal>>
    BY <1>4 DEF TaskCancelled, PersistStep, PersistRead, PersistFails, PersistWrite,
       HookDone, turnVars
  <2> QED
    BY <2>1 DEF GivesBack
<1> QED
  BY <1>1, <1>2, <1>3, <1>4 DEF TurnStep, RunStep, StopStep

\* A request under way takes at most one slot, as start_continuation does
\* (CallerStep).
LEMMA CallerTakesOne ==
  ASSUME TypeInv, NEW c \in Callers, CallerStep(c)
  PROVE  GivesBack \/ \E t \in Turns : \E goal : TakesSlot(t, goal)
<1> USE DEF regVars, turnVars
<1>1. CASE CancelDone(c)
  BY <1>1 DEF CancelDone, Finalize, GivesBack, TypeInv, TypeOK
<1>2. CASE \E t \in Turns : Continue(c, t)
  <2>1. PICK t \in Turns : Continue(c, t)
    BY <1>2
  <2>2. TakesSlot(t, Latest(csnap[c]).goal)
    BY <2>1 DEF Continue, TakesSlot
  <2> QED
    BY <2>2
<1>3. CASE Joined(c) \/ (\E t \in Turns : PersistStep(c, t))
           \/ UnparkRead(c) \/ UnparkWrite(c) \/ UnparkIdle(c)
           \/ DropThread(c) \/ DropFails(c) \/ DropRow(c)
           \/ AcceptRead(c) \/ AcceptWrite(c) \/ AcceptFails(c) \/ ContinueFails(c)
           \/ (\E s \in Sessions : DrainNext(c, s)) \/ DrainDone(c)
  <2>1. UNCHANGED <<turns, isGoal>>
    BY <1>3 DEF Joined, PersistStep, PersistRead, PersistFails, PersistWrite,
       UnparkRead, UnparkWrite, UnparkIdle, DropThread, DropFails, DropRow,
       AcceptRead, AcceptWrite, AcceptFails, ContinueFails, DrainNext,
       CancelOrUnpark, DrainDone
  <2> QED
    BY <2>1 DEF GivesBack
<1> QED
  BY <1>1, <1>2, <1>3 DEF CallerStep

\* So does a request that arrives, as start does (Request).
LEMMA RequestTakesOne ==
  ASSUME Request
  PROVE  GivesBack \/ \E t \in Turns : \E goal : TakesSlot(t, goal)
<1>1. CASE \E t \in Turns, goal \in BOOLEAN : Claim(t, goal)
  BY <1>1 DEF Claim, TakesSlot
<1>2. CASE ~\E t \in Turns, goal \in BOOLEAN : Claim(t, goal)
  <2>1. UNCHANGED <<turns, isGoal>>
    BY <1>2 DEF Request, AcceptCall, CancelCall, CancelOrUnpark, DrainBegin, regVars,
       turnVars
  <2> QED
    BY <2>1 DEF GivesBack
<1> QED
  BY <1>1, <1>2

\* The number of active chats is a number (ActiveTurns).
LEMMA ActiveFinite ==
  /\ IsFiniteSet(ActiveTurns) /\ Cardinality(ActiveTurns) \in Nat
  /\ IsFiniteSet(GoalTurns) /\ Cardinality(GoalTurns) \in Nat
<1>1. ActiveTurns \in SUBSET Sessions /\ GoalTurns \in SUBSET Sessions
  BY DEF ActiveTurns, GoalTurns
<1> QED
  BY <1>1, FS_Subset, FS_CardinalityType, RegistryAssumption

\* Letting go of slots breaks no ceiling (_finalize).
LEMMA GivingBackKeeps ==
  ASSUME Ceilings, GivesBack
  PROVE  Ceilings'
<1>1. ActiveTurns' \in SUBSET ActiveTurns /\ GoalTurns' \in SUBSET GoalTurns
  BY DEF ActiveTurns, GoalTurns, GivesBack
<1>2. /\ Cardinality(ActiveTurns') <= Cardinality(ActiveTurns)
      /\ Cardinality(GoalTurns') <= Cardinality(GoalTurns)
      /\ Cardinality(ActiveTurns') \in Nat /\ Cardinality(GoalTurns') \in Nat
  BY <1>1, ActiveFinite, FS_Subset, FS_CardinalityType
<1> QED
  BY <1>2, ActiveFinite, RegistryAssumption DEF Ceilings, GoalTurns

\* Neither does taking one that was free: the turn is new, so no active chat
\* changes its kind with it (start, start_continuation, _require_goal_slot).
LEMMA TakingKeeps ==
  ASSUME TypeInv, FlightInv, Ceilings, NEW t \in Turns, NEW goal, TakesSlot(t, goal)
  PROVE  Ceilings'
<1> DEFINE s == SessionOf[t]
<1>1. /\ s \in Sessions /\ t # NoTurn
      /\ turns \in [Sessions -> Turns \cup {NoTurn}] /\ isGoal \in [Turns -> BOOLEAN]
  BY RegistryAssumption DEF TypeInv, TypeOK, MessageIds
<1>2. \A x \in ActiveTurns : turns[x] # t
  BY DEF ActiveTurns, FlightInv, OwnerWorks, TakesSlot, Work, TaskLive
<1>3. /\ turns' = [turns EXCEPT ![s] = t] /\ isGoal' = [isGoal EXCEPT ![t] = goal]
      /\ Cardinality(ActiveTurns) < MaxTurns
      /\ goal => Cardinality(GoalTurns) < MaxGoalTurns
  BY DEF TakesSlot, SlotFree, GoalTurns
<1>4. /\ Cardinality(ActiveTurns) \in Nat /\ Cardinality(GoalTurns) \in Nat
      /\ Cardinality(GoalTurns) <= MaxGoalTurns
      /\ MaxTurns \in Nat /\ MaxGoalTurns \in Nat
  BY ActiveFinite, RegistryAssumption DEF Ceilings, GoalTurns
<1> HIDE DEF s
<1>5. ActiveTurns' = ActiveTurns \cup {s}
  BY <1>1, <1>3 DEF ActiveTurns
<1>6. Cardinality(ActiveTurns') <= MaxTurns
  <2>1. Cardinality(ActiveTurns \cup {s}) \in {Cardinality(ActiveTurns), Cardinality(ActiveTurns) + 1}
    BY ActiveFinite, FS_AddElement, Zenon
  <2> QED
    BY <1>3, <1>4, <1>5, <2>1
<1>7. Cardinality(GoalTurns') <= MaxGoalTurns
  <2>1. GoalTurns' \in SUBSET (GoalTurns \cup {s})
    BY <1>1, <1>2, <1>3, <1>5 DEF GoalTurns, ActiveTurns
  <2>2. CASE goal
    <3>1. /\ IsFiniteSet(GoalTurns \cup {s})
          /\ Cardinality(GoalTurns \cup {s}) <= Cardinality(GoalTurns) + 1
          /\ Cardinality(GoalTurns \cup {s}) \in Nat
      <4>1. /\ IsFiniteSet(GoalTurns \cup {s})
            /\ Cardinality(GoalTurns \cup {s}) \in
                 {Cardinality(GoalTurns), Cardinality(GoalTurns) + 1}
        BY ActiveFinite, FS_AddElement, Zenon
      <4> QED
        BY <1>4, <4>1
    <3>2. /\ Cardinality(GoalTurns') <= Cardinality(GoalTurns \cup {s})
          /\ Cardinality(GoalTurns') \in Nat
      BY <2>1, <3>1, FS_Subset, FS_CardinalityType
    <3> QED
      BY <1>3, <1>4, <2>2, <3>1, <3>2
  <2>3. CASE ~goal
    <3>1. GoalTurns' \in SUBSET GoalTurns
      BY <1>1, <1>3, <2>1, <2>3 DEF GoalTurns
    <3>2. /\ Cardinality(GoalTurns') <= Cardinality(GoalTurns)
          /\ Cardinality(GoalTurns') \in Nat
      BY <3>1, ActiveFinite, FS_Subset, FS_CardinalityType
    <3> QED
      BY <1>4, <3>2
  <2> QED
    BY <2>2, <2>3
<1> QED
  BY <1>6, <1>7 DEF Ceilings, GoalTurns

\* However many chats, requests and continuations there are, the process never
\* runs more turns, or more goal runs, than its settings allow (start,
\* start_continuation, _require_goal_slot, _finalize).
THEOREM CeilingsHold == Spec => []Ceilings
<1>1. Init => Ceilings
  <2> SUFFICES ASSUME Init PROVE Ceilings
    OBVIOUS
  <2>1. ActiveTurns = {} /\ {s \in ActiveTurns : isGoal[turns[s]]} = {}
    BY DEF Init, ActiveTurns
  <2> QED
    BY <2>1, FS_EmptySet, RegistryAssumption DEF Ceilings
<1>2. TypeInv /\ FlightInv /\ Ceilings /\ [Next]_vars => Ceilings'
  <2> SUFFICES ASSUME TypeInv, FlightInv, Ceilings, [Next]_vars PROVE Ceilings'
    OBVIOUS
  <2>1. CASE UNCHANGED vars
    <3>1. UNCHANGED <<turns, isGoal>>
      BY <2>1 DEF vars, regVars, turnVars
    <3> QED
      BY <3>1, GivingBackKeeps DEF GivesBack
  <2>2. CASE Next
    <3>1. GivesBack \/ \E t \in Turns : \E goal : TakesSlot(t, goal)
      BY <2>2, TurnGivesBack, CallerTakesOne, RequestTakesOne DEF Next
    <3> QED
      BY <3>1, GivingBackKeeps, TakingKeeps
  <2> QED
    BY <2>1, <2>2
<1> QED
  BY <1>1, <1>2, Flight, PTL DEF Spec

(***************************************************************************)
(* The shutdown.  What is left when the pools close follows from who looks *)
(* after each turn: one that was marked, or has stopped, has a canceller;  *)
(* once aclose runs, every chat that is still held is in its queue or is   *)
(* the one it is ending, and nobody but aclose is under way.               *)
(***************************************************************************)
\* Somebody has asked t to stop and it has not been finalized.
Marked(t) == phase[t] = "ended" \/ (phase[t] \in TaskLive /\ why[t] # "none")

\* A canceller is at work on t.
Attended(t) == \E c \in Callers : Cancelling(c) /\ ctgt[c] = t

\* A turn that was marked is not left alone.
MarkedIsAttended == \A t \in Turns : Marked(t) => Attended(t)

\* Where aclose can stand.
DrainStates == {"drain", "join", "persist", "unparkRead", "unparkWrite"}

\* Once aclose runs no start call is under way and it is the only caller.
OnlyDrainer ==
  stopping # "no" =>
    /\ \A t \in Turns : phase[t] \notin {"prep", "rewrite"}
    /\ \A c \in Callers : cpc[c] # "idle" =>
         stopping = "drain" /\ cpc[c] \in DrainStates /\ ckind[c] = "drain"
    /\ \A c, d \in Callers : cpc[c] # "idle" /\ cpc[d] # "idle" => c = d

\* Every chat that is still held is in its queue, or is being ended.
HeldIsQueued ==
  stopping # "no" =>
    \A s \in Sessions : turns[s] # NoTurn => s \in drainQueue \/ Attended(turns[s])

\* There is an aclose only while the process stops.
DrainerStops ==
  \A c \in Callers : ckind[c] = "drain" => stopping = "drain" /\ cpc[c] # "idle"

\* It closes the pools with nothing left to do.
ClosedIsEmpty == stopping = "closed" => drainQueue = {} /\ hooks = {}

DrainInv ==
  /\ MarkedIsAttended
  /\ OnlyDrainer
  /\ HeldIsQueued
  /\ DrainerStops
  /\ ClosedIsEmpty

\* All of it together (aclose, _terminate_for_shutdown): once the pools are
\* closed, no chat is held.
LEMMA NothingLeft ==
  ASSUME TypeInv, FlightInv, DrainInv
  PROVE  NothingOutlivesDrain
<1> SUFFICES ASSUME stopping = "closed"
             PROVE  hooks = {} /\ (\A t \in Turns : ~AtWork(t))
                    /\ (\A c \in Callers : cpc[c] = "idle")
  BY DEF NothingOutlivesDrain
<1>1. \A c \in Callers : cpc[c] = "idle"
  BY DEF DrainInv, OnlyDrainer
<1>2. hooks = {} /\ drainQueue = {}
  BY DEF DrainInv, ClosedIsEmpty
<1>3. \A s \in Sessions : turns[s] = NoTurn
  BY <1>1, <1>2 DEF DrainInv, HeldIsQueued, Attended, Cancelling
<1>4. ASSUME NEW t \in Turns PROVE ~AtWork(t)
  <2>1. phase[t] \notin Work
    BY <1>3, RegistryAssumption DEF FlightInv, WorkOwns, MessageIds, TypeInv, TypeOK
  <2> QED
    BY <1>1, <2>1 DEF AtWork, Work
<1> QED
  BY <1>1, <1>2, <1>4

\* A start call or a task goes on to its next phase.
LEMMA DrainAdvance ==
  ASSUME TypeInv, FlightInv, DrainInv, NEW t \in Turns,
         NEW to \in TaskLive \cup {"rewrite"},
         phase[t] \in Work \ {"ended"},
         to = "rewrite" => phase[t] = "prep",
         phase' = [phase EXCEPT ![t] = to],
         UNCHANGED <<turns, why, cpc, ctgt, ckind, stopping, drainQueue, hooks>>
  PROVE  DrainInv'
<1> USE DEF TypeInv, TypeOK, FlightInv, DrainInv
<1>0. \A u \in Turns : Attended(u)' = Attended(u)
  BY DEF Attended, Cancelling
<1>1. MarkedIsAttended'
  BY <1>0 DEF MarkedIsAttended, Marked, OnlyTasksAreStopped, Work, TaskLive
<1>2. OnlyDrainer'
  BY DEF OnlyDrainer, Work, TaskLive
<1>3. HeldIsQueued'
  BY <1>0 DEF HeldIsQueued
<1>4. ClosedIsEmpty' /\ DrainerStops'
  BY DEF ClosedIsEmpty, DrainerStops
<1> QED
  BY <1>1, <1>2, <1>3, <1>4
\* A caller other than aclose moves, to where it cancels nothing, or nobody
\* moves.
LEMMA DrainCaller ==
  ASSUME TypeInv, FlightInv, DrainInv, NEW c \in Callers, NEW to \in CallerStates,
         ~Cancelling(c), to \notin {"join", "persist"},
         cpc[c] = "idle" => stopping = "no",
         stopping # "no" => to \in DrainStates /\ ckind'[c] = ckind[c],
         ckind'[c] = "drain" => ckind[c] = "drain" /\ to # "idle",
         cpc' = [cpc EXCEPT ![c] = to],
         \A d \in Callers : d # c => ctgt'[d] = ctgt[d] /\ ckind'[d] = ckind[d],
         UNCHANGED <<turns, phase, why, stopping, drainQueue, hooks>>
  PROVE  DrainInv'
<1> USE DEF TypeInv, TypeOK, FlightInv, DrainInv
<1>0. \A u \in Turns : Attended(u)' = Attended(u)
  BY DEF Attended, Cancelling
<1>1. MarkedIsAttended'
  BY <1>0 DEF MarkedIsAttended, Marked
<1>2. OnlyDrainer'
  BY DEF OnlyDrainer
<1>3. HeldIsQueued'
  BY <1>0 DEF HeldIsQueued
<1>4. ClosedIsEmpty' /\ DrainerStops'
  BY DEF ClosedIsEmpty, DrainerStops
<1> QED
  BY <1>1, <1>2, <1>3, <1>4

\* Before aclose, taking a chat leaves nobody alone.
LEMMA DrainTake ==
  ASSUME TypeInv, FlightInv, DrainInv, stopping = "no",
         NEW t \in Turns, NEW to \in {"prep", "spawned"}, phase[t] = "new",
         phase' = [phase EXCEPT ![t] = to],
         UNCHANGED <<why, stopping>>,
         \A d \in Callers : Cancelling(d) => Cancelling(d)' /\ ctgt'[d] = ctgt[d],
         \A d \in Callers : ckind'[d] = "drain" => ckind[d] = "drain"
  PROVE  DrainInv'
<1> USE DEF TypeInv, TypeOK, FlightInv, DrainInv
<1>0. \A u \in Turns : Attended(u) => Attended(u)'
  BY DEF Attended
<1>1. MarkedIsAttended'
  BY <1>0 DEF MarkedIsAttended, Marked, OnlyTasksAreStopped, TaskLive
<1> QED
  BY <1>1 DEF OnlyDrainer, HeldIsQueued, ClosedIsEmpty, DrainerStops

\* start fails and pops its claim, which aclose has waited for.
LEMMA DrainReject ==
  ASSUME TypeInv, FlightInv, DrainInv, NEW t \in Turns, Reject(t)
  PROVE  DrainInv'
<1> USE DEF TypeInv, TypeOK, FlightInv, DrainInv, Reject, ReleaseClaim, callerVars,
        drainVars
<1>1. stopping = "no" /\ stopping' = "no"
  BY DEF OnlyDrainer
<1>2. MarkedIsAttended'
  BY DEF MarkedIsAttended, Marked, Attended, Cancelling, TaskLive
<1> QED
  BY <1>1, <1>2 DEF OnlyDrainer, HeldIsQueued, ClosedIsEmpty, DrainerStops

\* A turn that nobody waits for ends: its hook is scheduled, and the pools are
\* not closed, since it held its chat.
LEMMA DrainDriveEnds ==
  ASSUME TypeInv, FlightInv, DrainInv, NEW t \in Turns, phase[t] \in TaskLive,
         NEW e, DriveEnds(t, e)
  PROVE  DrainInv'
<1> USE DEF TypeInv, TypeOK, FlightInv, DrainInv, DriveEnds, Finalize, callerVars,
        drainVars
<1>0. \A u \in Turns : Attended(u)' = Attended(u)
  BY DEF Attended, Cancelling
<1>1. MarkedIsAttended'
  BY <1>0 DEF MarkedIsAttended, Marked, TaskLive
<1>2. OnlyDrainer'
  BY DEF OnlyDrainer
<1>3. HeldIsQueued'
  BY <1>0 DEF HeldIsQueued
<1>4. ClosedIsEmpty' /\ DrainerStops'
  <2>1. AtWork(t)
    BY DEF AtWork
  <2>2. stopping # "closed"
    BY <2>1, NothingLeft DEF NothingOutlivesDrain
  <2> QED
    BY <2>2 DEF ClosedIsEmpty, DrainerStops
<1> QED
  BY <1>1, <1>2, <1>3, <1>4

\* The cancelled task stops; its canceller is there.
LEMMA DrainTaskCancelled ==
  ASSUME TypeInv, FlightInv, DrainInv, NEW t \in Turns, TaskCancelled(t)
  PROVE  DrainInv'
<1> USE DEF TypeInv, TypeOK, FlightInv, DrainInv, TaskCancelled, callerVars, drainVars
<1>0. \A u \in Turns : Attended(u)' = Attended(u)
  BY DEF Attended, Cancelling
<1>1. MarkedIsAttended'
  BY <1>0 DEF MarkedIsAttended, Marked
<1>2. OnlyDrainer'
  BY DEF OnlyDrainer
<1>3. HeldIsQueued' /\ ClosedIsEmpty' /\ DrainerStops'
  BY <1>0 DEF HeldIsQueued, ClosedIsEmpty, DrainerStops
<1> QED
  BY <1>1, <1>2, <1>3

\* Hooks end, and nothing else changes for the shutdown.
LEMMA DrainFrame ==
  ASSUME TypeInv, DrainInv, hooks' \subseteq hooks,
         UNCHANGED <<turns, phase, why, cpc, ctgt, ckind, stopping, drainQueue>>
  PROVE  DrainInv'
<1> USE DEF TypeInv, TypeOK, DrainInv
<1>0. \A u \in Turns : Attended(u)' = Attended(u)
  BY DEF Attended, Cancelling
<1> QED
  BY <1>0 DEF MarkedIsAttended, Marked, OnlyDrainer, HeldIsQueued, ClosedIsEmpty, DrainerStops

\* The canceller has joined the task.
LEMMA DrainJoined ==
  ASSUME TypeInv, FlightInv, DrainInv, NEW c \in Callers, Joined(c)
  PROVE  DrainInv'
<1> USE DEF TypeInv, TypeOK, FlightInv, DrainInv, Joined, regVars, drainVars
<1>0. \A u \in Turns : Attended(u)' = Attended(u)
  BY DEF Attended, Cancelling
<1>1. MarkedIsAttended'
  BY <1>0 DEF MarkedIsAttended, Marked
<1>2. OnlyDrainer'
  BY DEF OnlyDrainer, DrainStates
<1>3. HeldIsQueued' /\ ClosedIsEmpty' /\ DrainerStops'
  BY <1>0 DEF HeldIsQueued, ClosedIsEmpty, DrainerStops
<1> QED
  BY <1>1, <1>2, <1>3

\* cancel or aclose marks the active turn and looks after it.
LEMMA DrainCancelOrUnpark ==
  ASSUME TypeInv, FlightInv, DrainInv, NEW c \in Callers, NEW s \in Sessions, NEW cause,
         CancelOrUnpark(c, s, cause), ~Cancelling(c), UNCHANGED stopping,
         \A d \in Callers : ckind'[d] = "drain" => ckind[d] = "drain",
         \/ stopping = "no"
         \/ cpc[c] = "drain" /\ stopping = "drain" /\ drainQueue' = drainQueue \ {s} /\ UNCHANGED ckind
  PROVE  DrainInv'
<1> USE DEF TypeInv, TypeOK, FlightInv, DrainInv
<1>1. /\ UNCHANGED <<turns, handles, hooks, phase>>
      /\ \A u \in Turns : why'[u] # why[u] => u = turns[s] /\ Active(s)
      /\ cpc' = [cpc EXCEPT ![c] = IF Active(s) THEN "join" ELSE "unparkRead"]
      /\ ctgt' = IF Active(s) THEN [ctgt EXCEPT ![c] = turns[s]] ELSE ctgt
  BY DEF CancelOrUnpark, regVars
<1>2. \A u \in Turns : Attended(u)' <=> (Attended(u) \/ (Active(s) /\ u = turns[s]))
  BY <1>1 DEF Attended, Cancelling, Active
<1>3. MarkedIsAttended'
  BY <1>1, <1>2 DEF MarkedIsAttended, Marked
<1>4. OnlyDrainer'
  BY <1>1 DEF OnlyDrainer, DrainStates
<1>5. HeldIsQueued'
  <2>1. CASE stopping = "no"
    BY <2>1 DEF HeldIsQueued
  <2>2. CASE cpc[c] = "drain" /\ stopping # "no"
    <3>1. \A u \in Turns : ~Attended(u)
      BY <2>2 DEF OnlyDrainer, Attended, Cancelling
    <3>2. turns[s] # NoTurn => Active(s)
      BY <2>2, <3>1 DEF OwnerWorks, MarkedIsAttended, Marked, OnlyDrainer, Work, Active
    <3> QED
      BY <1>1, <1>2, <2>2, <3>1, <3>2 DEF HeldIsQueued
  <2> QED
    BY <2>1, <2>2
<1>6. ClosedIsEmpty' /\ DrainerStops'
  BY <1>1 DEF ClosedIsEmpty, OnlyDrainer, DrainerStops
<1> QED
  BY <1>3, <1>4, <1>5, <1>6

\* The canceller gives the chat back and is done with it.
LEMMA DrainCancelDone ==
  ASSUME TypeInv, FlightInv, DrainInv, NEW c \in Callers, CancelDone(c)
  PROVE  DrainInv'
<1> USE DEF TypeInv, TypeOK, FlightInv, DrainInv
<1> DEFINE t == ctgt[c]
<1>1. /\ t \in Turns /\ phase[t] = "ended" /\ turns[SessionOf[t]] = t
      /\ cpc[c] = "persist"
  BY DEF CancelDone, CancellerWaits, Cancelling, WorkOwns, Work
<1>2. /\ phase' = [phase EXCEPT ![t] = "final"]
      /\ turns' = [turns EXCEPT ![SessionOf[t]] = NoTurn]
      /\ UNCHANGED <<why, stopping, drainQueue>>
      /\ \A d \in Callers : d # c => cpc'[d] = cpc[d] /\ ctgt'[d] = ctgt[d] /\ ckind'[d] = ckind[d]
      /\ cpc'[c] \notin {"join", "persist"}
      /\ ckind[c] = "drain" => cpc'[c] = "drain" /\ ckind'[c] = "drain"
      /\ ckind'[c] = "drain" => ckind[c] = "drain"
      /\ ctgt[c] = t
  BY <1>1 DEF CancelDone, Finalize, Returned, drainVars
<1> HIDE DEF t
<1>a. \A d \in Callers : d # c => (Cancelling(d)' <=> Cancelling(d))
  BY <1>2 DEF Cancelling
<1>b. ~Cancelling(c)'
  BY <1>2 DEF Cancelling
<1>3. ASSUME NEW u \in Turns, u # t PROVE Attended(u)' <=> Attended(u)
  BY <1>2, <1>3, <1>a, <1>b DEF Attended
<1>4. MarkedIsAttended'
  BY <1>1, <1>2, <1>3 DEF MarkedIsAttended, Marked, TaskLive
<1>5. OnlyDrainer'
  <2>1. ASSUME stopping # "no"
        PROVE  ckind[c] = "drain" /\ stopping = "drain" /\ \A d \in Callers : d # c => cpc[d] = "idle"
    BY <1>1, <2>1 DEF OnlyDrainer
  <2>2. ASSUME stopping # "no"
        PROVE  \A d \in Callers : cpc'[d] # "idle" => d = c
    BY <1>2, <2>1, <2>2
  <2> QED
    BY <1>2, <2>1, <2>2 DEF OnlyDrainer, DrainStates
<1>6. HeldIsQueued'
  <2>1. ASSUME NEW s \in Sessions, turns'[s] # NoTurn
        PROVE  turns[s] \in Turns /\ turns'[s] = turns[s] /\ turns[s] # t
    BY <1>1, <1>2, <2>1 DEF OwnerWorks
  <2> QED
    BY <1>2, <1>3, <2>1 DEF HeldIsQueued
<1>7. ClosedIsEmpty' /\ DrainerStops'
  BY <1>1, <1>2 DEF ClosedIsEmpty, OnlyDrainer, DrainerStops
<1> QED
  BY <1>4, <1>5, <1>6, <1>7

\* aclose begins with every caller idle, and queues what is held.
LEMMA DrainBegins ==
  ASSUME TypeInv, FlightInv, DrainInv, NEW c \in Callers, DrainBegin(c)
  PROVE  DrainInv'
<1> USE DEF TypeInv, TypeOK, DrainInv, DrainBegin, regVars, turnVars
<1>1. MarkedIsAttended'
  BY DEF MarkedIsAttended, Marked, Attended, Cancelling
<1>2. OnlyDrainer'
  BY DEF OnlyDrainer, DrainStates
<1>3. HeldIsQueued' /\ ClosedIsEmpty' /\ DrainerStops'
  BY DEF HeldIsQueued, ClosedIsEmpty, DrainerStops, ActiveTurns
<1> QED
  BY <1>1, <1>2, <1>3

\* aclose ends when its queue is empty and the hooks have run.
LEMMA DrainEnds ==
  ASSUME TypeInv, FlightInv, DrainInv, NEW c \in Callers, DrainDone(c)
  PROVE  DrainInv'
<1> USE DEF TypeInv, TypeOK, DrainInv, DrainDone, Idle, regVars, turnVars
<1>0. \A u \in Turns : Attended(u)' = Attended(u)
  BY DEF Attended, Cancelling
<1>1. MarkedIsAttended'
  BY <1>0 DEF MarkedIsAttended, Marked
<1>2. stopping # "no"
  BY DEF FlightInv, DrainerDrains, DrainerStops
<1>3. OnlyDrainer'
  BY <1>2 DEF OnlyDrainer
<1>4. HeldIsQueued' /\ ClosedIsEmpty'
  BY <1>0, <1>2 DEF HeldIsQueued, ClosedIsEmpty
<1>5. DrainerStops'
  <2>1. \A d \in Callers : d # c => cpc[d] = "idle"
    BY <1>2 DEF OnlyDrainer
  <2> QED
    BY <2>1 DEF DrainerStops
<1> QED
  BY <1>1, <1>3, <1>4, <1>5

\* A step of a start call, of a task or of its hook.
LEMMA DrainTurn ==
  ASSUME TypeInv, FlightInv, DrainInv, NEW t \in Turns, TurnStep(t)
  PROVE  DrainInv'
<1>1. CASE Reject(t)
  BY <1>1, DrainReject
<1>2. CASE Spawn(t) \/ RewriteRead(t) \/ RewriteWrite(t)
  <2>1. PICK to \in {"rewrite", "spawned"} :
          /\ phase[t] \in {"prep", "rewrite"}
          /\ to = "rewrite" => phase[t] = "prep"
          /\ phase' = [phase EXCEPT ![t] = to]
          /\ UNCHANGED <<turns, why, cpc, ctgt, ckind, stopping, drainQueue, hooks>>
    BY <1>2 DEF Spawn, RewriteRead, RewriteWrite, regVars, callerVars, drainVars
  <2> QED
    BY <2>1, DrainAdvance DEF Work, TaskLive
<1>3. CASE FirstStep(t) \/ Prefetch(t) \/ PrefetchFails(t) \/ EnsureSession(t)
           \/ EnterGraph(t) \/ RunFails(t) \/ ClearIntent(t)
           \/ (\E st \in {"complete", "awaiting_input"} : NodeCommits(t, st))
           \/ FailureRead(t) \/ FailureWrite(t) \/ FailureUnrecorded(t) \/ Expire(t)
  <2>1. PICK to \in TaskLive :
          /\ phase[t] \in TaskLive
          /\ phase' = [phase EXCEPT ![t] = to]
          /\ UNCHANGED <<turns, why, cpc, ctgt, ckind, stopping, drainQueue, hooks>>
    BY <1>3 DEF FirstStep, Prefetch, PrefetchFails, EnsureSession, EnterGraph,
       RunFails, ClearIntent, NodeCommits, FailureRead, FailureWrite,
       FailureUnrecorded, Expire, Goto, TaskLive, regVars, callerVars, drainVars
  <2> QED
    BY <2>1, DrainAdvance DEF Work, TaskLive
<1>4. CASE ErrorWithoutRecord(t) \/ RunDone(t) \/ RunError(t) \/ ExpireDone(t)
  <2>1. PICK e \in Terminals : phase[t] \in TaskLive /\ DriveEnds(t, e)
    BY <1>4 DEF ErrorWithoutRecord, RunDone, RunError, ExpireDone, Terminals, TaskLive
  <2> QED
    BY <2>1, DrainDriveEnds
<1>5. CASE TaskCancelled(t)
  BY <1>5, DrainTaskCancelled
<1>6. CASE PersistStep(t, t) \/ HookDone(t)
  <2>1. /\ UNCHANGED <<turns, phase, why, cpc, ctgt, ckind, stopping, drainQueue>>
        /\ hooks' \subseteq hooks
    BY <1>6 DEF PersistStep, PersistRead, PersistFails, PersistWrite, HookDone,
       regVars, turnVars, callerVars, drainVars
  <2> QED
    BY <2>1, DrainFrame
<1> QED
  BY <1>1, <1>2, <1>3, <1>4, <1>5, <1>6 DEF TurnStep, StartStep, RunStep, StopStep

\* A step of a request that is under way.
LEMMA DrainCallerStep ==
  ASSUME TypeInv, FlightInv, DrainInv, NEW c \in Callers, CallerStep(c)
  PROVE  DrainInv'
<1> USE DEF regVars, turnVars, callerVars, drainVars
<1>0. stopping # "no" /\ cpc[c] # "idle" => cpc[c] \in DrainStates /\ ckind[c] = "drain"
  BY DEF DrainInv, OnlyDrainer
<1>1. CASE Joined(c)
  BY <1>1, DrainJoined
<1>2. CASE CancelDone(c)
  BY <1>2, DrainCancelDone
<1>3. CASE \E t \in Turns : PersistStep(c, t)
  <2>1. UNCHANGED <<turns, phase, why, cpc, ctgt, ckind, stopping, drainQueue, hooks>>
    BY <1>3 DEF PersistStep, PersistRead, PersistFails, PersistWrite
  <2> QED
    BY <2>1, DrainFrame
<1>4. CASE UnparkRead(c) \/ DropThread(c) \/ AcceptRead(c) \/ AcceptWrite(c)
  <2>1. PICK to \in {"unparkWrite", "dropRow", "acceptWrite", "acceptResume"} :
          /\ ~Cancelling(c) /\ cpc[c] # "idle"
          /\ cpc[c] \in DrainStates => to \in DrainStates
          /\ cpc' = [cpc EXCEPT ![c] = to]
          /\ UNCHANGED <<turns, phase, why, ctgt, ckind, stopping, drainQueue, hooks>>
    BY <1>4 DEF UnparkRead, DropThread, AcceptRead, AcceptWrite, Cancelling, DrainStates
  <2> QED
    BY <1>0, <2>1, DrainCaller DEF CallerStates
<1>5. CASE UnparkWrite(c) \/ UnparkIdle(c)
  <2>1. /\ ~Cancelling(c) /\ cpc[c] # "idle"
        /\ Returned(c)
        /\ UNCHANGED <<turns, phase, why, stopping, drainQueue, hooks>>
    BY <1>5 DEF UnparkWrite, UnparkIdle, Cancelling
  <2>2. PICK to \in {"drop", "drain", "idle"} :
          /\ cpc' = [cpc EXCEPT ![c] = to]
          /\ ckind[c] = "drain" => to = "drain" /\ ckind'[c] = ckind[c]
          /\ ckind'[c] = "drain" => ckind[c] = "drain"
          /\ \A d \in Callers : d # c => ctgt'[d] = ctgt[d] /\ ckind'[d] = ckind[d]
    BY <2>1 DEF Returned, TypeInv, TypeOK
  <2>3. stopping # "no" => to \in DrainStates /\ ckind'[c] = ckind[c]
    BY <1>0, <2>1, <2>2 DEF DrainStates
  <2> QED
    BY <2>1, <2>2, <2>3, DrainCaller DEF CallerStates
<1>6. CASE DropFails(c) \/ DropRow(c) \/ AcceptFails(c) \/ ContinueFails(c)
  <2>1. /\ ~Cancelling(c) /\ cpc[c] \notin DrainStates \cup {"idle"}
        /\ Idle(c)
        /\ UNCHANGED <<turns, phase, why, stopping, drainQueue, hooks>>
    BY <1>6 DEF DropFails, DropRow, AcceptFails, ContinueFails, ReleaseAccept, Cancelling,
       DrainStates
  <2>2. /\ cpc' = [cpc EXCEPT ![c] = "idle"] /\ ckind'[c] = "none"
        /\ \A d \in Callers : d # c => ctgt'[d] = ctgt[d] /\ ckind'[d] = ckind[d]
    BY <2>1 DEF Idle, TypeInv, TypeOK
  <2> QED
    BY <1>0, <2>1, <2>2, DrainCaller DEF CallerStates
<1>7. CASE \E t \in Turns : Continue(c, t)
  <2>1. PICK t \in Turns : Continue(c, t)
    BY <1>7
  <2>2. stopping = "no"
    BY <1>0, <2>1 DEF Continue, DrainStates
  <2>3. /\ phase[t] = "new" /\ phase' = [phase EXCEPT ![t] = "spawned"]
        /\ UNCHANGED <<why, stopping>>
        /\ cpc[c] = "acceptResume" /\ Idle(c)
    BY <2>1 DEF Continue, ReleaseAccept
  <2>4. /\ \A d \in Callers : Cancelling(d) => Cancelling(d)' /\ ctgt'[d] = ctgt[d]
        /\ \A d \in Callers : ckind'[d] = "drain" => ckind[d] = "drain"
    BY <2>3 DEF Idle, Cancelling, TypeInv, TypeOK
  <2> QED
    BY <2>2, <2>3, <2>4, DrainTake
<1>8. CASE \E s \in Sessions : DrainNext(c, s)
  <2>1. PICK s \in Sessions : DrainNext(c, s)
    BY <1>8
  <2>2. /\ CancelOrUnpark(c, s, "shutdown") /\ cpc[c] = "drain"
        /\ drainQueue' = drainQueue \ {s} /\ UNCHANGED <<ckind, stopping>>
    BY <2>1 DEF DrainNext
  <2>3. ~Cancelling(c) /\ stopping = "drain"
    BY <2>2 DEF Cancelling, FlightInv, DrainerDrains, DrainInv, DrainerStops
  <2> QED
    BY <2>2, <2>3, DrainCancelOrUnpark
<1>9. CASE DrainDone(c)
  BY <1>9, DrainEnds
<1> QED
  BY <1>1, <1>2, <1>3, <1>4, <1>5, <1>6, <1>7, <1>8, <1>9 DEF CallerStep

\* A request that arrives: none does once aclose runs.
LEMMA DrainRequest ==
  ASSUME TypeInv, FlightInv, DrainInv, Request
  PROVE  DrainInv'
<1>1. CASE \E t \in Turns, goal \in BOOLEAN : Claim(t, goal)
  <2>1. PICK t \in Turns, goal \in BOOLEAN : Claim(t, goal)
    BY <1>1
  <2>2. /\ phase[t] = "new" /\ phase' = [phase EXCEPT ![t] = "prep"]
        /\ stopping = "no" /\ UNCHANGED <<why, stopping, cpc, ctgt, ckind>>
    BY <2>1 DEF Claim, callerVars, drainVars
  <2>3. \A d \in Callers : Cancelling(d) => Cancelling(d)' /\ ctgt'[d] = ctgt[d]
    BY <2>2 DEF Cancelling
  <2> QED
    BY <2>2, <2>3, DrainTake
<1>2. CASE \E c \in Callers, s \in Sessions : AcceptCall(c, s)
  <2>1. PICK c \in Callers, s \in Sessions : AcceptCall(c, s)
    BY <1>2
  <2>2. /\ cpc[c] = "idle" /\ stopping = "no" /\ ckind'[c] = "accept"
        /\ cpc' = [cpc EXCEPT ![c] = "acceptRead"]
        /\ \A d \in Callers : d # c => ctgt'[d] = ctgt[d] /\ ckind'[d] = ckind[d]
        /\ UNCHANGED <<turns, phase, why, stopping, drainQueue, hooks>>
    BY <2>1 DEF AcceptCall, regVars, turnVars, drainVars, TypeInv, TypeOK
  <2> QED
    BY <2>2, DrainCaller DEF CallerStates, Cancelling
<1>3. CASE \E c \in Callers, s \in Sessions, kind \in {"cancel", "delete"} :
             CancelCall(c, s, kind)
  <2>1. PICK c \in Callers, s \in Sessions, kind \in {"cancel", "delete"} :
          CancelCall(c, s, kind)
    BY <1>3
  <2>2. /\ ~Cancelling(c) /\ stopping = "no" /\ UNCHANGED stopping
        /\ \A d \in Callers : ckind'[d] = "drain" => ckind[d] = "drain"
        /\ CancelOrUnpark(c, s, "user")
    BY <2>1 DEF CancelCall, Cancelling, drainVars, TypeInv, TypeOK
  <2> QED
    BY <2>2, DrainCancelOrUnpark
<1>4. CASE \E c \in Callers : DrainBegin(c)
  BY <1>4, DrainBegins
<1> QED
  BY <1>1, <1>2, <1>3, <1>4 DEF Request

\* Who looks after each turn, at all times (cancel, aclose).
THEOREM Drained == Spec => [](TypeInv /\ FlightInv /\ DrainInv)
<1>1. Init => DrainInv
  BY DEF Init, DrainInv, MarkedIsAttended, Marked, TaskLive, OnlyDrainer, HeldIsQueued,
     DrainerStops, ClosedIsEmpty
<1>2. TypeInv /\ FlightInv /\ DrainInv /\ [Next]_vars => DrainInv'
  <2> SUFFICES ASSUME TypeInv, FlightInv, DrainInv, [Next]_vars PROVE DrainInv'
    OBVIOUS
  <2>1. CASE UNCHANGED vars
    <3>1. UNCHANGED <<turns, phase, why, cpc, ctgt, ckind, stopping, drainQueue, hooks>>
      BY <2>1 DEF vars, regVars, turnVars, callerVars, drainVars
    <3> QED
      BY <3>1, DrainFrame
  <2> QED
    BY <2>1, DrainTurn, DrainCallerStep, DrainRequest DEF Next
<1> QED
  BY <1>1, <1>2, Flight, PTL DEF Spec

\* When the pools close, nothing that would still use them is left, however
\* many turns, cancellers and hooks the shutdown found (aclose,
\* _terminate_for_shutdown, the shutdown order of api/main.py).
THEOREM ShutdownLeavesNothing == Spec => []NothingOutlivesDrain
<1>1. TypeInv /\ FlightInv /\ DrainInv => NothingOutlivesDrain
  BY NothingLeft
<1> QED
  BY <1>1, Drained, PTL

-----------------------------------------------------------------------------
(***************************************************************************)
(* The transcript.  Every writer of it writes back a list that it read     *)
(* before an await, so the invariants are about every list that somebody   *)
(* holds, not only about the durable ones.                                 *)
(***************************************************************************)

\* The phases in which a turn may have written its record.
Wrote == {"committed", "cleared", "failed", "expired", "ended", "final"}

\* A transcript is sound if no message is in it twice, its pending questions
\* are of this release, and none of them was followed by a message of the
\* student: only a continuation can come after a question.
Sound(L) ==
  /\ \A i, j \in 1 .. Len(L) : L[i].mid = L[j].mid => i = j
  /\ \A i \in 1 .. Len(L) : L[i].status = "awaiting_input" => L[i].v2
  /\ \A i \in 1 .. Len(L) - 1 : L[i].status = "awaiting_input" => ~L[i + 1].editable

\* It is backed by the turns (in phases ph, with the marks w) if each of its
\* records is of one that may have written it, and tells no stop of its own
\* making.
Backed(L, ph, w) ==
  \A i \in 1 .. Len(L) : L[i].mid \in Turns =>
    /\ ph[L[i].mid] \in Wrote
    /\ L[i].status = "cancelled" => L[i].v2 \/ w[L[i].mid] = "user"

(***************************************************************************)
(* What is true of the lists the writers build.                            *)
(***************************************************************************)
\* An empty transcript is sound and backed (adelete_thread).
LEMMA EmptyIsGood ==
  ASSUME NEW ph, NEW w
  PROVE  Sound(<<>>) /\ Backed(<<>>, ph, w) /\ ~IsParked(<<>>)
BY DEF Sound, Backed, IsParked

\* A history cut before a message of the student's ends in no question
\* (_rewrite_history).
LEMMA CutIsGood ==
  ASSUME NEW L \in Seq(Records), NEW ph, NEW w, Sound(L), Backed(L, ph, w),
         NEW i \in 1 .. Len(L), L[i].editable
  PROVE  LET P == SubSeq(L, 1, i - 1)
         IN  Sound(P) /\ Backed(P, ph, w) /\ ~IsParked(P)
<1> DEFINE P == SubSeq(L, 1, i - 1)
<1>1. /\ P \in Seq(Records) /\ Len(P) = i - 1
      /\ \A k \in 1 .. Len(P) : P[k] = L[k] /\ k \in 1 .. Len(L)
      /\ i \in Nat /\ i >= 1 /\ i <= Len(L) /\ Len(L) \in Nat
  OBVIOUS
<1> HIDE DEF P
<1>2. Sound(P)
  <2>1. ASSUME NEW k \in 1 .. Len(P) - 1
        PROVE  /\ P[k] = L[k] /\ P[k + 1] = L[k + 1] /\ k \in 1 .. Len(L) - 1
    BY <1>1
  <2>2. \A k, j \in 1 .. Len(P) : P[k].mid = P[j].mid => k = j
    BY <1>1 DEF Sound
  <2>3. \A k \in 1 .. Len(P) : P[k].status = "awaiting_input" => P[k].v2
    BY <1>1 DEF Sound
  <2>4. \A k \in 1 .. Len(P) - 1 : P[k].status = "awaiting_input" => ~P[k + 1].editable
    BY <2>1 DEF Sound
  <2> QED
    BY <2>2, <2>3, <2>4 DEF Sound
<1>3. Backed(P, ph, w)
  BY <1>1 DEF Backed
<1>4. ~IsParked(P)
  <2>1. CASE i = 1
    BY <1>1, <2>1 DEF IsParked
  <2>2. CASE i # 1
    <3>1. i - 1 \in 1 .. Len(L) - 1 /\ (i - 1) + 1 = i /\ i - 1 \in 1 .. Len(P)
      BY <1>1, <2>2
    <3>2. L[i - 1].status # "awaiting_input"
      BY <3>1 DEF Sound
    <3> QED
      BY <1>1, <3>1, <3>2 DEF IsParked, Latest
  <2> QED
    BY <2>1, <2>2
<1> QED
  BY <1>2, <1>3, <1>4 DEF P

\* Settling the pending question leaves none pending (_unpark_if_parked,
\* accept_clarification).
LEMMA SettledIsGood ==
  ASSUME NEW L \in Seq(Records), NEW ph, NEW w, Sound(L), Backed(L, ph, w),
         IsParked(L), NEW st \in {"complete", "cancelled"}
  PROVE  LET R == ReplaceLatest(L, [Latest(L) EXCEPT !.status = st])
         IN  Sound(R) /\ Backed(R, ph, w) /\ ~IsParked(R)
<1> DEFINE n == Len(L)
           q == [Latest(L) EXCEPT !.status = st]
           R == ReplaceLatest(L, q)
<1>1. n \in Nat /\ n >= 1 /\ n \in 1 .. Len(L) /\ L[n] \in Records /\ L[n].v2
  BY DEF IsParked, Latest, Sound
<1>2. /\ q.mid = L[n].mid /\ q.v2 = L[n].v2 /\ q.editable = L[n].editable
      /\ q.status = st /\ q \in Records
  BY <1>1 DEF Latest, Records, Statuses
<1> HIDE DEF q
<1>3. /\ R \in Seq(Records) /\ Len(R) = n
      /\ R[n] = q
      /\ \A i \in 1 .. n : i # n => R[i] = L[i]
  BY <1>1, <1>2 DEF ReplaceLatest
<1>4. R # <<>> /\ Latest(R) = q
  BY <1>1, <1>3 DEF Latest
<1> HIDE DEF R
<1>5. \A i \in 1 .. n : R[i].mid = L[i].mid /\ R[i].v2 = L[i].v2 /\ R[i].editable = L[i].editable
  BY <1>2, <1>3
<1>6. \A i \in 1 .. n : R[i].status = "awaiting_input" => i # n /\ L[i].status = "awaiting_input"
  BY <1>2, <1>3
<1>7. Sound(R)
  <2>1. \A i, j \in 1 .. Len(R) : R[i].mid = R[j].mid => i = j
    BY <1>3, <1>5 DEF Sound
  <2>2. \A i \in 1 .. Len(R) : R[i].status = "awaiting_input" => R[i].v2
    BY <1>3, <1>5, <1>6 DEF Sound
  <2>3. ASSUME NEW i \in 1 .. Len(R) - 1, R[i].status = "awaiting_input"
        PROVE  ~R[i + 1].editable
    <3>1. i \in 1 .. n /\ i + 1 \in 1 .. n /\ i \in 1 .. n - 1
      BY <1>1, <1>3
    <3>2. L[i].status = "awaiting_input"
      BY <1>6, <2>3, <3>1
    <3>3. ~L[i + 1].editable
      BY <3>1, <3>2 DEF Sound
    <3> QED
      BY <1>5, <3>1, <3>3
  <2> QED
    BY <2>1, <2>2, <2>3 DEF Sound
<1>8. Backed(R, ph, w)
  BY <1>1, <1>3, <1>5 DEF Backed
<1>9. ~IsParked(R)
  BY <1>2, <1>4 DEF IsParked
<1> QED
  BY <1>7, <1>8, <1>9 DEF R, q

\* Adding the record of a turn that is not in the list yet.  The list holds no
\* question of the previous release, so append_or_replace appends.
LEMMA AddedIsGood ==
  ASSUME NEW L \in Seq(Records), NEW ph, NEW w, Sound(L), Backed(L, ph, w),
         NEW r \in Records, ~Committed(L, r.mid),
         r.status = "awaiting_input" => r.v2,
         IsParked(L) => ~r.editable,
         r.mid \in Turns => ph[r.mid] \in Wrote,
         r.mid \in Turns /\ r.status = "cancelled" => r.v2 \/ w[r.mid] = "user"
  PROVE  LET R == AppendOrReplace(L, r)
         IN  /\ Sound(R) /\ Backed(R, ph, w)
             /\ IsParked(R) => Latest(R).mid = r.mid
<1> DEFINE n == Len(L)
           R == Append(L, r)
<1>0. n \in Nat
  OBVIOUS
<1>1. AppendOrReplace(L, r) = R
  <2>1. IsParked(L) => Latest(L).v2
    BY DEF IsParked, Latest, Sound
  <2> QED
    BY <2>1 DEF AppendOrReplace
<1>2. /\ R \in Seq(Records) /\ Len(R) = n + 1 /\ R[n + 1] = r /\ R # <<>> /\ Latest(R) = r
      /\ \A i \in 1 .. n : R[i] = L[i]
  BY DEF Latest
<1>3. \A i \in 1 .. n : L[i].mid # r.mid
  BY DEF Committed
<1> HIDE DEF R
<1>4. \A i \in 1 .. n + 1 : i \in 1 .. n \/ i = n + 1
  BY <1>0
<1>5. Sound(R)
  <2>1. \A i, j \in 1 .. Len(R) : R[i].mid = R[j].mid => i = j
    BY <1>0, <1>2, <1>3, <1>4 DEF Sound
  <2>2. \A i \in 1 .. Len(R) : R[i].status = "awaiting_input" => R[i].v2
    BY <1>2, <1>4 DEF Sound
  <2>3. ASSUME NEW i \in 1 .. Len(R) - 1, R[i].status = "awaiting_input"
        PROVE  ~R[i + 1].editable
    <3>1. i \in 1 .. n /\ R[i] = L[i]
      BY <1>0, <1>2
    <3>2. CASE i = n
      <4>1. IsParked(L)
        BY <1>0, <2>3, <3>1, <3>2 DEF IsParked, Latest
      <4> QED
        BY <1>2, <3>2, <4>1
    <3>3. CASE i # n
      <4>1. i \in 1 .. n - 1 /\ i + 1 \in 1 .. n
        BY <1>0, <3>1, <3>3
      <4> QED
        BY <1>2, <2>3, <3>1, <4>1 DEF Sound
    <3> QED
      BY <3>2, <3>3
  <2> QED
    BY <2>1, <2>2, <2>3 DEF Sound
<1>6. Backed(R, ph, w)
  BY <1>2, <1>4 DEF Backed
<1> QED
  BY <1>1, <1>2, <1>5, <1>6

(***************************************************************************)
(* The inductive invariant.                                                *)
(***************************************************************************)
\* Every list is sound and backed: the durable ones, those a coroutine or a
\* partial record's writer has read, and those a request has read.
ListsGood ==
  /\ \A s \in Sessions : Sound(records[s]) /\ Backed(records[s], phase, why)
  /\ \A t \in Turns : Sound(tsnap[t]) /\ Backed(tsnap[t], phase, why)
  /\ \A p \in Persisters : Sound(psnap[p]) /\ Backed(psnap[p], phase, why)
  /\ \A c \in Callers : Sound(csnap[c]) /\ Backed(csnap[c], phase, why)

\* A turn writes under an id of its own.
MidOwn == \A t \in Turns : mid[t] \in {NoTurn, t}

\* A continuation announces itself without reading the thread.
PlainPrefetch == \A t \in Turns : phase[t] = "prefetch" => ~isCont[t]

\* If L ends in a question, turn t has asked it.
OwnQuestion(L, t) == IsParked(L) => Latest(L).mid = t

\* While a turn that is not a continuation holds its chat, no question but its
\* own is pending; so none is before it has committed, and what it read for its
\* write ends in none.
AskedByHolder ==
  \A t \in Turns : phase[t] \in Work /\ ~isCont[t] =>
    /\ OwnQuestion(records[SessionOf[t]], t)
    /\ phase[t] \in {"rewrite", "graph", "failwrite"} => ~IsParked(tsnap[t])

\* Nor is there one in what was read for its partial record.
AskedInPartial ==
  \A p \in Persisters, t \in Turns :
    Persists(p, t) /\ ~isCont[t] /\ persist[p] \in {"write", "retryWrite"}
      => OwnQuestion(psnap[p], t)

\* A request that is about to settle a question has read one.
ParkedSnap ==
  \A c \in Callers : cpc[c] \in {"unparkWrite", "acceptWrite"} => IsParked(csnap[c])

RecInv ==
  /\ ListsGood
  /\ MidOwn
  /\ PlainPrefetch
  /\ AskedByHolder
  /\ AskedInPartial
  /\ ParkedSnap

\* The transcripts left by an earlier process are sound, and of other turns.
CleanStart ==
  \A L \in InitRecords :
    Sound(L) /\ \A i \in 1 .. Len(L) : L[i].mid \notin Turns

\* What was written, and the student's mark, stay.
Onward ==
  \A t \in Turns : /\ phase[t] \in Wrote => phase'[t] \in Wrote
                   /\ why[t] = "user" => why'[t] = "user"

\* A list that is sound, and backed after the step.
GoodNext(L) == Sound(L) /\ Backed(L, phase', why')

\* A list that was backed is backed after the step.
LEMMA StaysBacked ==
  ASSUME Onward, NEW L, Sound(L), Backed(L, phase, why)
  PROVE  GoodNext(L)
BY DEF Onward, GoodNext, Backed

\* A step that keeps or copies lists, or replaces them by good ones.
LEMMA ListsStep ==
  ASSUME ListsGood, Onward,
         \A s \in Sessions : records'[s] = records[s] \/ GoodNext(records'[s]),
         \A t \in Turns :
           \/ tsnap'[t] \in {tsnap[t], <<>>}
           \/ GoodNext(tsnap'[t]),
         \A p \in Persisters :
           \/ psnap'[p] \in {psnap[p], <<>>}
           \/ \E s \in Sessions : psnap'[p] = records[s],
         \A c \in Callers :
           \/ csnap'[c] \in {csnap[c], <<>>}
           \/ \E s \in Sessions : csnap'[c] = records[s]
  PROVE  ListsGood'
<1>0. GoodNext(<<>>)
  BY EmptyIsGood DEF GoodNext
<1>1. \A s \in Sessions : GoodNext(records[s]) /\ GoodNext(records'[s])
  BY StaysBacked DEF ListsGood
<1>2. \A t \in Turns : GoodNext(tsnap'[t])
  BY <1>0, StaysBacked DEF ListsGood
<1>3. \A p \in Persisters : GoodNext(psnap'[p])
  BY <1>0, <1>1, StaysBacked DEF ListsGood
<1>4. \A c \in Callers : GoodNext(csnap'[c])
  BY <1>0, <1>1, StaysBacked DEF ListsGood
<1> QED
  BY <1>1, <1>2, <1>3, <1>4 DEF ListsGood, GoodNext

\* A turn that has not written yet sees no pending question.
LEMMA NothingPending ==
  ASSUME TypeInv, RecInv, NEW t \in Turns, phase[t] \in Work \ Wrote, ~isCont[t]
  PROVE  ~IsParked(records[SessionOf[t]])
<1> SUFFICES ASSUME IsParked(records[SessionOf[t]]) PROVE FALSE
  OBVIOUS
<1> DEFINE L == records[SessionOf[t]]
<1>1. L \in Seq(Records) /\ Backed(L, phase, why)
  BY RegistryAssumption DEF RecInv, ListsGood, TypeInv, TypeOK
<1>2. Latest(L).mid = t
  BY DEF RecInv, AskedByHolder, OwnQuestion
<1> HIDE DEF L
<1>3. Len(L) \in 1 .. Len(L)
  BY <1>1 DEF IsParked, L
<1> QED
  BY <1>1, <1>2, <1>3 DEF Backed, Latest

\* What a turn's step does to the partial records: none is about to be written
\* that was not before.
NoNewPartial ==
  /\ UNCHANGED <<isCont, cpc, ctgt>>
  /\ \A c \in Callers : persist'[c] = persist[c] /\ psnap'[c] = psnap[c]
  /\ \A t \in Turns : phase'[t] = "expired" =>
       \/ phase[t] = "expired" /\ persist'[t] = persist[t] /\ psnap'[t] = psnap[t]
       \/ persist'[t] = "read"

LEMMA PartialFrame ==
  ASSUME AskedInPartial, NoNewPartial
  PROVE  AskedInPartial'
BY DEF AskedInPartial, NoNewPartial, Persists, Persisters

\* One turn moves, and writes at most its own chat's transcript.
LEMMA AskedFrame ==
  ASSUME TypeInv, FlightInv, AskedByHolder, NEW t \in Turns,
         \A u \in Turns : u # t =>
           phase'[u] = phase[u] /\ isCont'[u] = isCont[u] /\ tsnap'[u] = tsnap[u],
         \A s \in Sessions : s # SessionOf[t] => records'[s] = records[s],
         records'[SessionOf[t]] = records[SessionOf[t]] \/ phase[t] \in Work,
         phase'[t] \in Work /\ ~isCont'[t] =>
           /\ OwnQuestion(records'[SessionOf[t]], t)
           /\ phase'[t] \in {"rewrite", "graph", "failwrite"} => ~IsParked(tsnap'[t])
  PROVE  AskedByHolder'
<1> SUFFICES ASSUME NEW u \in Turns, phase'[u] \in Work, ~isCont'[u]
             PROVE  /\ OwnQuestion(records'[SessionOf[u]], u)
                    /\ phase'[u] \in {"rewrite", "graph", "failwrite"} => ~IsParked(tsnap'[u])
  BY DEF AskedByHolder, OwnQuestion
<1>1. CASE u = t
  BY <1>1
<1>2. CASE u # t
  <2>1. phase[u] \in Work /\ ~isCont[u] /\ tsnap'[u] = tsnap[u] /\ phase'[u] = phase[u]
    BY <1>2
  <2>2. records'[SessionOf[u]] = records[SessionOf[u]]
    BY <1>2, <2>1, RegistryAssumption DEF FlightInv, WorkOwns
  <2> QED
    BY <2>1, <2>2 DEF AskedByHolder
<1> QED
  BY <1>1, <1>2

\* A start call or a task goes on, and writes no transcript.
LEMMA RecAdvance ==
  ASSUME TypeInv, FlightInv, RecInv, NEW t \in Turns, NEW to \in Phases \ {"rewrite"},
         phase[t] \in Work,
         phase' = [phase EXCEPT ![t] = to],
         phase[t] \in Wrote => to \in Wrote,
         to = "prefetch" => ~isCont[t],
         to \in {"graph", "failwrite"} =>
           phase[t] \notin Wrote /\ tsnap'[t] = records[SessionOf[t]],
         to \notin {"graph", "failwrite"} => tsnap'[t] \in {tsnap[t], <<>>},
         \A u \in Turns : u # t => tsnap'[u] = tsnap[u],
         \A p \in Persisters : psnap'[p] \in {psnap[p], <<>>},
         NoNewPartial, MidOwn',
         UNCHANGED <<why, records, csnap>>
  PROVE  RecInv'
<1>1. Onward
  BY DEF Onward, TypeInv, TypeOK
<1>2. ListsGood'
  <2>1. \A u \in Turns : tsnap'[u] \in {tsnap[u], <<>>} \/ GoodNext(tsnap'[u])
    <3>1. SessionOf[t] \in Sessions
      BY RegistryAssumption
    <3> QED
      BY <1>1, <3>1, StaysBacked DEF RecInv, ListsGood
  <2> QED
    BY <1>1, <2>1, ListsStep DEF RecInv
<1>3. AskedByHolder'
  <2>1. phase'[t] = to
    BY DEF TypeInv, TypeOK
  <2>2. isCont' = isCont
    BY DEF NoNewPartial
  <2>3. ~isCont[t] => OwnQuestion(records'[SessionOf[t]], t)
    BY DEF RecInv, AskedByHolder
  <2>4. ~isCont[t] /\ to \in {"graph", "failwrite"} => ~IsParked(tsnap'[t])
    BY NothingPending
  <2>5. \A u \in Turns : u # t => phase'[u] = phase[u]
    BY DEF TypeInv, TypeOK
  <2> QED
    BY <2>1, <2>2, <2>3, <2>4, <2>5, AskedFrame DEF RecInv
<1>4. ParkedSnap' /\ PlainPrefetch'
  BY DEF RecInv, ParkedSnap, PlainPrefetch, NoNewPartial, TypeInv, TypeOK
<1> QED
  BY <1>2, <1>3, <1>4, PartialFrame DEF RecInv

\* start reads the history it will cut (_rewrite_history).
LEMMA RecRewriteRead ==
  ASSUME TypeInv, FlightInv, RecInv, NEW t \in Turns, RewriteRead(t)
  PROVE  RecInv'
<1> DEFINE L == records[SessionOf[t]]
<1>0. /\ phase[t] = "prep" /\ phase' = [phase EXCEPT ![t] = "rewrite"]
      /\ UNCHANGED <<why, records, csnap, psnap, persist, isCont, cpc, ctgt, mid>>
      /\ phase \in [Turns -> Phases] /\ tsnap \in [Turns -> Seq(Records)]
  BY DEF RewriteRead, callerVars, ckptVars, TypeInv, TypeOK
<1>1. L \in Seq(Records) /\ Sound(L) /\ Backed(L, phase, why)
  BY RegistryAssumption DEF RecInv, ListsGood, TypeInv, TypeOK
<1>2. PICK i \in 1 .. Len(L) :
        L[i].editable /\ tsnap' = [tsnap EXCEPT ![t] = SubSeq(L, 1, i - 1)]
  BY DEF RewriteRead
<1>3. Onward
  BY <1>0 DEF Onward, Wrote
<1>4. GoodNext(L) /\ GoodNext(tsnap'[t]) /\ ~IsParked(tsnap'[t])
  <2>1. tsnap'[t] = SubSeq(L, 1, i - 1)
    BY <1>0, <1>2
  <2>2. GoodNext(L)
    BY <1>1, <1>3, StaysBacked
  <2> HIDE DEF L
  <2>3. LET P == SubSeq(L, 1, i - 1)
        IN  Sound(P) /\ Backed(P, phase', why') /\ ~IsParked(P)
    BY <1>1, <1>2, <2>2, CutIsGood DEF GoodNext
  <2> QED
    BY <2>1, <2>2, <2>3 DEF GoodNext
<1>5. ListsGood'
  <2>1. \A u \in Turns : tsnap'[u] = tsnap[u] \/ GoodNext(tsnap'[u])
    BY <1>0, <1>2, <1>4
  <2> QED
    BY <1>0, <1>3, <2>1, ListsStep DEF RecInv
<1>6. AskedByHolder'
  <2>1. OwnQuestion(L, t) \/ isCont[t]
    BY <1>0 DEF RecInv, AskedByHolder, Work
  <2>2. \A u \in Turns : u # t => phase'[u] = phase[u] /\ tsnap'[u] = tsnap[u]
    BY <1>0, <1>2
  <2> QED
    BY <1>0, <1>4, <2>1, <2>2, AskedFrame DEF RecInv
<1>7. MidOwn' /\ PlainPrefetch' /\ ParkedSnap'
  BY <1>0 DEF RecInv, MidOwn, PlainPrefetch, ParkedSnap
<1>8. AskedInPartial'
  <2>1. NoNewPartial
    BY <1>0 DEF NoNewPartial
  <2> QED
    BY <2>1, PartialFrame DEF RecInv
<1> QED
  BY <1>5, <1>6, <1>7, <1>8 DEF RecInv

\* A turn's own write of its chat's transcript.
LEMMA RecWrite ==
  ASSUME TypeInv, FlightInv, RecInv, NEW t \in Turns, NEW L,
         NEW to \in {"spawned", "committed", "failed"},
         phase[t] \in Work \ Wrote,
         phase' = [phase EXCEPT ![t] = to],
         records' = [records EXCEPT ![SessionOf[t]] = L],
         GoodNext(L), ~isCont[t] => OwnQuestion(L, t),
         tsnap'[t] \in {tsnap[t], <<>>, L},
         \A u \in Turns : u # t => tsnap'[u] = tsnap[u],
         UNCHANGED <<why, csnap, psnap, persist, isCont, cpc, ctgt, mid>>
  PROVE  RecInv'
<1>0. /\ phase \in [Turns -> Phases] /\ records \in [Sessions -> Seq(Records)]
      /\ SessionOf[t] \in Sessions
  BY RegistryAssumption DEF TypeInv, TypeOK
<1>1. Onward
  BY <1>0 DEF Onward, Wrote
<1>2. /\ records'[SessionOf[t]] = L
      /\ \A s \in Sessions : s # SessionOf[t] => records'[s] = records[s]
  BY <1>0
<1>3. ListsGood'
  BY <1>1, <1>2, ListsStep DEF RecInv
<1>4. phase'[t] = to /\ \A u \in Turns : u # t => phase'[u] = phase[u]
  BY <1>0
<1>5. AskedByHolder'
  BY <1>2, <1>4, AskedFrame DEF RecInv
<1>6. MidOwn' /\ PlainPrefetch' /\ ParkedSnap'
  BY DEF RecInv, MidOwn, PlainPrefetch, ParkedSnap
<1>7. AskedInPartial'
  <2>1. NoNewPartial
    BY <1>4 DEF NoNewPartial
  <2> QED
    BY <2>1, PartialFrame DEF RecInv
<1> QED
  BY <1>3, <1>5, <1>6, <1>7 DEF RecInv

\* The record of a turn, for each of the writers that writes one.
LEMMA RecordOfTurn ==
  ASSUME TypeInv, RecInv, NEW t \in Turns, mid[t] # NoTurn, NEW st \in Statuses
  PROVE  /\ RecordOf(t, st) \in Records
         /\ RecordOf(t, st).mid = t
         /\ RecordOf(t, st).status = st
         /\ RecordOf(t, st).v2 = (st = "awaiting_input")
         /\ RecordOf(t, st).editable = ~isCont[t]
<1>1. mid[t] = t
  BY DEF RecInv, MidOwn
<1>2. isCont[t] \in BOOLEAN /\ isGoal[t] \in BOOLEAN /\ t \in MessageIds
  BY DEF TypeInv, TypeOK, MessageIds
<1> QED
  BY <1>1, <1>2 DEF RecordOf, Records

\* The node's record and the error record go to a list that was read before the
\* turn wrote anything.
LEMMA OwnRecordIsGood ==
  ASSUME TypeInv, RecInv, NEW t \in Turns, phase[t] \in {"graph", "failwrite"},
         mid[t] # NoTurn, NEW st \in Statuses \ {"cancelled"}, Onward, phase'[t] \in Wrote
  PROVE  LET R == AppendOrReplace(tsnap[t], RecordOf(t, st))
         IN  GoodNext(R) /\ OwnQuestion(R, t)
<1> DEFINE L == tsnap[t]
           r == RecordOf(t, st)
<1>1. L \in Seq(Records) /\ Sound(L) /\ Backed(L, phase, why)
  BY DEF RecInv, ListsGood, TypeInv, TypeOK
<1>2. /\ r \in Records /\ r.mid = t /\ r.status = st
      /\ r.v2 = (st = "awaiting_input") /\ r.editable = ~isCont[t]
  BY RecordOfTurn
<1>3. ~Committed(L, t)
  BY <1>1 DEF Backed, Committed, Wrote
<1>4. IsParked(L) => isCont[t]
  BY DEF RecInv, AskedByHolder, Work, TaskLive
<1>5. Backed(L, phase', why')
  BY <1>1, StaysBacked DEF GoodNext
<1> HIDE DEF L, r
<1>6. LET R == AppendOrReplace(L, r)
      IN  /\ Sound(R) /\ Backed(R, phase', why')
          /\ IsParked(R) => Latest(R).mid = r.mid
  BY <1>1, <1>2, <1>3, <1>4, <1>5, AddedIsGood
<1> QED
  BY <1>2, <1>6 DEF GoodNext, OwnQuestion, L, r

\* The truncated history, the node's record and the error record are written.
LEMMA RecTurnWrites ==
  ASSUME TypeInv, FlightInv, RecInv, NEW t \in Turns,
         \/ RewriteWrite(t) \/ FailureWrite(t)
         \/ \E st \in {"complete", "awaiting_input"} : NodeCommits(t, st)
  PROVE  RecInv'
<1>0. /\ phase \in [Turns -> Phases] /\ records \in [Sessions -> Seq(Records)]
      /\ tsnap \in [Turns -> Seq(Records)] /\ SessionOf[t] \in Sessions
  BY RegistryAssumption DEF TypeInv, TypeOK
<1>1. CASE RewriteWrite(t)
  <2>1. /\ phase[t] = "rewrite" /\ phase' = [phase EXCEPT ![t] = "spawned"]
        /\ records' = [records EXCEPT ![SessionOf[t]] = tsnap[t]]
        /\ tsnap' = [tsnap EXCEPT ![t] = <<>>]
        /\ UNCHANGED <<why, csnap, psnap, persist, isCont, cpc, ctgt, mid>>
    BY <1>1 DEF RewriteWrite, callerVars
  <2>2. Onward
    BY <1>0, <2>1 DEF Onward, Wrote
  <2>3. GoodNext(tsnap[t])
    BY <2>2, StaysBacked DEF RecInv, ListsGood
  <2>4. ~isCont[t] => OwnQuestion(tsnap[t], t)
    BY <2>1 DEF RecInv, AskedByHolder, Work, OwnQuestion
  <2>5. phase[t] \in Work \ Wrote /\ tsnap'[t] = <<>> /\ \A u \in Turns : u # t => tsnap'[u] = tsnap[u]
    BY <1>0, <2>1 DEF Work, Wrote
  <2> QED
    BY <2>1, <2>3, <2>4, <2>5, RecWrite
<1>2. CASE FailureWrite(t)
  <2> DEFINE L == AppendOrReplace(tsnap[t], RecordOf(t, "error"))
  <2>1. /\ phase[t] = "failwrite" /\ phase' = [phase EXCEPT ![t] = "failed"]
        /\ records' = [records EXCEPT ![SessionOf[t]] = L]
        /\ UNCHANGED <<why, csnap, psnap, persist, isCont, cpc, ctgt, mid, tsnap>>
    BY <1>2 DEF FailureWrite, Goto, callerVars
  <2>2. Onward /\ phase'[t] \in Wrote
    BY <1>0, <2>1 DEF Onward, Wrote
  <2>3. mid[t] # NoTurn
    BY <2>1 DEF TypeInv, RunHasIdentity
  <2>4. GoodNext(L) /\ OwnQuestion(L, t)
    BY <2>1, <2>2, <2>3, OwnRecordIsGood DEF Statuses
  <2>5. phase[t] \in Work \ Wrote
    BY <2>1 DEF Work, TaskLive, Wrote
  <2> HIDE DEF L
  <2> QED
    BY <2>1, <2>4, <2>5, RecWrite
<1>3. CASE \E st \in {"complete", "awaiting_input"} : NodeCommits(t, st)
  <2>0. PICK st \in {"complete", "awaiting_input"} : NodeCommits(t, st)
    BY <1>3
  <2> DEFINE L == AppendOrReplace(tsnap[t], RecordOf(t, st))
  <2>1. /\ phase[t] = "graph" /\ phase' = [phase EXCEPT ![t] = "committed"]
        /\ records' = [records EXCEPT ![SessionOf[t]] = L]
        /\ tsnap' = [tsnap EXCEPT ![t] = L]
        /\ UNCHANGED <<why, csnap, psnap, persist, isCont, cpc, ctgt, mid>>
    BY <2>0 DEF NodeCommits, Goto, callerVars
  <2>2. Onward /\ phase'[t] \in Wrote
    BY <1>0, <2>1 DEF Onward, Wrote
  <2>3. mid[t] # NoTurn
    BY <2>1 DEF TypeInv, RunHasIdentity
  <2>4. GoodNext(L) /\ OwnQuestion(L, t)
    BY <2>1, <2>2, <2>3, OwnRecordIsGood DEF Statuses
  <2>5. phase[t] \in Work \ Wrote
    BY <2>1 DEF Work, TaskLive, Wrote
  <2> HIDE DEF L
  <2>6. tsnap'[t] = L /\ \A u \in Turns : u # t => tsnap'[u] = tsnap[u]
    BY <1>0, <2>1
  <2> QED
    BY <2>1, <2>4, <2>5, <2>6, RecWrite
<1> QED
  BY <1>1, <1>2, <1>3

\* A partial record's writer reads the thread, or gives up an attempt.
LEMMA RecPersistReads ==
  ASSUME TypeInv, FlightInv, RecInv, NEW p \in Persisters, NEW t \in Turns,
         PersistRead(p, t) \/ PersistFails(p, t)
  PROVE  RecInv'
<1>0. /\ UNCHANGED <<phase, isCont, why, mid, tsnap, records, cpc, ctgt, csnap>>
      /\ Persists(p, t)
      /\ psnap' = [psnap EXCEPT ![p] = records[SessionOf[t]]] \/ psnap' = psnap
      /\ SessionOf[t] \in Sessions
      /\ psnap \in [Persisters -> Seq(Records)] /\ persist \in [Persisters -> PersistStates]
      /\ phase \in [Turns -> Phases]
  BY RegistryAssumption DEF PersistRead, PersistFails, ckptVars, callerVars, TypeInv, TypeOK
<1>1. Onward
  BY <1>0 DEF Onward
<1>2. ListsGood'
  BY <1>0, <1>1, ListsStep DEF RecInv
<1>3. AskedByHolder' /\ MidOwn' /\ PlainPrefetch' /\ ParkedSnap'
  BY <1>0 DEF RecInv, AskedByHolder, MidOwn, PlainPrefetch, ParkedSnap, OwnQuestion
<1>4. ASSUME NEW q \in Persisters, NEW u \in Turns, Persists(q, u)', ~isCont'[u],
             persist'[q] \in {"write", "retryWrite"}
      PROVE  OwnQuestion(psnap'[q], u)
  <2>1. Persists(q, u) /\ ~isCont[u]
    BY <1>0, <1>4 DEF Persists
  <2>2. CASE q # p
    <3>1. persist'[q] = persist[q] /\ psnap'[q] = psnap[q]
      BY <1>0, <2>2 DEF PersistRead, PersistFails
    <3> QED
      BY <1>4, <2>1, <3>1 DEF RecInv, AskedInPartial
  <2>3. CASE q = p
    <3>1. u = t
      BY <1>0, <2>1, <2>3, RegistryAssumption DEF Persists
    <3>2. psnap'[p] = records[SessionOf[t]]
      BY <1>0, <1>4, <2>3 DEF PersistRead, PersistFails
    <3>3. phase[t] \in Work
      BY <1>0 DEF Persists, FlightInv, CancellerWaits, Cancelling, Work, TaskLive
    <3> QED
      BY <2>1, <2>3, <3>1, <3>2, <3>3 DEF RecInv, AskedByHolder
  <2> QED
    BY <2>2, <2>3
<1>5. AskedInPartial'
  BY <1>4 DEF AskedInPartial
<1> QED
  BY <1>2, <1>3, <1>5 DEF RecInv

\* The partial record is written, unless the turn's own is there
\* (_persist_partial).
LEMMA RecPersistWrites ==
  ASSUME TypeInv, FlightInv, RecInv, NEW p \in Persisters, NEW t \in Turns,
         PersistWrite(p, t)
  PROVE  RecInv'
<1> DEFINE s == SessionOf[t]
           L == psnap[p]
           r == RecordOf(t, PartialStatus(p))
           R == AppendOrReplace(L, r)
<1>0. /\ UNCHANGED <<phase, isCont, why, mid, tsnap, psnap, cpc, ctgt, csnap>>
      /\ Persists(p, t) /\ persist[p] \in {"write", "retryWrite"}
      /\ s \in Sessions /\ records \in [Sessions -> Seq(Records)]
      /\ psnap \in [Persisters -> Seq(Records)] /\ persist \in [Persisters -> PersistStates]
      /\ phase \in [Turns -> Phases]
      /\ \A q \in Persisters : q # p => persist'[q] = persist[q]
      /\ persist'[p] \in {"done", "retryRead"}
  BY RegistryAssumption DEF PersistWrite, callerVars, TypeInv, TypeOK
<1>1. Onward
  BY <1>0 DEF Onward
<1>2. mid[t] = t /\ mid[t] # NoTurn
  BY <1>0 DEF TypeInv, PartialHasIdentity, RecInv, MidOwn
<1>3. /\ phase[t] \in Work \cap Wrote
      /\ PartialStatus(p) \in {"error", "cancelled"}
      /\ PartialStatus(p) = "cancelled" => why[t] = "user"
  BY <1>0, RegistryAssumption DEF Persists, FlightInv, CancellerWaits, Cancelling, Work,
     TaskLive, Wrote, PartialStatus
<1>4. L \in Seq(Records) /\ Sound(L) /\ Backed(L, phase, why)
  BY <1>0 DEF RecInv, ListsGood
<1>5. /\ r \in Records /\ r.mid = t /\ r.status = PartialStatus(p)
      /\ r.editable = ~isCont[t]
  <2>1. PartialStatus(p) \in Statuses
    BY <1>3 DEF Statuses
  <2> QED
    BY <1>2, <2>1, RecordOfTurn
<1>6. ~isCont[t] => OwnQuestion(L, t)
  BY <1>0 DEF RecInv, AskedInPartial
<1>7. records'[s] = records[s] \/ (records'[s] = R /\ ~Committed(L, t))
  <2>1. ~ReplacesParked(L, t)
    BY <1>4 DEF ReplacesParked, IsParked, Latest, Sound
  <2> QED
    BY <1>0, <1>2, <2>1 DEF PersistWrite
<1>8. \A x \in Sessions : x # s => records'[x] = records[x]
  BY <1>0 DEF PersistWrite
<1>9. records'[s] = records[s] \/ (GoodNext(records'[s]) /\ OwnQuestion(records'[s], t))
  <2> SUFFICES ASSUME records'[s] = R, ~Committed(L, t)
               PROVE  GoodNext(R) /\ OwnQuestion(R, t)
    BY <1>7
  <2>1. IsParked(L) => isCont[t]
    <3>1. IsParked(L) => Len(L) \in 1 .. Len(L)
      BY <1>4 DEF IsParked
    <3> QED
      BY <1>6, <3>1 DEF OwnQuestion, Committed, Latest
  <2>2. Backed(L, phase', why')
    BY <1>1, <1>4, StaysBacked DEF GoodNext
  <2>3. phase'[t] \in Wrote /\ (PartialStatus(p) = "cancelled" => why'[t] = "user")
    BY <1>0, <1>3
  <2> HIDE DEF L, r
  <2>a. /\ ~Committed(L, r.mid) /\ r.status # "awaiting_input"
        /\ IsParked(L) => ~r.editable
        /\ r.mid \in Turns => phase'[r.mid] \in Wrote
        /\ r.mid \in Turns /\ r.status = "cancelled" => r.v2 \/ why'[r.mid] = "user"
    BY <1>3, <1>5, <2>1, <2>3
  <2>4. LET Q == AppendOrReplace(L, r)
        IN  /\ Sound(Q) /\ Backed(Q, phase', why')
            /\ IsParked(Q) => Latest(Q).mid = r.mid
    BY <1>4, <1>5, <2>2, <2>a, AddedIsGood
  <2> QED
    BY <1>5, <2>4 DEF GoodNext, OwnQuestion
<1> HIDE DEF L, r, R
<1>10. ListsGood'
  <2>1. \A x \in Sessions : records'[x] = records[x] \/ GoodNext(records'[x])
    BY <1>8, <1>9
  <2> QED
    BY <1>0, <1>1, <2>1, ListsStep DEF RecInv
<1>11. AskedByHolder'
  <2>1. ~isCont[t] => OwnQuestion(records'[s], t)
    BY <1>3, <1>9 DEF RecInv, AskedByHolder
  <2>2. phase'[t] \notin {"rewrite", "graph", "failwrite"}
    BY <1>0, <1>3 DEF Wrote
  <2>3. \A u \in Turns : phase'[u] = phase[u] /\ isCont'[u] = isCont[u] /\ tsnap'[u] = tsnap[u]
    BY <1>0
  <2>4. phase[t] \in Work /\ isCont' = isCont
    BY <1>0, <1>3
  <2> QED
    BY <1>8, <2>1, <2>2, <2>3, <2>4, AskedFrame DEF RecInv
<1>12. MidOwn' /\ PlainPrefetch' /\ ParkedSnap'
  BY <1>0 DEF RecInv, MidOwn, PlainPrefetch, ParkedSnap
<1>13. AskedInPartial'
  BY <1>0 DEF RecInv, AskedInPartial, Persists
<1> QED
  BY <1>10, <1>11, <1>12, <1>13 DEF RecInv

\* Requests move, read transcripts and end turns.
LEMMA RecCallers ==
  ASSUME TypeInv, FlightInv, RecInv,
         \A t \in Turns : phase'[t] \in {phase[t], "final"},
         \A t \in Turns : why[t] = "user" => why'[t] = "user",
         UNCHANGED <<records, isCont, mid, tsnap>>,
         \A p \in Persisters : psnap'[p] \in {psnap[p], <<>>},
         \A c \in Callers :
           \/ csnap'[c] \in {csnap[c], <<>>}
           \/ \E s \in Sessions : csnap'[c] = records[s],
         \A c \in Callers : cpc'[c] \in {"unparkWrite", "acceptWrite"} =>
           \/ IsParked(csnap'[c])
           \/ cpc'[c] = cpc[c] /\ csnap'[c] = csnap[c],
         \A t \in Turns : persist'[t] = persist[t] /\ psnap'[t] = psnap[t],
         \A c \in Callers : cpc'[c] = "persist" =>
           \/ persist'[c] = "read"
           \/ /\ cpc[c] = "persist" /\ ctgt'[c] = ctgt[c]
              /\ persist'[c] = persist[c] /\ psnap'[c] = psnap[c]
  PROVE  RecInv'
<1>0. phase \in [Turns -> Phases]
  BY DEF TypeInv, TypeOK
<1>1. Onward
  BY DEF Onward, Wrote
<1>2. ListsGood'
  BY <1>1, ListsStep DEF RecInv
<1>3. AskedByHolder'
  BY DEF RecInv, AskedByHolder, OwnQuestion, Work, TaskLive
<1>4. AskedInPartial'
  <2> SUFFICES ASSUME NEW p \in Persisters, NEW t \in Turns, Persists(p, t)', ~isCont'[t],
                      persist'[p] \in {"write", "retryWrite"}
               PROVE  OwnQuestion(psnap'[p], t)
    BY DEF AskedInPartial, OwnQuestion
  <2>1. Persists(p, t) /\ persist'[p] = persist[p] /\ psnap'[p] = psnap[p] /\ ~isCont[t]
    BY DEF Persists
  <2> QED
    BY <2>1 DEF RecInv, AskedInPartial
<1>5. MidOwn' /\ PlainPrefetch' /\ ParkedSnap'
  BY DEF RecInv, MidOwn, PlainPrefetch, ParkedSnap
<1> QED
  BY <1>2, <1>3, <1>4, <1>5 DEF RecInv

\* A request settles the question it has read, or deletes the thread.
LEMMA RecCallerWrites ==
  ASSUME TypeInv, FlightInv, RecInv, NEW c \in Callers,
         UnparkWrite(c) \/ AcceptWrite(c) \/ DropThread(c)
  PROVE  RecInv'
<1> DEFINE s == csess[c]
<1>0. /\ UNCHANGED <<phase, why, isCont, mid, tsnap, persist, psnap>>
      /\ s \in Sessions /\ records \in [Sessions -> Seq(Records)]
      /\ csnap \in [Callers -> Seq(Records)] /\ cpc \in [Callers -> CallerStates]
      /\ \A d \in Callers : csnap'[d] \in {csnap[d], <<>>}
      /\ \A d \in Callers : d # c => csnap'[d] = csnap[d] /\ cpc'[d] = cpc[d] /\ ctgt'[d] = ctgt[d]
      /\ cpc'[c] \notin {"unparkWrite", "acceptWrite", "persist"}
      /\ \A x \in Sessions : x # s => records'[x] = records[x]
  <2>1. /\ UNCHANGED <<phase, why, isCont, mid, tsnap, persist, psnap>>
        /\ records \in [Sessions -> Seq(Records)]
        /\ csnap \in [Callers -> Seq(Records)] /\ cpc \in [Callers -> CallerStates]
        /\ ctgt \in [Callers -> Turns \cup {NoTurn}]
    BY DEF UnparkWrite, AcceptWrite, DropThread, turnVars, TypeInv, TypeOK
  <2>2. s \in Sessions
    BY DEF UnparkWrite, AcceptWrite, DropThread, TypeInv, CallerHasChat
  <2>3. \A x \in Sessions : x # s => records'[x] = records[x]
    BY <2>1 DEF UnparkWrite, AcceptWrite, DropThread
  <2>4. CASE UnparkWrite(c)
    BY <2>1, <2>2, <2>3, <2>4 DEF UnparkWrite, Returned
  <2>5. CASE AcceptWrite(c)
    BY <2>1, <2>2, <2>3, <2>5 DEF AcceptWrite
  <2>6. CASE DropThread(c)
    BY <2>1, <2>2, <2>3, <2>6 DEF DropThread
  <2> QED
    BY <2>4, <2>5, <2>6
<1>1. Onward
  BY <1>0 DEF Onward
<1>2. GoodNext(records'[s]) /\ ~IsParked(records'[s])
  <2>1. CASE DropThread(c)
    <3>1. records'[s] = <<>>
      BY <1>0, <2>1 DEF DropThread
    <3> QED
      BY <3>1, EmptyIsGood DEF GoodNext
  <2>2. CASE UnparkWrite(c) \/ AcceptWrite(c)
    <3> DEFINE L == csnap[c]
    <3>1. L \in Seq(Records) /\ Sound(L) /\ IsParked(L) /\ Backed(L, phase', why')
      <4>1. L \in Seq(Records) /\ Sound(L) /\ Backed(L, phase, why)
        BY <1>0 DEF RecInv, ListsGood
      <4>2. IsParked(L)
        BY <2>2 DEF RecInv, ParkedSnap, UnparkWrite, AcceptWrite
      <4> QED
        BY <1>1, <4>1, <4>2, StaysBacked DEF GoodNext
    <3>2. PICK st \in {"complete", "cancelled"} :
            records'[s] = ReplaceLatest(L, [Latest(L) EXCEPT !.status = st])
      BY <1>0, <2>2 DEF UnparkWrite, AcceptWrite
    <3> HIDE DEF L
    <3>3. LET R == ReplaceLatest(L, [Latest(L) EXCEPT !.status = st])
          IN  Sound(R) /\ Backed(R, phase', why') /\ ~IsParked(R)
      BY <3>1, SettledIsGood
    <3> QED
      BY <3>2, <3>3 DEF GoodNext
  <2> QED
    BY <2>1, <2>2
<1> HIDE DEF s
<1>3. ListsGood'
  <2>1. \A x \in Sessions : records'[x] = records[x] \/ GoodNext(records'[x])
    BY <1>0, <1>2
  <2> QED
    BY <1>0, <1>1, <2>1, ListsStep DEF RecInv
<1>4. AskedByHolder'
  <2>1. ASSUME NEW t \in Turns, OwnQuestion(records[SessionOf[t]], t)
        PROVE  OwnQuestion(records'[SessionOf[t]], t)
    BY <1>0, <1>2, <2>1, RegistryAssumption DEF OwnQuestion
  <2> QED
    BY <1>0, <2>1 DEF RecInv, AskedByHolder, OwnQuestion
<1>5. AskedInPartial'
  <2> SUFFICES ASSUME NEW p \in Persisters, NEW t \in Turns, Persists(p, t)', ~isCont'[t],
                      persist'[p] \in {"write", "retryWrite"}
               PROVE  OwnQuestion(psnap'[p], t)
    BY DEF AskedInPartial, OwnQuestion
  <2>1. Persists(p, t) /\ persist'[p] = persist[p] /\ psnap'[p] = psnap[p] /\ ~isCont[t]
    BY <1>0 DEF Persists
  <2> QED
    BY <2>1 DEF RecInv, AskedInPartial
<1>6. MidOwn' /\ PlainPrefetch' /\ ParkedSnap'
  BY <1>0 DEF RecInv, MidOwn, PlainPrefetch, ParkedSnap
<1> QED
  BY <1>3, <1>4, <1>5, <1>6 DEF RecInv

\* A chat is taken: by a start call, which has seen no pending question, or by
\* a continuation (start, start_continuation).
LEMMA RecTake ==
  ASSUME TypeInv, FlightInv, RecInv, NEW t \in Turns, NEW to \in {"prep", "spawned"},
         phase[t] = "new", phase' = [phase EXCEPT ![t] = to],
         isCont'[t] \/ ~IsParked(records[SessionOf[t]]),
         \A u \in Turns : u # t => isCont'[u] = isCont[u],
         UNCHANGED <<why, mid, tsnap, persist, psnap, records>>,
         \A c \in Callers : csnap'[c] \in {csnap[c], <<>>},
         \A c \in Callers : cpc'[c] # cpc[c] => cpc'[c] = "idle",
         \A c \in Callers : cpc'[c] = cpc[c] => csnap'[c] = csnap[c] /\ ctgt'[c] = ctgt[c]
  PROVE  RecInv'
<1>0. phase \in [Turns -> Phases]
  BY DEF TypeInv, TypeOK
<1>1. Onward
  BY <1>0 DEF Onward, Wrote
<1>2. ListsGood'
  BY <1>1, ListsStep DEF RecInv
<1>3. AskedByHolder'
  <2>1. /\ \A u \in Turns : u # t =>
             phase'[u] = phase[u] /\ isCont'[u] = isCont[u] /\ tsnap'[u] = tsnap[u]
        /\ phase'[t] = to
    BY <1>0
  <2>2. ~isCont'[t] => OwnQuestion(records'[SessionOf[t]], t)
    BY DEF OwnQuestion
  <2> QED
    BY <2>1, <2>2, AskedFrame DEF RecInv
<1>4. AskedInPartial'
  <2> SUFFICES ASSUME NEW p \in Persisters, NEW u \in Turns, Persists(p, u)', ~isCont'[u],
                      persist'[p] \in {"write", "retryWrite"}
               PROVE  OwnQuestion(psnap'[p], u)
    BY DEF AskedInPartial, OwnQuestion
  <2>1. Persists(p, u)
    BY <1>0 DEF Persists
  <2>2. u # t
    BY <2>1 DEF Persists, FlightInv, CancellerWaits, Cancelling, TaskLive
  <2> QED
    BY <2>1, <2>2 DEF RecInv, AskedInPartial
<1>5. MidOwn' /\ PlainPrefetch' /\ ParkedSnap'
  BY DEF RecInv, MidOwn, PlainPrefetch, ParkedSnap
<1> QED
  BY <1>2, <1>3, <1>4, <1>5 DEF RecInv

\* A step of a start call, of a task or of its hook.
LEMMA RecTurn ==
  ASSUME "late" \notin Ops, TypeInv, FlightInv, RecInv, NEW t \in Turns, TurnStep(t)
  PROVE  RecInv'
<1> USE DEF callerVars, ckptVars, turnVars
<1>0. /\ phase \in [Turns -> Phases] /\ tsnap \in [Turns -> Seq(Records)]
      /\ psnap \in [Persisters -> Seq(Records)] /\ persist \in [Persisters -> PersistStates]
      /\ mid \in [Turns -> MessageIds \cup {NoTurn}]
      /\ t \in Persisters /\ Callers \cap Turns = {} /\ Callers \subseteq Persisters
  BY RegistryAssumption DEF TypeInv, TypeOK, Persisters
<1>1. CASE Spawn(t) \/ EnsureSession(t) \/ RunFails(t) \/ ClearIntent(t) \/ FailureUnrecorded(t)
  <2>1. PICK to \in {"spawned", "input", "failing", "cleared", "failed"} :
          /\ phase[t] \in Work /\ phase' = [phase EXCEPT ![t] = to]
          /\ phase[t] \in Wrote => to \in Wrote
          /\ UNCHANGED <<why, records, csnap, tsnap, psnap, persist, isCont, mid, cpc, ctgt>>
    BY <1>1 DEF Spawn, EnsureSession, RunFails, ClearIntent, FailureUnrecorded, Goto, Work,
       TaskLive, Wrote
  <2>2. NoNewPartial /\ MidOwn'
    BY <1>0, <2>1 DEF NoNewPartial, RecInv, MidOwn
  <2> QED
    BY <2>1, <2>2, RecAdvance DEF Phases
<1>2. CASE EnterGraph(t) \/ FailureRead(t)
  <2>1. PICK to \in {"graph", "failwrite"} :
          /\ phase[t] \in Work \ Wrote /\ phase' = [phase EXCEPT ![t] = to]
          /\ tsnap' = [tsnap EXCEPT ![t] = records[SessionOf[t]]]
          /\ UNCHANGED <<why, records, csnap, psnap, persist, isCont, mid, cpc, ctgt>>
    BY <1>2 DEF EnterGraph, FailureRead, Goto, Work, TaskLive, Wrote
  <2>2. NoNewPartial /\ MidOwn'
    BY <1>0, <2>1 DEF NoNewPartial, RecInv, MidOwn
  <2>3. tsnap'[t] = records[SessionOf[t]] /\ \A u \in Turns : u # t => tsnap'[u] = tsnap[u]
    BY <1>0, <2>1
  <2> QED
    BY <2>1, <2>2, <2>3, RecAdvance DEF Phases
<1>3. CASE FirstStep(t) \/ Prefetch(t) \/ PrefetchFails(t)
  <2>1. PICK to \in {"meta", "prefetch", "failing"} :
          /\ phase[t] \in Work \ Wrote /\ phase' = [phase EXCEPT ![t] = to]
          /\ to = "prefetch" => ~isCont[t]
          /\ UNCHANGED <<why, records, csnap, tsnap, psnap, persist, isCont, cpc, ctgt>>
    BY <1>3 DEF FirstStep, Prefetch, PrefetchFails, Goto, Work, TaskLive, Wrote
  <2>2. MidOwn'
    <3>1. CASE FirstStep(t) \/ PrefetchFails(t)
      BY <1>0, <3>1 DEF FirstStep, PrefetchFails, RecInv, MidOwn
    <3>2. CASE Prefetch(t)
      <4>1. phase[t] = "prefetch"
        BY <3>2 DEF Prefetch, Goto
      <4>2. ~isCont[t]
        BY <4>1 DEF RecInv, PlainPrefetch
      <4>3. ~IsParked(records[SessionOf[t]])
        BY <2>1, <4>2, NothingPending
      <4> QED
        BY <1>0, <3>2, <4>3 DEF Prefetch, RecInv, MidOwn
    <3> QED
      BY <1>3, <3>1, <3>2
  <2>3. NoNewPartial
    BY <1>0, <2>1 DEF NoNewPartial
  <2> QED
    BY <2>1, <2>2, <2>3, RecAdvance DEF Phases
<1>4. CASE Expire(t)
  <2>1. /\ phase[t] \in Work /\ phase' = [phase EXCEPT ![t] = "expired"]
        /\ persist' = [persist EXCEPT ![t] = "read"]
        /\ UNCHANGED <<why, records, csnap, tsnap, psnap, isCont, mid, cpc, ctgt>>
    BY <1>4 DEF Expire, Work
  <2>2. NoNewPartial /\ MidOwn'
    BY <1>0, <2>1 DEF NoNewPartial, RecInv, MidOwn
  <2> QED
    BY <2>1, <2>2, RecAdvance DEF Phases, Wrote
<1>5. CASE TaskCancelled(t) \/ Reject(t) \/ ErrorWithoutRecord(t) \/ RunDone(t) \/ RunError(t)
           \/ ExpireDone(t)
  <2>1. PICK to \in {"ended", "rejected", "final"} :
          /\ phase[t] \in Work /\ phase' = [phase EXCEPT ![t] = to]
          /\ to = "rejected" => phase[t] \notin Wrote
          /\ tsnap' = [tsnap EXCEPT ![t] = <<>>]
          /\ \/ UNCHANGED <<psnap, persist>>
             \/ /\ psnap' = [psnap EXCEPT ![t] = <<>>]
                /\ persist' = [persist EXCEPT ![t] = "idle"]
          /\ UNCHANGED <<why, records, csnap, isCont, mid, cpc, ctgt>>
    <3>1. CASE TaskCancelled(t)
      BY <3>1 DEF TaskCancelled, DropLocals, Work
    <3>2. CASE Reject(t)
      BY <3>2 DEF Reject, ReleaseClaim, Work, Wrote
    <3>3. CASE ErrorWithoutRecord(t) \/ RunDone(t) \/ RunError(t) \/ ExpireDone(t)
      <4>1. PICK e \in Terminals : phase[t] \in TaskLive /\ DriveEnds(t, e)
        BY <3>3 DEF ErrorWithoutRecord, RunDone, RunError, ExpireDone, Terminals, TaskLive
      <4> QED
        BY <4>1 DEF DriveEnds, Finalize, DropLocals, Work
    <3> QED
      BY <1>5, <3>1, <3>2, <3>3
  <2>a. /\ \A p \in Persisters : p # t => persist'[p] = persist[p] /\ psnap'[p] = psnap[p]
        /\ phase'[t] = to /\ \A u \in Turns : u # t => phase'[u] = phase[u]
    BY <1>0, <2>1
  <2>b. \A c \in Callers : persist'[c] = persist[c] /\ psnap'[c] = psnap[c]
    BY <1>0, <2>a
  <2>c. \A u \in Turns : phase'[u] = "expired" =>
          phase[u] = "expired" /\ persist'[u] = persist[u] /\ psnap'[u] = psnap[u]
    BY <1>0, <2>a DEF Persisters
  <2>d. NoNewPartial
    BY <2>1, <2>b, <2>c DEF NoNewPartial
  <2>2. NoNewPartial /\ MidOwn'
    BY <2>1, <2>d DEF RecInv, MidOwn
  <2>3. /\ tsnap'[t] = <<>> /\ \A u \in Turns : u # t => tsnap'[u] = tsnap[u]
        /\ \A p \in Persisters : psnap'[p] \in {psnap[p], <<>>}
    BY <1>0, <2>1
  <2> QED
    BY <2>1, <2>2, <2>3, RecAdvance DEF Phases, Wrote
<1>6. CASE HookDone(t)
  <2>1. UNCHANGED <<phase, why, isCont, mid, tsnap, persist, psnap, records, cpc, ctgt, csnap>>
    BY <1>6 DEF HookDone
  <2> QED
    BY <2>1, RecCallers
<1>7. CASE PersistStep(t, t)
  BY <1>0, <1>7, RecPersistReads, RecPersistWrites DEF PersistStep
<1>8. CASE RewriteRead(t) \/ RewriteWrite(t) \/ FailureWrite(t)
           \/ \E st \in {"complete", "awaiting_input"} : NodeCommits(t, st)
  BY <1>8, RecRewriteRead, RecTurnWrites
<1> QED
  BY <1>1, <1>2, <1>3, <1>4, <1>5, <1>6, <1>7, <1>8
     DEF TurnStep, StartStep, RunStep, StopStep

\* cancel or aclose marks a turn, or goes to look for a parked question.
LEMMA RecCancelOrUnpark ==
  ASSUME TypeInv, FlightInv, RecInv, NEW c \in Callers, NEW s \in Sessions, NEW cause,
         CancelOrUnpark(c, s, cause), ~Cancelling(c)
  PROVE  RecInv'
<1>0. /\ why \in [Turns -> {"none", "user", "shutdown"}]
      /\ cpc \in [Callers -> CallerStates] /\ ctgt \in [Callers -> Turns \cup {NoTurn}]
  BY DEF TypeInv, TypeOK
<1>1. UNCHANGED <<phase, isCont, mid, tsnap, persist, psnap, records, csnap>>
  BY DEF CancelOrUnpark, ckptVars
<1>2. \A t \in Turns : why[t] = "user" => why'[t] = "user"
  BY <1>0 DEF CancelOrUnpark, Active
<1>3. /\ cpc'[c] \in {"join", "unparkRead"}
      /\ \A d \in Callers : d # c => cpc'[d] = cpc[d] /\ ctgt'[d] = ctgt[d]
  BY <1>0 DEF CancelOrUnpark
<1> QED
  BY <1>1, <1>2, <1>3, RecCallers

\* A step of a request that is under way.
LEMMA RecCallerStep ==
  ASSUME TypeInv, FlightInv, RecInv, NEW c \in Callers, CallerStep(c)
  PROVE  RecInv'
<1> USE DEF callerVars, ckptVars, turnVars
<1>0. /\ phase \in [Turns -> Phases] /\ why \in [Turns -> {"none", "user", "shutdown"}]
      /\ csnap \in [Callers -> Seq(Records)] /\ cpc \in [Callers -> CallerStates]
      /\ psnap \in [Persisters -> Seq(Records)] /\ persist \in [Persisters -> PersistStates]
      /\ ctgt \in [Callers -> Turns \cup {NoTurn}]
      /\ Callers \cap Turns = {} /\ Persisters = Turns \cup Callers
  BY RegistryAssumption DEF TypeInv, TypeOK, Persisters
<1>1. CASE Joined(c)
  <2>1. /\ UNCHANGED <<phase, why, records, isCont, mid, tsnap, psnap, csnap, ctgt>>
        /\ cpc' = [cpc EXCEPT ![c] = "persist"] /\ persist' = [persist EXCEPT ![c] = "read"]
    BY <1>1 DEF Joined
  <2>2. \A t \in Turns : persist'[t] = persist[t]
    BY <1>0, <2>1
  <2> QED
    BY <1>0, <2>1, <2>2, RecCallers
<1>2. CASE CancelDone(c)
  <2>1. /\ UNCHANGED <<why, records, isCont, mid, tsnap>>
        /\ \A t \in Turns : phase'[t] \in {phase[t], "final"}
    BY <1>0, <1>2 DEF CancelDone, Finalize
  <2>2. /\ persist' = [persist EXCEPT ![c] = "idle"] /\ psnap' = [psnap EXCEPT ![c] = <<>>]
        /\ csnap' = [csnap EXCEPT ![c] = <<>>] /\ ctgt' = [ctgt EXCEPT ![c] = NoTurn]
        /\ cpc'[c] \in {"drop", "drain", "idle"}
        /\ \A d \in Callers : d # c => cpc'[d] = cpc[d]
    BY <1>0, <1>2 DEF CancelDone, Returned
  <2>3. /\ \A t \in Turns : persist'[t] = persist[t] /\ psnap'[t] = psnap[t]
        /\ \A d \in Callers : d # c =>
             persist'[d] = persist[d] /\ psnap'[d] = psnap[d] /\ ctgt'[d] = ctgt[d] /\ csnap'[d] = csnap[d]
        /\ \A p \in Persisters : psnap'[p] \in {psnap[p], <<>>}
        /\ csnap'[c] = <<>>
    BY <1>0, <2>2
  <2> QED
    BY <2>1, <2>2, <2>3, RecCallers
<1>3. CASE \E t \in Turns : PersistStep(c, t)
  BY <1>0, <1>3, RecPersistReads, RecPersistWrites DEF PersistStep
<1>4. CASE UnparkWrite(c) \/ AcceptWrite(c) \/ DropThread(c)
  BY <1>4, RecCallerWrites
<1>5. CASE UnparkRead(c) \/ AcceptRead(c)
  <2>1. /\ UNCHANGED <<phase, why, records, isCont, mid, tsnap, psnap, persist, ctgt>>
        /\ cpc[c] \in {"unparkRead", "acceptRead"}
        /\ csnap' = [csnap EXCEPT ![c] = records[csess[c]]]
        /\ \A d \in Callers : d # c => cpc'[d] = cpc[d]
        /\ cpc'[c] \in {"unparkWrite", "acceptWrite"}
    BY <1>0, <1>5 DEF UnparkRead, AcceptRead
  <2>2. IsParked(records[csess[c]])
    BY <1>5 DEF UnparkRead, AcceptRead, PendingV2
  <2>3. csess[c] \in Sessions
    BY <2>1 DEF TypeInv, CallerHasChat
  <2>4. csnap'[c] = records[csess[c]] /\ \A d \in Callers : d # c => csnap'[d] = csnap[d]
    BY <1>0, <2>1
  <2>5. \A d \in Callers : \/ csnap'[d] \in {csnap[d], <<>>}
                           \/ \E s \in Sessions : csnap'[d] = records[s]
    BY <2>3, <2>4
  <2>6. \A d \in Callers : cpc'[d] \in {"unparkWrite", "acceptWrite"} =>
          IsParked(csnap'[d]) \/ (cpc'[d] = cpc[d] /\ csnap'[d] = csnap[d])
    BY <2>1, <2>2, <2>4
  <2>7. \A d \in Callers : cpc'[d] = "persist" => cpc[d] = "persist"
    BY <2>1
  <2> QED
    BY <2>1, <2>5, <2>6, <2>7, RecCallers
<1>6. CASE UnparkIdle(c) \/ DropFails(c) \/ DropRow(c) \/ AcceptFails(c) \/ ContinueFails(c)
           \/ DrainDone(c)
  <2>1. /\ UNCHANGED <<phase, why, records, isCont, mid, tsnap, psnap, persist>>
        /\ Idle(c) \/ Returned(c)
    BY <1>6 DEF UnparkIdle, DropFails, DropRow, AcceptFails, ContinueFails, DrainDone,
       ReleaseAccept
  <2>2. /\ csnap' = [csnap EXCEPT ![c] = <<>>] /\ ctgt' = [ctgt EXCEPT ![c] = NoTurn]
        /\ cpc'[c] \in {"drop", "drain", "idle"}
        /\ \A d \in Callers : d # c => cpc'[d] = cpc[d]
    BY <1>0, <2>1 DEF Idle, Returned
  <2>3. csnap'[c] = <<>> /\ \A d \in Callers : d # c => csnap'[d] = csnap[d] /\ ctgt'[d] = ctgt[d]
    BY <1>0, <2>2
  <2> QED
    BY <2>1, <2>2, <2>3, RecCallers
<1>7. CASE \E t \in Turns : Continue(c, t)
  <2>1. PICK t \in Turns : Continue(c, t)
    BY <1>7
  <2>2. /\ phase[t] = "new" /\ phase' = [phase EXCEPT ![t] = "spawned"]
        /\ isCont' = [isCont EXCEPT ![t] = TRUE] /\ isCont \in [Turns -> BOOLEAN]
        /\ UNCHANGED <<why, mid, tsnap, persist, psnap, records>>
        /\ cpc' = [cpc EXCEPT ![c] = "idle"]
        /\ csnap' = [csnap EXCEPT ![c] = <<>>] /\ ctgt' = [ctgt EXCEPT ![c] = NoTurn]
        /\ cpc[c] = "acceptResume"
    BY <2>1 DEF Continue, ReleaseAccept, Idle, TypeInv, TypeOK
  <2>3. isCont'[t] /\ \A u \in Turns : u # t => isCont'[u] = isCont[u]
    BY <2>2
  <2>4. /\ \A d \in Callers : csnap'[d] \in {csnap[d], <<>>}
        /\ \A d \in Callers : cpc'[d] # cpc[d] => cpc'[d] = "idle"
        /\ \A d \in Callers : cpc'[d] = cpc[d] => csnap'[d] = csnap[d] /\ ctgt'[d] = ctgt[d]
    BY <1>0, <2>2
  <2> QED
    BY <2>2, <2>3, <2>4, RecTake
<1>8. CASE \E s \in Sessions : DrainNext(c, s)
  <2>1. PICK s \in Sessions : CancelOrUnpark(c, s, "shutdown") /\ ~Cancelling(c)
    BY <1>8 DEF DrainNext, Cancelling
  <2> QED
    BY <1>0, <2>1, RecCancelOrUnpark
<1> QED
  BY <1>1, <1>2, <1>3, <1>4, <1>5, <1>6, <1>7, <1>8 DEF CallerStep

\* A request that arrives.  A plain message is not taken while a question is
\* pending (the route sends it to accept_clarification).
LEMMA RecRequest ==
  ASSUME "stale" \notin Ops, TypeInv, FlightInv, RecInv, Request
  PROVE  RecInv'
<1> USE DEF callerVars, ckptVars, turnVars
<1>0. /\ phase \in [Turns -> Phases] /\ cpc \in [Callers -> CallerStates]
      /\ why \in [Turns -> {"none", "user", "shutdown"}]
  BY DEF TypeInv, TypeOK
<1>1. CASE \E t \in Turns, goal \in BOOLEAN : Claim(t, goal)
  <2>1. PICK t \in Turns, goal \in BOOLEAN : Claim(t, goal)
    BY <1>1
  <2>2. /\ phase[t] = "new" /\ phase' = [phase EXCEPT ![t] = "prep"]
        /\ ~PendingV2(records[SessionOf[t]])
        /\ UNCHANGED <<why, mid, tsnap, persist, psnap, records, isCont, csnap, cpc, ctgt>>
    BY <2>1 DEF Claim
  <2>3. ~IsParked(records[SessionOf[t]])
    <3>1. Sound(records[SessionOf[t]]) /\ records[SessionOf[t]] \in Seq(Records)
      BY RegistryAssumption DEF RecInv, ListsGood, TypeInv, TypeOK
    <3> QED
      BY <2>2, <3>1 DEF PendingV2, IsParked, Latest, Sound
  <2> QED
    BY <2>2, <2>3, RecTake
<1>2. CASE \E c \in Callers, s \in Sessions : AcceptCall(c, s)
  <2>1. PICK c \in Callers : /\ cpc' = [cpc EXCEPT ![c] = "acceptRead"]
                             /\ UNCHANGED <<turnVars, ckptVars, ctgt, csnap>>
    BY <1>2 DEF AcceptCall
  <2>2. \A d \in Callers : cpc'[d] = cpc[d] \/ cpc'[d] = "acceptRead"
    BY <1>0, <2>1
  <2> QED
    BY <2>1, <2>2, RecCallers
<1>3. CASE \E c \in Callers, s \in Sessions, kind \in {"cancel", "delete"} :
             CancelCall(c, s, kind)
  <2>1. PICK c \in Callers, s \in Sessions : CancelOrUnpark(c, s, "user") /\ ~Cancelling(c)
    BY <1>3 DEF CancelCall, Cancelling
  <2> QED
    BY <2>1, RecCancelOrUnpark
<1>4. CASE \E c \in Callers : DrainBegin(c)
  <2>1. PICK c \in Callers : /\ cpc' = [cpc EXCEPT ![c] = "drain"]
                             /\ UNCHANGED <<turnVars, ckptVars, ctgt, csnap>>
    BY <1>4 DEF DrainBegin
  <2>2. \A d \in Callers : cpc'[d] = cpc[d] \/ cpc'[d] = "drain"
    BY <1>0, <2>1
  <2> QED
    BY <2>1, <2>2, RecCallers
<1> QED
  BY <1>1, <1>2, <1>3, <1>4 DEF Request

\* The invariant RecInv, where it says what the theorem needs.
LEMMA RecMeans ==
  ASSUME RecInv
  PROVE  RecordsHonest
<1>1. OneRecordPerMessage
  BY DEF RecInv, ListsGood, Sound, OneRecordPerMessage
<1>2. CancelledByStudent
  BY DEF RecInv, ListsGood, Backed, CancelledByStudent
<1> QED
  BY <1>1, <1>2 DEF RecordsHonest

LEMMA RecInit ==
  ASSUME CleanStart, Init
  PROVE  RecInv
<1>1. ListsGood
  <2>1. \A s \in Sessions : Sound(records[s]) /\ Backed(records[s], phase, why)
    BY DEF CleanStart, Init, Backed
  <2> QED
    BY <2>1, EmptyIsGood DEF Init, ListsGood
<1> QED
  BY <1>1 DEF Init, RecInv, MidOwn, PlainPrefetch, AskedByHolder, AskedInPartial, ParkedSnap,
     Work, TaskLive, Persists

\* The transcript is honest, whatever raced: the node's commit, the error
\* record, the watchdog's or a canceller's partial record, an answer, a let-go
\* question, an edit and the deletion of the thread (append_or_replace,
\* _persist_partial, _unpark_if_parked, accept_clarification,
\* _rewrite_history).  It is so for every transcript an earlier process of this
\* release can have left, where no text answer is taken for a plain message and
\* no run fails after its commit: the three ways in which one message can get
\* two records.
THEOREM TranscriptsAreHonest ==
  ASSUME "stale" \notin Ops, "late" \notin Ops, CleanStart
  PROVE  Spec => []RecordsHonest
<1>1. Init => RecInv
  BY RecInit
<1>2. TypeInv /\ FlightInv /\ RecInv /\ [Next]_vars => RecInv'
  <2> SUFFICES ASSUME TypeInv, FlightInv, RecInv, [Next]_vars PROVE RecInv'
    OBVIOUS
  <2>1. CASE UNCHANGED vars
    <3>1. UNCHANGED <<phase, why, isCont, mid, tsnap, persist, psnap, records, cpc, ctgt, csnap>>
      BY <2>1 DEF vars, turnVars, ckptVars, callerVars
    <3> QED
      BY <3>1, RecCallers
  <2> QED
    BY <2>1, RecTurn, RecCallerStep, RecRequest DEF Next
<1>3. RecInv => RecordsHonest
  BY RecMeans
<1> QED
  BY <1>1, <1>2, <1>3, Flight, PTL DEF Spec

(***************************************************************************)
(* No update is lost.  Where nobody stops a turn or deletes a chat, no     *)
(* text answer is taken for a plain message and no run fails after its     *)
(* commit, a list that somebody is about to write back is the durable one, *)
(* or the write is skipped.  Here a chat may come with a question of the   *)
(* previous release: the turn that resumes it replaces its record.         *)
(***************************************************************************)
\* Nobody lets go of a question behind a turn's back (the requests that do are
\* cancel, delete and a text answer that was taken for a plain message), and no
\* run fails after its commit.
NothingStale == Ops \cap {"stale", "late", "cancel", "delete"} = {}

\* One record per message; no message of the student's follows a question of
\* this release; a question of a turn of this process is of this release.
SoundQ(L) ==
  /\ \A i, j \in 1 .. Len(L) : L[i].mid = L[j].mid => i = j
  /\ \A i \in 1 .. Len(L) - 1 :
       L[i].status = "awaiting_input" /\ L[i].v2 => ~L[i + 1].editable
  /\ \A i \in 1 .. Len(L) :
       L[i].mid \in Turns /\ L[i].status = "awaiting_input" => L[i].v2

\* Records of turns are of turns (in phases ph) that may have written one.
Written(L, ph) == \A i \in 1 .. Len(L) : L[i].mid \in Turns => ph[L[i].mid] \in Wrote

\* The transcripts left by an earlier process, questions of the previous
\* release included.
SoundStart ==
  \A L \in InitRecords : SoundQ(L) /\ \A i \in 1 .. Len(L) : L[i].mid \notin Turns

FreshChat(s) == SoundQ(records[s]) /\ Written(records[s], phase)

\* The phases before a turn knows its identity.
Anonymous == {"new", "prep", "rewrite", "spawned", "prefetch"}

\* L cut before a message of the student's.
IsCut(S, L) == \E i \in 1 .. Len(L) : L[i].editable /\ S = SubSeq(L, 1, i - 1)

\* A turn at work: what it read for its next write is what is there; a pending
\* question is its own; and it resumes a question only while it is pending.
FreshTurn(t) ==
  LET L == records[SessionOf[t]]
  IN  /\ phase[t] = "rewrite" => IsCut(tsnap[t], L)
      /\ phase[t] \in {"graph", "failwrite"} => tsnap[t] = L
      /\ phase[t] \in Work /\ ~isCont[t] /\ PendingV2(L) =>
           Latest(L).mid = mid[t] /\ phase[t] \in Wrote
      /\ phase[t] \in Work /\ isCont[t] => claim[SessionOf[t]] = NoCaller
      /\ phase[t] \in Anonymous => mid[t] = NoTurn
      /\ phase[t] \in Anonymous \ {"spawned"} => ~isCont[t]
      /\ \/ mid[t] \in {NoTurn, t}
         \/ /\ mid[t] \notin Turns /\ ~isCont[t]
            /\ phase[t] \in Work \ Wrote => ReplacesParked(L, mid[t])

\* The write of a partial record is skipped (already_committed).
SkipsWrite(L, m) == Committed(L, m) /\ ~ReplacesParked(L, m)

FreshPartial(p, t) ==
  Persists(p, t) /\ persist[p] \in {"write", "retryWrite"} =>
    psnap[p] = records[SessionOf[t]] \/ SkipsWrite(psnap[p], mid[t])

\* A request accepts an answer under the clarify claim; only aclose lets go of
\* questions, and only where no turn is.
FreshCaller(c) ==
  /\ ckind[c] \notin {"cancel", "delete"} /\ cpc[c] \notin {"drop", "dropRow"}
  /\ cpc[c] \in {"acceptRead", "acceptWrite", "acceptResume"} => claim[csess[c]] = c
  /\ cpc[c] = "acceptWrite" => csnap[c] = records[csess[c]] /\ PendingV2(csnap[c])
  /\ cpc[c] \in {"unparkRead", "unparkWrite"} => stopping # "no" /\ turns[csess[c]] = NoTurn
  /\ cpc[c] = "unparkWrite" => csnap[c] = records[csess[c]] /\ IsParked(csnap[c])

FreshInv ==
  /\ \A s \in Sessions : FreshChat(s)
  /\ \A t \in Turns : FreshTurn(t)
  /\ \A p \in Persisters, t \in Turns : FreshPartial(p, t)
  /\ \A c \in Callers : FreshCaller(c)

(***************************************************************************)
(* What is true of the lists the writers build, as above.                  *)
(***************************************************************************)
\* What is settled in L is in R, at its place.
KeepsSettled(L, R) ==
  \A i \in 1 .. Len(L) : L[i].status # "awaiting_input" =>
    i <= Len(R) /\ R[i] = L[i]

\* A cut history (_rewrite_history) ends in no question of this release.
LEMMA CutIsSoundQ ==
  ASSUME NEW L \in Seq(Records), NEW ph, SoundQ(L), Written(L, ph),
         NEW P, IsCut(P, L)
  PROVE  P \in Seq(Records) /\ SoundQ(P) /\ Written(P, ph) /\ ~PendingV2(P)
<1>0. PICK i \in 1 .. Len(L) : L[i].editable /\ P = SubSeq(L, 1, i - 1)
  BY DEF IsCut
<1>1. /\ P \in Seq(Records) /\ Len(P) = i - 1
      /\ \A k \in 1 .. Len(P) : P[k] = L[k] /\ k \in 1 .. Len(L)
      /\ i \in Nat /\ i >= 1 /\ i <= Len(L) /\ Len(L) \in Nat
  BY <1>0
<1>2. SoundQ(P)
  <2>1. ASSUME NEW k \in 1 .. Len(P) - 1
        PROVE  /\ P[k] = L[k] /\ P[k + 1] = L[k + 1] /\ k \in 1 .. Len(L) - 1
    BY <1>1
  <2>2. \A k, j \in 1 .. Len(P) : P[k].mid = P[j].mid => k = j
    BY <1>1 DEF SoundQ
  <2>3. \A k \in 1 .. Len(P) : P[k].mid \in Turns /\ P[k].status = "awaiting_input" => P[k].v2
    BY <1>1 DEF SoundQ
  <2>4. \A k \in 1 .. Len(P) - 1 :
          P[k].status = "awaiting_input" /\ P[k].v2 => ~P[k + 1].editable
    BY <2>1 DEF SoundQ
  <2> QED
    BY <2>2, <2>3, <2>4 DEF SoundQ
<1>3. Written(P, ph)
  BY <1>1 DEF Written
<1>4. ~PendingV2(P)
  <2>1. CASE i = 1
    BY <1>1, <2>1 DEF IsParked, PendingV2
  <2>2. CASE i # 1
    <3>1. i - 1 \in 1 .. Len(L) - 1 /\ (i - 1) + 1 = i /\ i - 1 \in 1 .. Len(P)
      BY <1>1, <2>2
    <3>2. ~(L[i - 1].status = "awaiting_input" /\ L[i - 1].v2)
      BY <1>0, <3>1 DEF SoundQ
    <3> QED
      BY <1>1, <3>1, <3>2 DEF IsParked, Latest, PendingV2
  <2> QED
    BY <2>1, <2>2
<1> QED
  BY <1>1, <1>2, <1>3, <1>4

\* Replacing a pending record by one of the same message.
LEMMA ReplacedIsSoundQ ==
  ASSUME NEW L \in Seq(Records), NEW ph, SoundQ(L), Written(L, ph), IsParked(L),
         NEW r \in Records, r.mid = Latest(L).mid,
         r.editable => Latest(L).editable,
         r.status = "awaiting_input" => r.v2
  PROVE  LET R == ReplaceLatest(L, r)
         IN  /\ SoundQ(R) /\ Written(R, ph) /\ KeepsSettled(L, R)
             /\ R # <<>> /\ Latest(R) = r /\ Len(R) = Len(L)
             /\ \A i \in 1 .. Len(L) - 1 : R[i] = L[i]
<1> DEFINE n == Len(L)
           R == ReplaceLatest(L, r)
<1>1. n \in Nat /\ n >= 1 /\ n \in 1 .. n /\ L[n] \in Records
  BY DEF IsParked
<1>2. /\ R \in Seq(Records) /\ Len(R) = n /\ R[n] = r
      /\ \A i \in 1 .. n : i # n => R[i] = L[i]
  BY <1>1 DEF ReplaceLatest
<1>3. R # <<>> /\ Latest(R) = r
  BY <1>1, <1>2 DEF Latest
<1>4. Latest(L) = L[n] /\ L[n].status = "awaiting_input"
  BY DEF IsParked, Latest
<1>e. r.editable => L[n].editable
  BY <1>4
<1> HIDE DEF R
<1>5. \A i \in 1 .. n : R[i].mid = L[i].mid
  BY <1>2, <1>4
<1>6. SoundQ(R)
  <2>1. \A i, j \in 1 .. Len(R) : R[i].mid = R[j].mid => i = j
    BY <1>2, <1>5 DEF SoundQ
  <2>2. \A i \in 1 .. Len(R) : R[i].mid \in Turns /\ R[i].status = "awaiting_input" => R[i].v2
    BY <1>2 DEF SoundQ
  <2>3. ASSUME NEW i \in 1 .. Len(R) - 1, R[i].status = "awaiting_input", R[i].v2
        PROVE  ~R[i + 1].editable
    <3>1. i \in 1 .. n /\ i # n /\ i + 1 \in 1 .. n /\ i \in 1 .. n - 1
      BY <1>1, <1>2
    <3>2. ~L[i + 1].editable
      BY <1>2, <2>3, <3>1 DEF SoundQ
    <3> QED
      BY <1>2, <1>e, <3>1, <3>2
  <2> QED
    BY <2>1, <2>2, <2>3 DEF SoundQ
<1>7. Written(R, ph)
  BY <1>2, <1>5 DEF Written
<1>8. KeepsSettled(L, R)
  BY <1>1, <1>2, <1>4 DEF KeepsSettled
<1>9. \A i \in 1 .. n - 1 : R[i] = L[i]
  BY <1>1, <1>2
<1> QED
  BY <1>2, <1>3, <1>6, <1>7, <1>8, <1>9 DEF R

\* Adding the record of a turn, which is not in the list yet or resumes the
\* pending one (append_or_replace).
LEMMA AddedIsSoundQ ==
  ASSUME NEW L \in Seq(Records), NEW ph, SoundQ(L), Written(L, ph), NEW r \in Records,
         ~SkipsWrite(L, r.mid),
         r.editable => r.mid \in Turns /\ ~PendingV2(L),
         r.status = "awaiting_input" => r.v2,
         r.mid \in Turns => ph[r.mid] \in Wrote
  PROVE  LET R == AppendOrReplace(L, r)
         IN  /\ SoundQ(R) /\ Written(R, ph) /\ KeepsSettled(L, R)
             /\ R # <<>> /\ Latest(R) = r
<1> DEFINE n == Len(L)
           R == Append(L, r)
<1>1. CASE ReplacesParked(L, r.mid)
  <2>1. IsParked(L) /\ r.mid = Latest(L).mid /\ ~Latest(L).v2
    BY <1>1 DEF ReplacesParked
  <2>2. AppendOrReplace(L, r) = ReplaceLatest(L, r)
    BY <2>1 DEF AppendOrReplace
  <2>3. r.mid \notin Turns
    BY <2>1 DEF SoundQ, IsParked, Latest
  <2> QED
    BY <2>1, <2>2, <2>3, ReplacedIsSoundQ
<1>2. CASE ~ReplacesParked(L, r.mid)
  <2>1. ~Committed(L, r.mid)
    BY <1>2 DEF SkipsWrite
  <2>2. AppendOrReplace(L, r) = R
    BY <1>2 DEF ReplacesParked, AppendOrReplace
  <2>3. n \in Nat
    OBVIOUS
  <2>4. /\ R \in Seq(Records) /\ Len(R) = n + 1 /\ R[n + 1] = r /\ R # <<>> /\ Latest(R) = r
        /\ \A i \in 1 .. n : R[i] = L[i]
    BY DEF Latest
  <2>5. \A i \in 1 .. n : L[i].mid # r.mid
    BY <2>1 DEF Committed
  <2> HIDE DEF R
  <2>6. \A i \in 1 .. n + 1 : i \in 1 .. n \/ i = n + 1
    BY <2>3
  <2>7. SoundQ(R)
    <3>1. \A i, j \in 1 .. Len(R) : R[i].mid = R[j].mid => i = j
      BY <2>3, <2>4, <2>5, <2>6 DEF SoundQ
    <3>2. \A i \in 1 .. Len(R) : R[i].mid \in Turns /\ R[i].status = "awaiting_input" => R[i].v2
      BY <2>4, <2>6 DEF SoundQ
    <3>3. ASSUME NEW i \in 1 .. Len(R) - 1, R[i].status = "awaiting_input", R[i].v2
          PROVE  ~R[i + 1].editable
      <4>1. i \in 1 .. n /\ R[i] = L[i]
        BY <2>3, <2>4
      <4>2. CASE i = n
        <5>1. PendingV2(L)
          BY <2>3, <3>3, <4>1, <4>2 DEF PendingV2, IsParked, Latest
        <5> QED
          BY <2>4, <4>2, <5>1
      <4>3. CASE i # n
        <5>1. i \in 1 .. n - 1 /\ i + 1 \in 1 .. n
          BY <2>3, <4>1, <4>3
        <5> QED
          BY <2>4, <3>3, <4>1, <5>1 DEF SoundQ
      <4> QED
        BY <4>2, <4>3
    <3> QED
      BY <3>1, <3>2, <3>3 DEF SoundQ
  <2>8. Written(R, ph)
    BY <2>4, <2>6 DEF Written
  <2>9. KeepsSettled(L, R)
    BY <2>3, <2>4 DEF KeepsSettled
  <2> QED
    BY <2>2, <2>4, <2>7, <2>8, <2>9
<1> QED
  BY <1>1, <1>2

\* Settling the pending question (_unpark_if_parked, accept_clarification).
LEMMA SettledIsSoundQ ==
  ASSUME NEW L \in Seq(Records), NEW ph, SoundQ(L), Written(L, ph), IsParked(L),
         NEW st \in {"complete", "cancelled"}
  PROVE  LET R == ReplaceLatest(L, [Latest(L) EXCEPT !.status = st])
         IN  /\ SoundQ(R) /\ Written(R, ph) /\ KeepsSettled(L, R) /\ ~IsParked(R)
             /\ R # <<>> /\ Len(R) = Len(L) /\ Latest(R).mid = Latest(L).mid
             /\ Latest(R).v2 = Latest(L).v2 /\ Latest(R).status = st
             /\ \A i \in 1 .. Len(L) - 1 : R[i] = L[i]
<1> DEFINE r == [Latest(L) EXCEPT !.status = st]
<1>1. Latest(L) \in Records
  BY DEF IsParked, Latest
<1>2. /\ r \in Records /\ r.mid = Latest(L).mid /\ r.editable = Latest(L).editable
      /\ r.status = st /\ r.v2 = Latest(L).v2 /\ st # "awaiting_input"
  BY <1>1 DEF Records, Statuses
<1> HIDE DEF r
<1>3. LET R == ReplaceLatest(L, r)
      IN  /\ SoundQ(R) /\ Written(R, ph) /\ KeepsSettled(L, R)
          /\ R # <<>> /\ Latest(R) = r /\ Len(R) = Len(L)
          /\ \A i \in 1 .. Len(L) - 1 : R[i] = L[i]
  BY <1>2, ReplacedIsSoundQ
<1>4. ~IsParked(ReplaceLatest(L, r))
  BY <1>2, <1>3 DEF IsParked
<1> QED
  BY <1>2, <1>3, <1>4 DEF r

(***************************************************************************)
(* The kinds of steps.                                                     *)
(***************************************************************************)
\* A step loses no update if what it leaves of each transcript keeps what was
\* settled there, an edit apart.
LEMMA KeptByAll ==
  ASSUME TypeInv,
         \A s \in Sessions : \/ records'[s] = records[s]
                             \/ KeepsSettled(records[s], records'[s])
                             \/ Truncates(s)
  PROVE  SettledKept
<1>1. \A s \in Sessions : records[s] \in Seq(Records)
  BY DEF TypeInv, TypeOK
<1>2. \A s \in Sessions : KeepsSettled(records[s], records[s])
  BY <1>1 DEF KeepsSettled
<1> QED
  BY <1>2 DEF SettledKept, KeepsSettled

\* A turn that has written stays one that has.
LEMMA StaysWritten ==
  ASSUME \A t \in Turns : phase[t] \in Wrote => phase'[t] \in Wrote, NEW L, Written(L, phase)
  PROVE  Written(L, phase')
BY DEF Written

\* A start call or a task goes on, or ends, and writes no transcript.
LEMMA FreshMove ==
  ASSUME TypeInv, FlightInv, FreshInv, NEW t \in Turns, NEW to \in Phases,
         phase[t] \in Work \ {"ended"},
         phase' = [phase EXCEPT ![t] = to],
         phase[t] \in Wrote => to \in Wrote,
         to = "expired" => persist'[t] = "read",
         \A u \in Turns : u # t => tsnap'[u] = tsnap[u] /\ mid'[u] = mid[u],
         \A p \in Persisters : p # t => persist'[p] = persist[p] /\ psnap'[p] = psnap[p],
         \A s \in Sessions : turns'[s] \in {turns[s], NoTurn},
         FreshTurn(t)',
         UNCHANGED <<records, claim, isCont, stopping, callerVars>>
  PROVE  FreshInv' /\ SettledKept
<1>0. phase \in [Turns -> Phases] /\ Callers \cap Turns = {} /\ Persisters = Turns \cup Callers
  BY RegistryAssumption DEF TypeInv, TypeOK, Persisters
<1>1. phase'[t] = to /\ \A u \in Turns : u # t => phase'[u] = phase[u]
  BY <1>0
<1>2. SettledKept
  BY KeptByAll
<1>3. \A s \in Sessions : FreshChat(s)'
  BY <1>1, StaysWritten DEF FreshInv, FreshChat
<1>4. \A u \in Turns : FreshTurn(u)'
  <2>1. ASSUME NEW u \in Turns, u # t PROVE FreshTurn(u)'
    BY <1>1, <2>1 DEF FreshInv, FreshTurn
  <2> QED
    BY <2>1
<1>5. ASSUME NEW p \in Persisters, NEW u \in Turns PROVE FreshPartial(p, u)'
  <2> SUFFICES ASSUME Persists(p, u)', persist'[p] \in {"write", "retryWrite"}
               PROVE  psnap'[p] = records[SessionOf[u]] \/ SkipsWrite(psnap'[p], mid'[u])
    BY DEF FreshPartial
  <2>1. p # t
    BY <1>0, <1>1 DEF Persists, callerVars
  <2>2. Persists(p, u)
    BY <1>0, <1>1, <2>1 DEF Persists, callerVars
  <2>3. u # t
    BY <2>1, <2>2 DEF Persists, FlightInv, CancellerWaits, Cancelling
  <2> QED
    BY <2>1, <2>2, <2>3 DEF FreshInv, FreshPartial
<1>6. \A c \in Callers : FreshCaller(c)'
  <2>1. ASSUME NEW c \in Callers PROVE FreshCaller(c)'
    <3>1. cpc[c] \in {"unparkRead", "unparkWrite"} => csess[c] \in Sessions
      BY DEF TypeInv, CallerHasChat
    <3> QED
      BY <3>1 DEF FreshInv, FreshCaller, callerVars
  <2> QED
    BY <2>1
<1> QED
  BY <1>2, <1>3, <1>4, <1>5, <1>6 DEF FreshInv

\* A request goes on, or ends a turn, and writes no transcript.
LEMMA FreshCallers ==
  ASSUME TypeInv, FlightInv, FreshInv, NEW c \in Callers,
         \A t \in Turns : phase'[t] \in {phase[t], "final"},
         \A d \in Callers : d # c =>
           /\ cpc'[d] = cpc[d] /\ ckind'[d] = ckind[d] /\ csess'[d] = csess[d]
           /\ ctgt'[d] = ctgt[d] /\ csnap'[d] = csnap[d],
         stopping # "no" => stopping' # "no",
         \A s \in Sessions : turns'[s] \in {turns[s], NoTurn},
         \A s \in Sessions : \/ claim'[s] = claim[s]
                             \/ claim[s] = c /\ claim'[s] = NoCaller
                             \/ claim[s] = NoCaller /\ turns[s] = NoTurn,
         cpc'[c] = "persist" => persist'[c] = "read",
         \A p \in Persisters : p # c => persist'[p] = persist[p] /\ psnap'[p] = psnap[p],
         FreshCaller(c)',
         UNCHANGED <<records, isCont, mid, tsnap>>
  PROVE  FreshInv' /\ SettledKept
<1>0. /\ phase \in [Turns -> Phases] /\ Callers \cap Turns = {}
      /\ Persisters = Turns \cup Callers /\ NoCaller \notin Callers
      /\ \A t \in Turns : SessionOf[t] \in Sessions /\ t # NoTurn
  BY RegistryAssumption DEF TypeInv, TypeOK, Persisters, MessageIds
<1>1. SettledKept
  BY KeptByAll
<1>2. \A s \in Sessions : FreshChat(s)'
  <2>1. \A t \in Turns : phase[t] \in Wrote => phase'[t] \in Wrote
    BY DEF Wrote
  <2> QED
    BY <2>1, StaysWritten DEF FreshInv, FreshChat
<1>3. ASSUME NEW t \in Turns PROVE FreshTurn(t)'
  <2>1. FreshTurn(t)
    BY DEF FreshInv
  <2>2. phase[t] \in Work /\ isCont[t] => claim'[SessionOf[t]] = NoCaller
    <3>1. phase[t] \in Work => turns[SessionOf[t]] = t
      BY DEF FlightInv, WorkOwns
    <3> QED
      BY <1>0, <2>1, <3>1 DEF FreshTurn
  <2>4. CASE phase'[t] = phase[t]
    BY <2>1, <2>2, <2>4 DEF FreshTurn
  <2>5. CASE phase'[t] = "final"
    BY <2>1, <2>5 DEF FreshTurn, Work, TaskLive, Anonymous
  <2> QED
    BY <2>4, <2>5
<1>4. ASSUME NEW p \in Persisters, NEW u \in Turns PROVE FreshPartial(p, u)'
  <2> SUFFICES ASSUME Persists(p, u)', persist'[p] \in {"write", "retryWrite"}
               PROVE  psnap'[p] = records[SessionOf[u]] \/ SkipsWrite(psnap'[p], mid'[u])
    BY DEF FreshPartial
  <2>1. p # c
    BY <1>0 DEF Persists
  <2>2. Persists(p, u)
    BY <1>0, <2>1 DEF Persists
  <2> QED
    BY <2>1, <2>2 DEF FreshInv, FreshPartial
<1>5. ASSUME NEW d \in Callers PROVE FreshCaller(d)'
  <2>1. CASE d = c
    BY <2>1
  <2>2. CASE d # c
    <3>1. FreshCaller(d)
      BY DEF FreshInv
    <3>2. cpc[d] \notin {"idle", "drain"} => csess[d] \in Sessions
      BY DEF TypeInv, CallerHasChat
    <3>3. cpc[d] \in {"acceptRead", "acceptWrite", "acceptResume"} =>
            csess[d] \in Sessions /\ claim'[csess[d]] = d
      BY <1>0, <2>2, <3>1, <3>2 DEF FreshCaller
    <3>4. cpc[d] \in {"unparkRead", "unparkWrite"} => turns'[csess[d]] = NoTurn
      BY <3>1, <3>2 DEF FreshCaller
    <3> QED
      BY <2>2, <3>1, <3>3, <3>4 DEF FreshCaller
  <2> QED
    BY <2>1, <2>2
<1> QED
  BY <1>1, <1>2, <1>3, <1>4, <1>5 DEF FreshInv

\* A chat is taken, before aclose (start, start_continuation).
LEMMA FreshTake ==
  ASSUME TypeInv, FlightInv, FreshInv, stopping = "no",
         NEW t \in Turns, NEW to \in {"prep", "spawned"},
         phase[t] = "new", phase' = [phase EXCEPT ![t] = to],
         FreshTurn(t)',
         \A u \in Turns : u # t => isCont'[u] = isCont[u],
         \A s \in Sessions : claim'[s] \in {claim[s], NoCaller},
         \A d \in Callers : cpc'[d] # cpc[d] => cpc'[d] = "idle",
         \A d \in Callers : cpc'[d] = cpc[d] => ctgt'[d] = ctgt[d],
         \A d \in Callers : FreshCaller(d)',
         UNCHANGED <<records, mid, tsnap, persist, psnap>>
  PROVE  FreshInv' /\ SettledKept
<1>0. phase \in [Turns -> Phases] /\ \A u \in Turns : SessionOf[u] \in Sessions
  BY RegistryAssumption DEF TypeInv, TypeOK
<1>1. phase'[t] = to /\ \A u \in Turns : u # t => phase'[u] = phase[u]
  BY <1>0
<1>2. SettledKept
  BY KeptByAll
<1>3. \A s \in Sessions : FreshChat(s)'
  <2>1. \A u \in Turns : phase[u] \in Wrote => phase'[u] \in Wrote
    BY <1>1 DEF Wrote
  <2> QED
    BY <2>1, StaysWritten DEF FreshInv, FreshChat
<1>4. ASSUME NEW u \in Turns PROVE FreshTurn(u)'
  <2>1. CASE u = t
    BY <2>1
  <2>2. CASE u # t
    <3>1. claim[SessionOf[u]] = NoCaller => claim'[SessionOf[u]] = NoCaller
      BY <1>0
    <3> QED
      BY <1>1, <2>2, <3>1 DEF FreshInv, FreshTurn
  <2> QED
    BY <2>1, <2>2
<1>5. ASSUME NEW p \in Persisters, NEW u \in Turns PROVE FreshPartial(p, u)'
  <2>1. Persists(p, u)' => Persists(p, u)
    BY <1>1 DEF Persists
  <2> QED
    BY <2>1 DEF FreshInv, FreshPartial
<1> QED
  BY <1>2, <1>3, <1>4, <1>5 DEF FreshInv

\* Nobody is about to settle a question of the chat of a turn that may still
\* write its record or cut the history, and only the turn itself, or its
\* canceller, is about to write a partial record there.
LEMMA NobodySettles ==
  ASSUME TypeInv, FlightInv, FreshInv, NEW t \in Turns, phase[t] \in Work,
         NEW c \in Callers, cpc[c] \in {"unparkRead", "unparkWrite", "acceptWrite"},
         csess[c] = SessionOf[t]
  PROVE  /\ cpc[c] = "acceptWrite" /\ ~isCont[t] /\ PendingV2(records[SessionOf[t]])
         /\ Latest(records[SessionOf[t]]).mid = mid[t] /\ phase[t] \in Wrote
<1>1. turns[SessionOf[t]] = t /\ t # NoTurn /\ c # NoCaller
  BY RegistryAssumption DEF FlightInv, WorkOwns, MessageIds
<1>2. FreshCaller(c) /\ FreshTurn(t)
  BY DEF FreshInv
<1>3. cpc[c] = "acceptWrite"
  BY <1>1, <1>2 DEF FreshCaller
<1>4. claim[SessionOf[t]] = c /\ PendingV2(records[SessionOf[t]])
  BY <1>2, <1>3 DEF FreshCaller
<1> QED
  BY <1>1, <1>2, <1>3, <1>4 DEF FreshTurn

LEMMA OnlyHolderPersists ==
  ASSUME TypeInv, FlightInv, NEW t \in Turns, phase[t] \in Work,
         NEW p \in Persisters, NEW u \in Turns, Persists(p, u), SessionOf[u] = SessionOf[t]
  PROVE  u = t /\ phase[t] \in {"expired", "ended"}
<1>1. phase[u] \in {"expired", "ended"}
  BY DEF Persists, FlightInv, CancellerWaits, Cancelling
<1>2. turns[SessionOf[u]] = u /\ turns[SessionOf[t]] = t
  BY <1>1 DEF FlightInv, WorkOwns, Work, TaskLive
<1> QED
  BY <1>1, <1>2

\* Two turns at work are of two chats.
LEMMA OneTurnAtWork ==
  ASSUME FlightInv, NEW t \in Turns, NEW u \in Turns, phase[t] \in Work, phase[u] \in Work,
         SessionOf[u] = SessionOf[t]
  PROVE  u = t
BY DEF FlightInv, WorkOwns

\* A turn that is not at work does not look at the transcript.
LEMMA FreshOff ==
  ASSUME NEW u \in Turns, FreshTurn(u), phase[u] \notin Work, phase'[u] = phase[u],
         mid'[u] = mid[u], isCont'[u] = isCont[u]
  PROVE  FreshTurn(u)'
BY DEF FreshTurn, Work, TaskLive

\* A turn's own write of the transcript.
LEMMA FreshWrite ==
  ASSUME TypeInv, FlightInv, FreshInv, NEW t \in Turns, NEW L,
         NEW to \in {"spawned", "committed", "failed"},
         phase[t] \in {"rewrite", "graph", "failwrite"},
         phase' = [phase EXCEPT ![t] = to],
         records' = [records EXCEPT ![SessionOf[t]] = L],
         SoundQ(L), Written(L, phase'),
         KeepsSettled(records[SessionOf[t]], L) \/ Truncates(SessionOf[t]),
         \A u \in Turns : u # t => tsnap'[u] = tsnap[u],
         FreshTurn(t)',
         UNCHANGED <<turns, mid, isCont, claim, stopping, persist, psnap, callerVars>>
  PROVE  FreshInv' /\ SettledKept
<1>0. /\ phase \in [Turns -> Phases] /\ records \in [Sessions -> Seq(Records)]
      /\ \A u \in Turns : SessionOf[u] \in Sessions
  BY RegistryAssumption DEF TypeInv, TypeOK
<1>1. /\ phase'[t] = to /\ \A u \in Turns : u # t => phase'[u] = phase[u]
      /\ records'[SessionOf[t]] = L
      /\ \A s \in Sessions : s # SessionOf[t] => records'[s] = records[s]
  BY <1>0
<1>2. phase[t] \in Work \ Wrote
  BY DEF Work, TaskLive, Wrote
<1>3. SettledKept
  <2>1. \A s \in Sessions : s = SessionOf[t] \/ records'[s] = records[s]
    BY <1>1
  <2> QED
    BY <1>1, <2>1, KeptByAll
<1>4. \A s \in Sessions : FreshChat(s)'
  <2>1. \A u \in Turns : phase[u] \in Wrote => phase'[u] \in Wrote
    BY <1>1, <1>2
  <2> QED
    BY <1>1, <2>1, StaysWritten DEF FreshInv, FreshChat
<1>5. ASSUME NEW u \in Turns PROVE FreshTurn(u)'
  <2>1. CASE u = t
    BY <2>1
  <2>2. CASE u # t /\ phase[u] \in Work
    <3>1. SessionOf[u] # SessionOf[t]
      BY <1>2, <2>2, OneTurnAtWork
    <3>2. records'[SessionOf[u]] = records[SessionOf[u]]
      BY <1>0, <1>1, <3>1
    <3> QED
      BY <1>1, <2>2, <3>2 DEF FreshInv, FreshTurn
  <2>3. CASE u # t /\ phase[u] \notin Work
    BY <1>1, <2>3, FreshOff DEF FreshInv
  <2> QED
    BY <2>1, <2>2, <2>3
<1>6. ASSUME NEW p \in Persisters, NEW u \in Turns PROVE FreshPartial(p, u)'
  <2> SUFFICES ASSUME Persists(p, u)', persist'[p] \in {"write", "retryWrite"}
               PROVE  psnap'[p] = records'[SessionOf[u]] \/ SkipsWrite(psnap'[p], mid'[u])
    BY DEF FreshPartial
  <2>1. Persists(p, u)
    BY <1>1 DEF Persists, callerVars
  <2>2. SessionOf[u] # SessionOf[t]
    BY <1>2, <2>1, OnlyHolderPersists
  <2>3. records'[SessionOf[u]] = records[SessionOf[u]]
    BY <1>0, <1>1, <2>2
  <2> QED
    BY <2>1, <2>3 DEF FreshInv, FreshPartial
<1>7. ASSUME NEW c \in Callers PROVE FreshCaller(c)'
  <2>1. FreshCaller(c) /\ (cpc[c] \notin {"idle", "drain"} => csess[c] \in Sessions)
    BY DEF FreshInv, TypeInv, CallerHasChat
  <2>2. cpc[c] \in {"unparkRead", "unparkWrite", "acceptWrite"} => csess[c] # SessionOf[t]
    BY <1>2, NobodySettles
  <2>3. cpc[c] \in {"unparkWrite", "acceptWrite"} => records'[csess[c]] = records[csess[c]]
    BY <1>1, <2>1, <2>2
  <2> QED
    BY <2>1, <2>3 DEF FreshCaller, callerVars
<1> QED
  BY <1>3, <1>4, <1>5, <1>6, <1>7 DEF FreshInv

\* A partial record's writer reads the thread, or gives up an attempt.
LEMMA FreshPersistReads ==
  ASSUME TypeInv, FlightInv, FreshInv, NEW p \in Persisters, NEW t \in Turns,
         PersistRead(p, t) \/ PersistFails(p, t)
  PROVE  FreshInv' /\ SettledKept
<1>0. /\ UNCHANGED <<turns, claim, phase, isCont, why, mid, tsnap, records, stopping, callerVars>>
      /\ Persists(p, t)
      /\ psnap \in [Persisters -> Seq(Records)] /\ persist \in [Persisters -> PersistStates]
      /\ \A q \in Persisters : q # p => persist'[q] = persist[q] /\ psnap'[q] = psnap[q]
  BY DEF PersistRead, PersistFails, ckptVars, regVars, drainVars, TypeInv, TypeOK
<1>1. SettledKept
  BY <1>0, KeptByAll
<1>2. \A s \in Sessions : FreshChat(s)'
  BY <1>0 DEF FreshInv, FreshChat
<1>3. \A u \in Turns : FreshTurn(u)'
  BY <1>0 DEF FreshInv, FreshTurn
<1>4. \A c \in Callers : FreshCaller(c)'
  BY <1>0 DEF FreshInv, FreshCaller, callerVars
<1>5. ASSUME NEW q \in Persisters, NEW u \in Turns PROVE FreshPartial(q, u)'
  <2> SUFFICES ASSUME Persists(q, u)', persist'[q] \in {"write", "retryWrite"}
               PROVE  psnap'[q] = records'[SessionOf[u]] \/ SkipsWrite(psnap'[q], mid'[u])
    BY DEF FreshPartial
  <2>1. Persists(q, u)
    BY <1>0 DEF Persists, callerVars
  <2>2. CASE q # p
    BY <1>0, <2>1, <2>2 DEF FreshInv, FreshPartial
  <2>3. CASE q = p
    <3>1. u = t
      BY <1>0, <2>1, <2>3, RegistryAssumption DEF Persists
    <3> QED
      BY <1>0, <2>3, <3>1 DEF PersistRead, PersistFails
  <2> QED
    BY <2>2, <2>3
<1> QED
  BY <1>1, <1>2, <1>3, <1>4, <1>5 DEF FreshInv

\* What the records of a turn look like.
LEMMA RecordLooks ==
  ASSUME TypeInv, NEW t \in Turns, mid[t] # NoTurn, NEW st \in Statuses
  PROVE  /\ RecordOf(t, st) \in Records
         /\ RecordOf(t, st).mid = mid[t]
         /\ RecordOf(t, st).status = st
         /\ RecordOf(t, st).v2 = (st = "awaiting_input")
         /\ RecordOf(t, st).editable = (~isCont[t] /\ mid[t] = t)
<1>1. /\ isCont[t] \in BOOLEAN /\ isGoal[t] \in BOOLEAN /\ mid[t] \in MessageIds
  BY DEF TypeInv, TypeOK
<1> QED
  BY <1>1 DEF RecordOf, Records

\* The partial record is written, unless the turn's own is there
\* (_persist_partial).
LEMMA FreshPersistWrites ==
  ASSUME TypeInv, FlightInv, FreshInv, NEW p \in Persisters, NEW t \in Turns,
         PersistWrite(p, t)
  PROVE  FreshInv' /\ SettledKept
<1> DEFINE s == SessionOf[t]
           L == psnap[p]
           r == RecordOf(t, PartialStatus(p))
           R == AppendOrReplace(L, r)
<1>0. /\ UNCHANGED <<turns, claim, phase, isCont, why, mid, tsnap, psnap, stopping, callerVars>>
      /\ Persists(p, t) /\ persist[p] \in {"write", "retryWrite"}
      /\ s \in Sessions /\ records \in [Sessions -> Seq(Records)]
      /\ psnap \in [Persisters -> Seq(Records)] /\ persist \in [Persisters -> PersistStates]
      /\ \A q \in Persisters : q # p => persist'[q] = persist[q]
      /\ persist'[p] \in {"done", "retryRead"}
      /\ \A u \in Turns : SessionOf[u] \in Sessions
  BY RegistryAssumption DEF PersistWrite, TypeInv, TypeOK, regVars, drainVars
<1>1. /\ phase[t] \in {"expired", "ended"} /\ phase[t] \in Work \cap Wrote
      /\ PartialStatus(p) \in Statuses \ {"awaiting_input", "complete"}
  BY <1>0 DEF Persists, FlightInv, CancellerWaits, Cancelling, Work, TaskLive, Wrote,
     PartialStatus, Statuses
<1>2. mid[t] # NoTurn
  BY <1>0 DEF TypeInv, PartialHasIdentity
<1>3. /\ records' = [records EXCEPT ![s] = IF SkipsWrite(L, mid[t]) THEN @ ELSE R]
  BY DEF PersistWrite, SkipsWrite
<1>4. /\ r \in Records /\ r.mid = mid[t] /\ r.status = PartialStatus(p)
      /\ r.editable = (~isCont[t] /\ mid[t] = t)
  BY <1>1, <1>2, RecordLooks
<1>5. \A x \in Sessions : x # s => records'[x] = records[x]
  BY <1>0, <1>3
<1>6. CASE records' = records
  <2>1. \A x \in Sessions : FreshChat(x)'
    BY <1>0, <1>6 DEF FreshInv, FreshChat
  <2>2. \A u \in Turns : FreshTurn(u)'
    BY <1>0, <1>6 DEF FreshInv, FreshTurn
  <2>3. \A c \in Callers : FreshCaller(c)'
    BY <1>0, <1>6 DEF FreshInv, FreshCaller, callerVars
  <2>4. \A q \in Persisters, u \in Turns : FreshPartial(q, u)'
    BY <1>0, <1>6 DEF FreshInv, FreshPartial, Persists, callerVars
  <2> QED
    BY <1>6, <2>1, <2>2, <2>3, <2>4, KeptByAll DEF FreshInv
<1>7. CASE ~SkipsWrite(L, mid[t])
  <2>1. L = records[s] /\ SoundQ(L) /\ Written(L, phase)
    BY <1>0, <1>7 DEF FreshInv, FreshPartial, FreshChat
  <2>2. records'[s] = R
    BY <1>0, <1>3, <1>7
  <2>3. ~isCont[t] => ~PendingV2(L)
    <3> SUFFICES ASSUME ~isCont[t], PendingV2(L) PROVE FALSE
      OBVIOUS
    <3>1. Latest(L).mid = mid[t] /\ L # <<>> /\ Latest(L).v2
      BY <1>1, <2>1 DEF FreshInv, FreshTurn, PendingV2, IsParked
    <3>2. L \in Seq(Records) /\ Len(L) \in 1 .. Len(L)
      BY <1>0, <3>1
    <3>3. Committed(L, mid[t])
      BY <3>1, <3>2 DEF Committed, Latest
    <3> QED
      BY <1>7, <3>1, <3>3 DEF SkipsWrite, ReplacesParked
  <2>4. SoundQ(R) /\ Written(R, phase) /\ KeepsSettled(L, R) /\ R # <<>> /\ Latest(R) = r
    <3>1. L \in Seq(Records)
      BY <1>0
    <3>2. r.mid \in Turns => phase[r.mid] \in Wrote
      <4>1. mid[t] \in Turns => mid[t] = t
        BY <1>2 DEF FreshInv, FreshTurn
      <4> QED
        BY <1>1, <1>4, <4>1
    <3>3. /\ ~SkipsWrite(L, r.mid) /\ r.status # "awaiting_input"
          /\ r.editable => r.mid \in Turns /\ ~PendingV2(L)
      BY <1>1, <1>4, <1>7, <2>3
    <3> HIDE DEF L, r
    <3>4. LET Q == AppendOrReplace(L, r)
          IN  SoundQ(Q) /\ Written(Q, phase) /\ KeepsSettled(L, Q) /\ Q # <<>> /\ Latest(Q) = r
      BY <1>4, <2>1, <3>1, <3>2, <3>3, AddedIsSoundQ
    <3> QED
      BY <3>4
  <2> HIDE DEF R, r
  <2>5. SettledKept
    BY <1>5, <2>1, <2>2, <2>4, KeptByAll
  <2>6. \A x \in Sessions : FreshChat(x)'
    BY <1>0, <1>5, <2>2, <2>4 DEF FreshInv, FreshChat
  <2>7. ASSUME NEW u \in Turns PROVE FreshTurn(u)'
    <3>1. FreshTurn(u)
      BY DEF FreshInv
    <3>2. CASE u = t
      <4>1. ~PendingV2(records'[SessionOf[t]])
        BY <1>1, <1>4, <2>2, <2>4 DEF PendingV2, IsParked
      <4> QED
        BY <1>0, <1>1, <3>1, <3>2, <4>1 DEF FreshTurn, Anonymous
    <3>3. CASE u # t /\ phase[u] \in Work
      <4>1. records'[SessionOf[u]] = records[SessionOf[u]]
        BY <1>0, <1>1, <1>5, <3>3, OneTurnAtWork
      <4> QED
        BY <1>0, <3>1, <4>1 DEF FreshTurn
    <3>4. CASE phase[u] \notin Work
      BY <1>0, <3>1, <3>4, FreshOff
    <3> QED
      BY <3>2, <3>3, <3>4
  <2>8. ASSUME NEW q \in Persisters, NEW u \in Turns PROVE FreshPartial(q, u)'
    <3> SUFFICES ASSUME Persists(q, u)', persist'[q] \in {"write", "retryWrite"}
                 PROVE  psnap'[q] = records'[SessionOf[u]] \/ SkipsWrite(psnap'[q], mid'[u])
      BY DEF FreshPartial
    <3>1. Persists(q, u) /\ q # p
      BY <1>0 DEF Persists, callerVars
    <3>2. SessionOf[u] # s
      <4>1. SessionOf[u] = s => u = t
        BY <1>1, <3>1, OnlyHolderPersists
      <4>2. u # t
        BY <1>0, <3>1 DEF Persists, FlightInv, CancellerWaits, OneCanceller, Cancelling
      <4> QED
        BY <4>1, <4>2
    <3>3. records'[SessionOf[u]] = records[SessionOf[u]]
      BY <1>0, <1>5, <3>2
    <3> QED
      BY <1>0, <3>1, <3>3 DEF FreshInv, FreshPartial
  <2>9. ASSUME NEW c \in Callers PROVE FreshCaller(c)'
    <3>1. FreshCaller(c) /\ (cpc[c] \notin {"idle", "drain"} => csess[c] \in Sessions)
      BY DEF FreshInv, TypeInv, CallerHasChat
    <3>2. cpc[c] \in {"unparkRead", "unparkWrite", "acceptWrite"} => csess[c] # s
      BY <1>1, <2>1, <2>3, NobodySettles
    <3>3. cpc[c] \in {"unparkWrite", "acceptWrite"} => records'[csess[c]] = records[csess[c]]
      BY <1>5, <3>1, <3>2
    <3> QED
      BY <1>0, <3>1, <3>3 DEF FreshCaller, callerVars
  <2> QED
    BY <2>5, <2>6, <2>7, <2>8, <2>9 DEF FreshInv
<1> QED
  <2>1. SkipsWrite(L, mid[t]) => records' = records
    BY <1>0, <1>3
  <2> QED
    BY <1>6, <1>7, <2>1

\* The shutdown, or a request, settles the question it has read.
LEMMA FreshSettles ==
  ASSUME TypeInv, FlightInv, DrainInv, FreshInv, NEW c \in Callers,
         UnparkWrite(c) \/ AcceptWrite(c)
  PROVE  FreshInv' /\ SettledKept
<1> DEFINE s == csess[c]
           L == csnap[c]
<1>0. /\ UNCHANGED <<turns, claim, phase, isCont, mid, tsnap, persist, psnap, stopping>>
      /\ s \in Sessions /\ records \in [Sessions -> Seq(Records)]
      /\ \A u \in Turns : SessionOf[u] \in Sessions
      /\ \A x \in Sessions : x # s => records'[x] = records[x]
      /\ cpc \in [Callers -> CallerStates] /\ csess \in [Callers -> Sessions \cup {NoSession}]
      /\ csnap \in [Callers -> Seq(Records)]
      /\ ctgt \in [Callers -> Turns \cup {NoTurn}]
      /\ ckind \in [Callers -> {"none", "cancel", "delete", "accept", "drain"}]
  BY RegistryAssumption DEF UnparkWrite, AcceptWrite, turnVars, regVars, drainVars,
     TypeInv, TypeOK, CallerHasChat
<1>1. /\ cpc[c] \in {"unparkWrite", "acceptWrite"}
      /\ FreshCaller(c)
  BY DEF UnparkWrite, AcceptWrite, FreshInv
<1>2. /\ \A d \in Callers : d # c =>
           /\ cpc'[d] = cpc[d] /\ ckind'[d] = ckind[d] /\ csess'[d] = csess[d]
           /\ ctgt'[d] = ctgt[d] /\ csnap'[d] = csnap[d]
      /\ cpc'[c] \in {"drain", "idle", "acceptResume"}
      /\ ckind'[c] \in {ckind[c], "none"}
      /\ cpc'[c] = "acceptResume" => claim[csess'[c]] = c
  <2>1. CASE UnparkWrite(c)
    BY <1>0, <1>1, <2>1 DEF UnparkWrite, Returned, FreshCaller
  <2>2. CASE AcceptWrite(c)
    BY <1>0, <1>1, <2>2 DEF AcceptWrite, FreshCaller
  <2> QED
    BY <2>1, <2>2
<1>3. L = records[s] /\ IsParked(L) /\ SoundQ(L) /\ Written(L, phase) /\ L \in Seq(Records)
  BY <1>0, <1>1 DEF FreshCaller, PendingV2, FreshInv, FreshChat
<1>4. PICK st \in {"complete", "cancelled"} :
        records'[s] = ReplaceLatest(L, [Latest(L) EXCEPT !.status = st])
  BY <1>0 DEF UnparkWrite, AcceptWrite
<1> DEFINE R == records'[s]
<1>5. SoundQ(R) /\ Written(R, phase) /\ KeepsSettled(L, R) /\ ~IsParked(R)
  <2> HIDE DEF L
  <2>1. LET Q == ReplaceLatest(L, [Latest(L) EXCEPT !.status = st])
        IN  SoundQ(Q) /\ Written(Q, phase) /\ KeepsSettled(L, Q) /\ ~IsParked(Q)
    BY <1>3, SettledIsSoundQ
  <2> QED
    BY <1>4, <2>1
<1> HIDE DEF L
<1>6. SettledKept
  <2>1. \A x \in Sessions : x = s \/ records'[x] = records[x]
    BY <1>0
  <2> QED
    BY <1>3, <1>5, <2>1, KeptByAll
<1>7. \A x \in Sessions : FreshChat(x)'
  BY <1>0, <1>5 DEF FreshInv, FreshChat
<1>8. \A u \in Turns : phase[u] \in Work /\ SessionOf[u] = s =>
        ~isCont[u] /\ PendingV2(L) /\ Latest(L).mid = mid[u] /\ phase[u] \in Wrote
  <2>1. ASSUME NEW u \in Turns, phase[u] \in Work, SessionOf[u] = s
        PROVE  ~isCont[u] /\ PendingV2(L) /\ Latest(L).mid = mid[u] /\ phase[u] \in Wrote
    BY <1>1, <1>3, <2>1, NobodySettles
  <2> QED
    BY <2>1
<1>9. ASSUME NEW u \in Turns PROVE FreshTurn(u)'
  <2>1. FreshTurn(u)
    BY DEF FreshInv
  <2>2. CASE phase[u] \in Work /\ SessionOf[u] = s
    <3>1. ~PendingV2(R) /\ phase[u] \in Wrote
      BY <1>5, <1>8, <2>2 DEF PendingV2
    <3> QED
      BY <1>0, <2>1, <2>2, <3>1 DEF FreshTurn, Wrote
  <2>3. CASE SessionOf[u] # s
    <3>1. records'[SessionOf[u]] = records[SessionOf[u]]
      BY <1>0, <2>3
    <3> QED
      BY <1>0, <2>1, <3>1 DEF FreshTurn
  <2>4. CASE phase[u] \notin Work
    BY <1>0, <2>1, <2>4, FreshOff
  <2> QED
    BY <2>2, <2>3, <2>4
<1>10. ASSUME NEW p \in Persisters, NEW u \in Turns PROVE FreshPartial(p, u)'
  <2> SUFFICES ASSUME Persists(p, u)', persist'[p] \in {"write", "retryWrite"}
               PROVE  psnap'[p] = records'[SessionOf[u]] \/ SkipsWrite(psnap'[p], mid'[u])
    BY DEF FreshPartial
  <2>1. Persists(p, u) /\ persist[p] \in {"write", "retryWrite"}
    BY <1>0, <1>2 DEF Persists
  <2>2. psnap[p] = records[SessionOf[u]] \/ SkipsWrite(psnap[p], mid[u])
    BY <2>1 DEF FreshInv, FreshPartial
  <2>3. CASE SessionOf[u] # s
    BY <1>0, <2>2, <2>3
  <2>4. CASE SessionOf[u] = s
    <3>1. phase[u] \in Work
      BY <2>1 DEF Persists, FlightInv, CancellerWaits, Cancelling, Work, TaskLive
    <3>2. PendingV2(L) /\ Latest(L).mid = mid[u] /\ Len(L) \in 1 .. Len(L)
      BY <1>3, <1>8, <2>4, <3>1 DEF IsParked
    <3>3. SkipsWrite(L, mid[u])
      BY <3>2 DEF SkipsWrite, Committed, ReplacesParked, PendingV2, Latest
    <3> QED
      BY <1>0, <1>3, <2>2, <2>4, <3>3
  <2> QED
    BY <2>3, <2>4
<1>11. ASSUME NEW d \in Callers PROVE FreshCaller(d)'
  <2>1. FreshCaller(d)
    BY DEF FreshInv
  <2>2. CASE d = c
    BY <1>0, <1>1, <1>2, <2>2 DEF FreshCaller
  <2>3. CASE d # c
    <3>1. cpc[d] \in {"unparkWrite", "acceptWrite"} => csess[d] \in Sessions
      BY DEF TypeInv, CallerHasChat
    <3>2. cpc[d] \in {"unparkWrite", "acceptWrite"} => csess[d] # s
      <4>1. stopping = "no" => cpc[c] = "acceptWrite" /\ cpc[d] # "unparkWrite"
        BY <1>1, <2>1 DEF FreshCaller
      <4>2. stopping # "no" => cpc[d] = "idle"
        BY <1>1, <2>3 DEF DrainInv, OnlyDrainer
      <4>3. cpc[c] = "acceptWrite" /\ cpc[d] = "acceptWrite" => csess[d] # s
        BY <1>1, <2>1, <2>3 DEF FreshCaller
      <4> QED
        BY <4>1, <4>2, <4>3
    <3>3. cpc[d] \in {"unparkWrite", "acceptWrite"} => records'[csess[d]] = records[csess[d]]
      BY <1>0, <3>1, <3>2
    <3> QED
      BY <1>0, <1>2, <2>1, <2>3, <3>3 DEF FreshCaller
  <2> QED
    BY <2>2, <2>3
<1> QED
  BY <1>6, <1>7, <1>9, <1>10, <1>11 DEF FreshInv

(***************************************************************************)
(* The steps.                                                              *)
(***************************************************************************)
\* The truncated history, the node's record and the error record are written.
LEMMA FreshTurnWrites ==
  ASSUME TypeInv, FlightInv, FreshInv, NEW t \in Turns,
         \/ RewriteWrite(t) \/ FailureWrite(t)
         \/ \E st \in {"complete", "awaiting_input"} : NodeCommits(t, st)
  PROVE  FreshInv' /\ SettledKept
<1> DEFINE s == SessionOf[t]
           L == records[s]
<1>0. /\ phase \in [Turns -> Phases] /\ records \in [Sessions -> Seq(Records)]
      /\ tsnap \in [Turns -> Seq(Records)] /\ s \in Sessions /\ L \in Seq(Records)
      /\ \A u \in Turns : SessionOf[u] \in Sessions
  BY RegistryAssumption DEF TypeInv, TypeOK
<1>1. SoundQ(L) /\ Written(L, phase) /\ FreshTurn(t)
  BY <1>0 DEF FreshInv, FreshChat
<1>2. CASE RewriteWrite(t)
  <2> DEFINE P == tsnap[t]
  <2>1. /\ phase[t] = "rewrite" /\ phase' = [phase EXCEPT ![t] = "spawned"]
        /\ records' = [records EXCEPT ![s] = P]
        /\ tsnap' = [tsnap EXCEPT ![t] = <<>>]
        /\ UNCHANGED <<turns, mid, isCont, claim, stopping, persist, psnap, callerVars>>
        /\ Truncates(s)
    BY <1>2 DEF RewriteWrite, regVars, drainVars, Truncates
  <2>2. IsCut(P, L)
    BY <1>1, <2>1 DEF FreshTurn
  <2> HIDE DEF P
  <2>3. SoundQ(P) /\ Written(P, phase) /\ ~PendingV2(P)
    <3> HIDE DEF L
    <3> QED
      BY <1>0, <1>1, <2>2, CutIsSoundQ
  <2>4. \A u \in Turns : phase[u] \in Wrote => phase'[u] \in Wrote
    BY <1>0, <2>1 DEF Wrote
  <2>5. Written(P, phase')
    BY <2>3, <2>4, StaysWritten
  <2>6. phase'[t] = "spawned" /\ records'[s] = P
    BY <1>0, <2>1
  <2>7. FreshTurn(t)'
    BY <1>1, <2>1, <2>3, <2>6 DEF FreshTurn, Work, TaskLive, Wrote, Anonymous
  <2>8. \A u \in Turns : u # t => tsnap'[u] = tsnap[u]
    BY <2>1
  <2> QED
    BY <2>1, <2>3, <2>5, <2>7, <2>8, FreshWrite
<1>3. CASE FailureWrite(t) \/ \E st \in {"complete", "awaiting_input"} : NodeCommits(t, st)
  <2>1. PICK to \in {"failed", "committed"}, st \in Statuses :
          /\ phase[t] \in {"failwrite", "graph"} /\ phase' = [phase EXCEPT ![t] = to]
          /\ records' = [records EXCEPT ![s] = AppendOrReplace(tsnap[t], RecordOf(t, st))]
          /\ \A u \in Turns : u # t => tsnap'[u] = tsnap[u]
          /\ UNCHANGED <<turns, mid, isCont, claim, stopping, persist, psnap, callerVars>>
    <3>1. CASE FailureWrite(t)
      BY <3>1 DEF FailureWrite, Goto, Statuses, regVars, drainVars
    <3>2. CASE \E st \in {"complete", "awaiting_input"} : NodeCommits(t, st)
      <4>1. PICK st \in {"complete", "awaiting_input"} : NodeCommits(t, st)
        BY <3>2
      <4>2. st \in Statuses
        BY DEF Statuses
      <4>3. /\ phase[t] = "graph" /\ phase' = [phase EXCEPT ![t] = "committed"]
            /\ records' = [records EXCEPT ![s] = AppendOrReplace(tsnap[t], RecordOf(t, st))]
            /\ \A u \in Turns : u # t => tsnap'[u] = tsnap[u]
            /\ UNCHANGED <<turns, mid, isCont, claim, stopping, persist, psnap, callerVars>>
        BY <1>0, <4>1 DEF NodeCommits, Goto, regVars, drainVars
      <4> QED
        BY <4>2, <4>3
    <3> QED
      BY <1>3, <3>1, <3>2
  <2> DEFINE r == RecordOf(t, st)
             R == AppendOrReplace(L, r)
  <2>2. tsnap[t] = L /\ phase[t] \in Work \ (Wrote \cup Anonymous)
    BY <1>1, <2>1 DEF FreshTurn, Work, TaskLive, Wrote, Anonymous
  <2>3. mid[t] # NoTurn
    BY <2>1 DEF TypeInv, RunHasIdentity
  <2>4. /\ r \in Records /\ r.mid = mid[t] /\ r.status = st /\ r.v2 = (st = "awaiting_input")
        /\ r.editable = (~isCont[t] /\ mid[t] = t)
    BY <2>3, RecordLooks
  <2>5. records'[s] = R /\ phase'[t] = to /\ phase'[t] \in Wrote
    BY <1>0, <2>1, <2>2 DEF Wrote
  <2>6. \A u \in Turns : phase[u] \in Wrote => phase'[u] \in Wrote
    BY <1>0, <2>1, <2>2 DEF Wrote
  <2>7. ~SkipsWrite(L, mid[t])
    <3>1. CASE mid[t] = t
      BY <1>1, <2>2, <3>1 DEF Written, SkipsWrite, Committed
    <3>2. CASE mid[t] # t
      BY <1>1, <2>2, <2>3, <3>2 DEF FreshTurn, SkipsWrite
    <3> QED
      BY <3>1, <3>2
  <2>8. ~isCont[t] => ~PendingV2(L)
    BY <1>1, <2>2 DEF FreshTurn
  <2>9. Written(L, phase')
    BY <1>1, <2>6, StaysWritten
  <2> HIDE DEF L, r
  <2>10. /\ SoundQ(R) /\ Written(R, phase') /\ KeepsSettled(L, R) /\ R # <<>> /\ Latest(R) = r
    <3>1. /\ r.editable => r.mid \in Turns /\ ~PendingV2(L)
          /\ r.status = "awaiting_input" => r.v2
          /\ r.mid \in Turns => phase'[r.mid] \in Wrote
      <4>1. mid[t] \in Turns => mid[t] = t
        BY <1>1, <2>3 DEF FreshTurn
      <4> QED
        BY <2>4, <2>5, <2>8, <4>1
    <3> QED
      BY <1>0, <1>1, <2>4, <2>7, <2>9, <3>1, AddedIsSoundQ
  <2> HIDE DEF R
  <2>11. FreshTurn(t)'
    BY <1>1, <2>1, <2>4, <2>5, <2>10 DEF FreshTurn, Work, TaskLive, Wrote, Anonymous
  <2>12. records' = [records EXCEPT ![s] = R]
    BY <2>1, <2>2 DEF R, r, L
  <2>13. KeepsSettled(records[SessionOf[t]], R)
    BY <2>10 DEF L
  <2> QED
    BY <2>1, <2>5, <2>10, <2>11, <2>12, <2>13, FreshWrite
<1> QED
  BY <1>2, <1>3

\* A step of a start call, of a task or of its hook.
LEMMA FreshTurnStep ==
  ASSUME NothingStale, TypeInv, FlightInv, FreshInv, NEW t \in Turns, TurnStep(t)
  PROVE  FreshInv' /\ SettledKept
<1> DEFINE s == SessionOf[t]
           L == records[s]
<1>0. /\ phase \in [Turns -> Phases] /\ tsnap \in [Turns -> Seq(Records)]
      /\ psnap \in [Persisters -> Seq(Records)] /\ persist \in [Persisters -> PersistStates]
      /\ mid \in [Turns -> MessageIds \cup {NoTurn}]
      /\ turns \in [Sessions -> Turns \cup {NoTurn}]
      /\ t \in Persisters /\ s \in Sessions /\ L \in Seq(Records)
  BY RegistryAssumption DEF TypeInv, TypeOK, Persisters
<1>1. FreshTurn(t) /\ SoundQ(L)
  BY <1>0 DEF FreshInv, FreshChat
<1>2. CASE Spawn(t) \/ EnsureSession(t) \/ RunFails(t) \/ ClearIntent(t) \/ FailureUnrecorded(t)
  <2>1. PICK to \in {"spawned", "input", "failing", "cleared", "failed"} :
          /\ phase[t] \in Work \ {"ended"} /\ phase' = [phase EXCEPT ![t] = to]
          /\ phase[t] \in Wrote => to \in Wrote
          /\ phase[t] \in Anonymous <=> to \in Anonymous
          /\ UNCHANGED <<turns, records, tsnap, psnap, persist, claim, isCont, mid, stopping, callerVars>>
    BY <1>2 DEF Spawn, EnsureSession, RunFails, ClearIntent, FailureUnrecorded, Goto, Work,
       TaskLive, Wrote, Anonymous, regVars, drainVars, ckptVars, NothingStale
  <2>2. phase'[t] = to
    BY <1>0, <2>1
  <2>3. FreshTurn(t)'
    BY <1>1, <2>1, <2>2 DEF FreshTurn, Anonymous
  <2> QED
    BY <2>1, <2>3, FreshMove DEF Phases
<1>3. CASE RewriteRead(t)
  <2>1. /\ phase[t] = "prep" /\ phase' = [phase EXCEPT ![t] = "rewrite"]
        /\ \A u \in Turns : u # t => tsnap'[u] = tsnap[u]
        /\ UNCHANGED <<turns, records, psnap, persist, claim, isCont, mid, stopping, callerVars>>
    BY <1>3 DEF RewriteRead, regVars, drainVars, ckptVars
  <2>2. phase'[t] = "rewrite"
    BY <1>0, <2>1
  <2>3. IsCut(tsnap'[t], L)
    BY <1>0, <1>3 DEF RewriteRead, IsCut
  <2>4. FreshTurn(t)'
    BY <1>1, <2>1, <2>2, <2>3 DEF FreshTurn, Anonymous, Work, Wrote, TaskLive
  <2> QED
    BY <2>1, <2>4, FreshMove DEF Phases, Work, TaskLive, Wrote
<1>4. CASE EnterGraph(t) \/ FailureRead(t)
  <2>1. PICK to \in {"graph", "failwrite"} :
          /\ phase[t] \in {"input", "failing"} /\ phase' = [phase EXCEPT ![t] = to]
          /\ tsnap' = [tsnap EXCEPT ![t] = L]
          /\ UNCHANGED <<turns, records, psnap, persist, claim, isCont, mid, stopping, callerVars>>
    BY <1>4 DEF EnterGraph, FailureRead, Goto, regVars, drainVars, ckptVars
  <2>2. phase'[t] = to /\ tsnap'[t] = L /\ \A u \in Turns : u # t => tsnap'[u] = tsnap[u]
    BY <1>0, <2>1
  <2>3. FreshTurn(t)'
    BY <1>1, <2>1, <2>2 DEF FreshTurn, Anonymous, Work, Wrote, TaskLive
  <2> QED
    BY <2>1, <2>2, <2>3, FreshMove DEF Phases, Work, TaskLive, Wrote
<1>5. CASE FirstStep(t) \/ Prefetch(t) \/ PrefetchFails(t)
  <2>1. PICK to \in {"meta", "prefetch", "failing"} :
          /\ phase[t] \in {"spawned", "prefetch"} /\ phase' = [phase EXCEPT ![t] = to]
          /\ to = "prefetch" => ~isCont[t] /\ mid'[t] = mid[t]
          /\ \A u \in Turns : u # t => mid'[u] = mid[u]
          /\ UNCHANGED <<turns, records, tsnap, psnap, persist, claim, isCont, stopping, callerVars>>
    BY <1>0, <1>5 DEF FirstStep, Prefetch, PrefetchFails, Goto, regVars, drainVars, ckptVars
  <2>2. phase'[t] = to
    BY <1>0, <2>1
  <2>3. ~isCont[t] => ~PendingV2(L)
    BY <1>1, <2>1 DEF FreshTurn, Work, TaskLive, Wrote
  <2>4. \/ mid'[t] \in {NoTurn, t}
        \/ mid'[t] \notin Turns /\ ~isCont[t] /\ ReplacesParked(L, mid'[t])
    <3>1. CASE FirstStep(t) \/ PrefetchFails(t)
      BY <1>0, <1>1, <2>1, <3>1 DEF FirstStep, PrefetchFails, FreshTurn, Anonymous
    <3>2. CASE Prefetch(t)
      <4>1. ~isCont[t] /\ mid'[t] = IF IsParked(L) THEN Latest(L).mid ELSE t
        BY <1>0, <1>1, <3>2 DEF Prefetch, Goto, FreshTurn, Anonymous
      <4>2. IsParked(L) => ~Latest(L).v2 /\ Latest(L).mid \notin Turns
        BY <1>1, <2>3, <4>1 DEF PendingV2, IsParked, Latest, SoundQ
      <4> QED
        BY <4>1, <4>2 DEF ReplacesParked
    <3> QED
      BY <1>5, <3>1, <3>2
  <2>5. FreshTurn(t)'
    BY <1>1, <2>1, <2>2, <2>3, <2>4 DEF FreshTurn, Anonymous, Work, TaskLive
  <2> QED
    BY <2>1, <2>5, FreshMove DEF Phases, Work, TaskLive, Wrote
<1>6. CASE Expire(t)
  <2>1. /\ phase[t] \in Work \ {"ended"} /\ phase' = [phase EXCEPT ![t] = "expired"]
        /\ persist' = [persist EXCEPT ![t] = "read"]
        /\ UNCHANGED <<turns, records, tsnap, psnap, claim, isCont, mid, stopping, callerVars>>
    BY <1>6 DEF Expire, Work, TaskLive, regVars, drainVars, ckptVars
  <2>2. phase'[t] = "expired" /\ persist'[t] = "read"
    BY <1>0, <2>1
  <2>3. FreshTurn(t)'
    BY <1>1, <2>1, <2>2 DEF FreshTurn, Anonymous, Wrote
  <2>4. \A p \in Persisters : p # t => persist'[p] = persist[p]
    BY <1>0, <2>1
  <2> QED
    BY <2>1, <2>2, <2>3, <2>4, FreshMove DEF Phases, Wrote
<1>7. CASE TaskCancelled(t) \/ Reject(t) \/ ErrorWithoutRecord(t) \/ RunDone(t) \/ RunError(t)
           \/ ExpireDone(t)
  <2>1. PICK to \in {"ended", "rejected", "final"} :
          /\ phase[t] \in Work \ {"ended"} /\ phase' = [phase EXCEPT ![t] = to]
          /\ to = "rejected" => phase[t] \notin Wrote
          /\ tsnap' = [tsnap EXCEPT ![t] = <<>>]
          /\ \/ UNCHANGED <<psnap, persist>>
             \/ /\ psnap' = [psnap EXCEPT ![t] = <<>>]
                /\ persist' = [persist EXCEPT ![t] = "idle"]
          /\ \A x \in Sessions : turns'[x] \in {turns[x], NoTurn}
          /\ UNCHANGED <<records, claim, isCont, mid, stopping, callerVars>>
    <3>1. CASE TaskCancelled(t)
      BY <3>1 DEF TaskCancelled, DropLocals, Work, TaskLive, ckptVars, drainVars
    <3>2. CASE Reject(t)
      BY <1>0, <3>2 DEF Reject, ReleaseClaim, Work, Wrote, ckptVars, drainVars
    <3>3. CASE ErrorWithoutRecord(t) \/ RunDone(t) \/ RunError(t) \/ ExpireDone(t)
      <4>1. PICK e \in Terminals : phase[t] \in TaskLive /\ DriveEnds(t, e)
        BY <3>3 DEF ErrorWithoutRecord, RunDone, RunError, ExpireDone, Terminals, TaskLive
      <4>2. \A x \in Sessions : turns'[x] \in {turns[x], NoTurn}
        BY <1>0, <4>1 DEF DriveEnds, Finalize
      <4> QED
        BY <4>1, <4>2 DEF DriveEnds, Finalize, DropLocals, Work, TaskLive, ckptVars, drainVars
    <3> QED
      BY <1>7, <3>1, <3>2, <3>3
  <2>2. /\ phase'[t] = to /\ \A u \in Turns : u # t => tsnap'[u] = tsnap[u]
        /\ \A p \in Persisters : p # t => persist'[p] = persist[p] /\ psnap'[p] = psnap[p]
    BY <1>0, <2>1
  <2>3. FreshTurn(t)'
    BY <1>1, <2>1, <2>2 DEF FreshTurn, Anonymous, Work, TaskLive, Wrote
  <2> QED
    BY <2>1, <2>2, <2>3, FreshMove DEF Phases, Wrote
<1>8. CASE HookDone(t)
  <2>1. UNCHANGED <<phase, tsnap, mid, persist, psnap, turns, records, claim, isCont, stopping, callerVars>>
    BY <1>8 DEF HookDone, turnVars, ckptVars, drainVars
  <2>2. \A x \in Sessions : FreshChat(x)'
    BY <2>1 DEF FreshInv, FreshChat
  <2>3. \A u \in Turns : FreshTurn(u)'
    BY <2>1 DEF FreshInv, FreshTurn
  <2>4. \A p \in Persisters, u \in Turns : FreshPartial(p, u)'
    BY <2>1 DEF FreshInv, FreshPartial, Persists, callerVars
  <2>5. \A c \in Callers : FreshCaller(c)'
    BY <2>1 DEF FreshInv, FreshCaller, callerVars
  <2> QED
    BY <2>1, <2>2, <2>3, <2>4, <2>5, KeptByAll DEF FreshInv
<1>9. CASE PersistStep(t, t)
  BY <1>0, <1>9, FreshPersistReads, FreshPersistWrites DEF PersistStep
<1>10. CASE RewriteWrite(t) \/ FailureWrite(t)
           \/ \E st \in {"complete", "awaiting_input"} : NodeCommits(t, st)
  BY <1>10, FreshTurnWrites
<1> QED
  BY <1>2, <1>3, <1>4, <1>5, <1>6, <1>7, <1>8, <1>9, <1>10
     DEF TurnStep, StartStep, RunStep, StopStep

\* aclose finds a turn it can stop, or none (_terminate_for_shutdown).
LEMMA DrainFindsNone ==
  ASSUME TypeInv, FlightInv, DrainInv, NEW c \in Callers, cpc[c] = "drain",
         NEW s \in Sessions, ~Active(s)
  PROVE  turns[s] = NoTurn /\ stopping # "no"
<1>1. stopping = "drain"
  BY DEF FlightInv, DrainerDrains, DrainInv, DrainerStops
<1>2. \A u \in Turns : ~Attended(u)
  BY <1>1 DEF DrainInv, OnlyDrainer, Attended, Cancelling
<1>3. turns[s] # NoTurn => turns[s] \in Turns
  BY DEF TypeInv, TypeOK
<1>4. turns[s] # NoTurn => Active(s)
  BY <1>1, <1>2, <1>3 DEF FlightInv, OwnerWorks, DrainInv, MarkedIsAttended, Marked, OnlyDrainer,
     Work, Active
<1> QED
  BY <1>1, <1>4

\* A step of a request that is under way, or of aclose.
LEMMA FreshCallerStep ==
  ASSUME TypeInv, FlightInv, DrainInv, FreshInv, NEW c \in Callers, CallerStep(c)
  PROVE  FreshInv' /\ SettledKept
<1> USE DEF ckptVars, turnVars, regVars, drainVars
<1>0. /\ phase \in [Turns -> Phases] /\ turns \in [Sessions -> Turns \cup {NoTurn}]
      /\ claim \in [Sessions -> Callers \cup {NoCaller}]
      /\ csnap \in [Callers -> Seq(Records)] /\ cpc \in [Callers -> CallerStates]
      /\ csess \in [Callers -> Sessions \cup {NoSession}]
      /\ ckind \in [Callers -> {"none", "cancel", "delete", "accept", "drain"}]
      /\ psnap \in [Persisters -> Seq(Records)] /\ persist \in [Persisters -> PersistStates]
      /\ ctgt \in [Callers -> Turns \cup {NoTurn}]
      /\ c \in Persisters /\ NoCaller \notin Callers
  BY RegistryAssumption DEF TypeInv, TypeOK, Persisters
<1>1. FreshCaller(c)
  BY DEF FreshInv
<1>2. CASE Joined(c)
  <2>1. /\ UNCHANGED <<phase, turns, claim, stopping, records, isCont, mid, tsnap, psnap>>
        /\ UNCHANGED <<ckind, csess, ctgt, csnap>>
        /\ cpc' = [cpc EXCEPT ![c] = "persist"] /\ persist' = [persist EXCEPT ![c] = "read"]
    BY <1>2 DEF Joined
  <2>2. cpc'[c] = "persist" /\ \A d \in Callers : d # c => cpc'[d] = cpc[d]
    BY <1>0, <2>1
  <2>3. persist'[c] = "read" /\ \A p \in Persisters : p # c => persist'[p] = persist[p]
    BY <1>0, <2>1
  <2>4. FreshCaller(c)'
    BY <1>1, <2>1, <2>2 DEF FreshCaller
  <2> QED
    BY <2>1, <2>2, <2>3, <2>4, FreshCallers
<1>3. CASE CancelDone(c)
  <2>1. ctgt[c] \in Turns
    BY <1>3 DEF CancelDone, TypeInv, CallerHasTurn
  <2>2. /\ UNCHANGED <<claim, stopping, records, isCont, mid, tsnap>>
        /\ persist' = [persist EXCEPT ![c] = "idle"] /\ psnap' = [psnap EXCEPT ![c] = <<>>]
        /\ Returned(c)
    BY <1>3 DEF CancelDone
  <2>3. /\ \A t \in Turns : phase'[t] \in {phase[t], "final"}
        /\ \A s \in Sessions : turns'[s] \in {turns[s], NoTurn}
    BY <1>0, <1>3, <2>1 DEF CancelDone, Finalize
  <2>4. /\ cpc'[c] \in {"drain", "idle"} /\ ckind'[c] \in {ckind[c], "none"}
        /\ \A d \in Callers : d # c =>
             /\ cpc'[d] = cpc[d] /\ ckind'[d] = ckind[d] /\ csess'[d] = csess[d]
             /\ ctgt'[d] = ctgt[d] /\ csnap'[d] = csnap[d]
    BY <1>0, <1>1, <2>2 DEF Returned, FreshCaller
  <2>5. \A p \in Persisters : p # c => persist'[p] = persist[p] /\ psnap'[p] = psnap[p]
    BY <1>0, <2>2
  <2>6. FreshCaller(c)'
    BY <1>1, <2>4 DEF FreshCaller
  <2> QED
    BY <2>2, <2>3, <2>4, <2>5, <2>6, FreshCallers
<1>4. CASE \E t \in Turns : PersistStep(c, t)
  BY <1>0, <1>4, FreshPersistReads, FreshPersistWrites DEF PersistStep
<1>5. CASE UnparkRead(c) \/ AcceptRead(c)
  <2>1. /\ UNCHANGED <<phase, turns, claim, stopping, records, isCont, mid, tsnap, psnap, persist>>
        /\ UNCHANGED <<ckind, csess, ctgt>>
        /\ csnap' = [csnap EXCEPT ![c] = records[csess[c]]]
    BY <1>5 DEF UnparkRead, AcceptRead
  <2>2. /\ csnap'[c] = records[csess[c]]
        /\ \A d \in Callers : d # c => cpc'[d] = cpc[d] /\ csnap'[d] = csnap[d]
        /\ cpc'[c] \in {"unparkWrite", "acceptWrite"}
    BY <1>0, <1>5, <2>1 DEF UnparkRead, AcceptRead
  <2>3. FreshCaller(c)'
    <3>1. CASE UnparkRead(c)
      <4>1. IsParked(records[csess[c]]) /\ cpc[c] = "unparkRead" /\ cpc'[c] = "unparkWrite"
        BY <1>0, <3>1 DEF UnparkRead
      <4> QED
        BY <1>1, <2>1, <2>2, <4>1 DEF FreshCaller
    <3>2. CASE AcceptRead(c)
      <4>1. PendingV2(records[csess[c]]) /\ cpc[c] = "acceptRead" /\ cpc'[c] = "acceptWrite"
        BY <1>0, <3>2 DEF AcceptRead
      <4> QED
        BY <1>1, <2>1, <2>2, <4>1 DEF FreshCaller
    <3> QED
      BY <1>5, <3>1, <3>2
  <2> QED
    BY <2>1, <2>2, <2>3, FreshCallers
<1>6. CASE UnparkIdle(c) \/ AcceptFails(c) \/ ContinueFails(c) \/ DrainDone(c)
  <2>1. /\ UNCHANGED <<phase, turns, records, isCont, mid, tsnap, psnap, persist>>
        /\ stopping # "no" => stopping' # "no"
        /\ Idle(c) \/ Returned(c)
    BY <1>6 DEF UnparkIdle, AcceptFails, ContinueFails, DrainDone, ReleaseAccept
  <2>2. /\ cpc'[c] \in {"drain", "idle"} /\ ckind'[c] \in {ckind[c], "none"}
        /\ \A d \in Callers : d # c =>
             /\ cpc'[d] = cpc[d] /\ ckind'[d] = ckind[d] /\ csess'[d] = csess[d]
             /\ ctgt'[d] = ctgt[d] /\ csnap'[d] = csnap[d]
    BY <1>0, <1>1, <2>1 DEF Returned, Idle, FreshCaller
  <2>3. \A s \in Sessions : claim'[s] = claim[s] \/ (claim[s] = c /\ claim'[s] = NoCaller)
    <3>1. CASE UnparkIdle(c) \/ DrainDone(c)
      BY <3>1 DEF UnparkIdle, DrainDone
    <3>2. CASE AcceptFails(c) \/ ContinueFails(c)
      <4>1. claim' = [claim EXCEPT ![csess[c]] = NoCaller] /\ claim[csess[c]] = c
        BY <1>1, <3>2 DEF AcceptFails, ContinueFails, ReleaseAccept, FreshCaller
      <4> QED
        BY <1>0, <4>1
    <3> QED
      BY <1>6, <3>1, <3>2
  <2>4. FreshCaller(c)'
    BY <1>1, <2>2 DEF FreshCaller
  <2> QED
    BY <2>1, <2>2, <2>3, <2>4, FreshCallers
<1>7. CASE UnparkWrite(c) \/ AcceptWrite(c)
  BY <1>7, FreshSettles
<1>8. CASE DropThread(c) \/ DropFails(c) \/ DropRow(c)
  BY <1>1, <1>8 DEF DropThread, DropFails, DropRow, FreshCaller
<1>9. CASE \E t \in Turns : Continue(c, t)
  <2> DEFINE s == csess[c]
  <2>1. PICK t \in Turns : Continue(c, t)
    BY <1>9
  <2>2. /\ phase[t] = "new" /\ phase' = [phase EXCEPT ![t] = "spawned"]
        /\ isCont' = [isCont EXCEPT ![t] = TRUE] /\ isCont \in [Turns -> BOOLEAN]
        /\ UNCHANGED <<mid, tsnap, persist, psnap, records, stopping>>
        /\ claim' = [claim EXCEPT ![s] = NoCaller] /\ Idle(c)
        /\ cpc[c] = "acceptResume" /\ SessionOf[t] = s /\ s \in Sessions
        /\ turns' = [turns EXCEPT ![s] = t]
    BY <2>1, RegistryAssumption DEF Continue, ReleaseAccept, TypeInv, TypeOK
  <2>3. stopping = "no"
    BY <2>2 DEF DrainInv, OnlyDrainer, DrainStates
  <2>4. /\ isCont'[t] /\ \A u \in Turns : u # t => isCont'[u] = isCont[u]
        /\ phase'[t] = "spawned" /\ claim'[s] = NoCaller
        /\ \A x \in Sessions : x # s => claim'[x] = claim[x] /\ turns'[x] = turns[x]
    BY <1>0, <2>2
  <2>5. /\ cpc'[c] = "idle" /\ ckind'[c] = "none" /\ ctgt'[c] = NoTurn
        /\ \A d \in Callers : d # c =>
             /\ cpc'[d] = cpc[d] /\ ckind'[d] = ckind[d] /\ csess'[d] = csess[d]
             /\ ctgt'[d] = ctgt[d] /\ csnap'[d] = csnap[d]
    BY <1>0, <2>2 DEF Idle
  <2>6. FreshTurn(t)'
    <3>1. mid[t] = NoTurn
      BY <2>2 DEF FreshInv, FreshTurn, Anonymous
    <3> QED
      BY <2>2, <2>4, <3>1 DEF FreshTurn
  <2>7. ASSUME NEW d \in Callers PROVE FreshCaller(d)'
    <3>1. CASE d = c
      BY <2>5, <3>1 DEF FreshCaller
    <3>2. CASE d # c
      <4>1. FreshCaller(d) /\ (cpc[d] \notin {"idle", "drain"} => csess[d] \in Sessions)
        BY DEF FreshInv, TypeInv, CallerHasChat
      <4>2. cpc[d] \notin {"unparkRead", "unparkWrite"}
        BY <2>3, <4>1 DEF FreshCaller
      <4>3. cpc[d] \in {"acceptRead", "acceptWrite", "acceptResume"} => claim'[csess[d]] = d
        BY <1>1, <2>2, <2>4, <3>2, <4>1 DEF FreshCaller
      <4> QED
        BY <2>2, <2>5, <3>2, <4>1, <4>2, <4>3 DEF FreshCaller
    <3> QED
      BY <3>1, <3>2
  <2>8. /\ \A d \in Callers : cpc'[d] # cpc[d] => cpc'[d] = "idle"
        /\ \A d \in Callers : cpc'[d] = cpc[d] => ctgt'[d] = ctgt[d]
        /\ \A x \in Sessions : claim'[x] \in {claim[x], NoCaller}
    BY <2>2, <2>4, <2>5
  <2> QED
    BY <2>2, <2>3, <2>4, <2>6, <2>7, <2>8, FreshTake
<1>10. CASE \E s \in Sessions : DrainNext(c, s)
  <2>1. PICK s \in Sessions : cpc[c] = "drain" /\ CancelOrUnpark(c, s, "shutdown")
                              /\ UNCHANGED <<stopping, ckind>>
    BY <1>10 DEF DrainNext
  <2>2. /\ UNCHANGED <<phase, turns, claim, records, isCont, mid, tsnap, psnap, persist, csnap>>
        /\ \A d \in Callers : d # c =>
             cpc'[d] = cpc[d] /\ csess'[d] = csess[d] /\ ctgt'[d] = ctgt[d]
        /\ csess'[c] = s
        /\ cpc'[c] = "join" \/ (cpc'[c] = "unparkRead" /\ ~Active(s))
    BY <1>0, <2>1 DEF CancelOrUnpark
  <2>3. ~Active(s) => turns[s] = NoTurn /\ stopping # "no"
    BY <2>1, DrainFindsNone
  <2>4. FreshCaller(c)'
    BY <1>1, <2>1, <2>2, <2>3 DEF FreshCaller
  <2> QED
    BY <2>1, <2>2, <2>4, FreshCallers
<1> QED
  BY <1>2, <1>3, <1>4, <1>5, <1>6, <1>7, <1>8, <1>9, <1>10 DEF CallerStep

\* A request that arrives.
LEMMA FreshRequest ==
  ASSUME NothingStale, TypeInv, FlightInv, DrainInv, FreshInv, Request
  PROVE  FreshInv' /\ SettledKept
<1> USE DEF ckptVars, turnVars, regVars, drainVars
<1>0. /\ phase \in [Turns -> Phases] /\ turns \in [Sessions -> Turns \cup {NoTurn}]
      /\ claim \in [Sessions -> Callers \cup {NoCaller}]
      /\ cpc \in [Callers -> CallerStates]
      /\ csess \in [Callers -> Sessions \cup {NoSession}]
      /\ ckind \in [Callers -> {"none", "cancel", "delete", "accept", "drain"}]
      /\ NoCaller \notin Callers
  BY RegistryAssumption DEF TypeInv, TypeOK
<1>1. CASE \E t \in Turns, goal \in BOOLEAN : Claim(t, goal)
  <2>1. PICK t \in Turns, goal \in BOOLEAN : Claim(t, goal)
    BY <1>1
  <2>2. /\ phase[t] = "new" /\ phase' = [phase EXCEPT ![t] = "prep"]
        /\ ~PendingV2(records[SessionOf[t]]) /\ stopping = "no"
        /\ UNCHANGED <<claim, stopping, mid, tsnap, persist, psnap, records, isCont, callerVars>>
    BY <2>1 DEF Claim, NothingStale
  <2>3. phase'[t] = "prep"
    BY <1>0, <2>2
  <2>4. FreshTurn(t)'
    BY <2>2, <2>3 DEF FreshInv, FreshTurn, Anonymous
  <2>5. \A d \in Callers : FreshCaller(d)'
    BY <2>2 DEF FreshInv, FreshCaller, callerVars
  <2> QED
    BY <2>2, <2>4, <2>5, FreshTake DEF callerVars
<1>2. CASE \E c \in Callers, s \in Sessions : AcceptCall(c, s)
  <2>1. PICK c \in Callers, s \in Sessions : AcceptCall(c, s)
    BY <1>2
  <2>2. /\ UNCHANGED <<phase, turns, stopping, records, isCont, mid, tsnap, psnap, persist>>
        /\ UNCHANGED <<ctgt, csnap>>
        /\ turns[s] = NoTurn /\ claim[s] = NoCaller
        /\ claim' = [claim EXCEPT ![s] = c]
    BY <2>1 DEF AcceptCall
  <2>3. /\ cpc'[c] = "acceptRead" /\ ckind'[c] = "accept" /\ csess'[c] = s
        /\ \A d \in Callers : d # c =>
             cpc'[d] = cpc[d] /\ ckind'[d] = ckind[d] /\ csess'[d] = csess[d]
    BY <1>0, <2>1 DEF AcceptCall
  <2>4. claim'[s] = c /\ \A x \in Sessions : x # s => claim'[x] = claim[x]
    BY <1>0, <2>2
  <2>5. FreshCaller(c)'
    BY <2>3, <2>4 DEF FreshCaller
  <2> QED
    BY <2>2, <2>3, <2>4, <2>5, FreshCallers
<1>3. CASE \E c \in Callers, s \in Sessions, kind \in {"cancel", "delete"} :
             CancelCall(c, s, kind)
  BY <1>3 DEF CancelCall, NothingStale
<1>4. CASE \E c \in Callers : DrainBegin(c)
  <2>1. PICK c \in Callers : DrainBegin(c)
    BY <1>4
  <2>2. /\ UNCHANGED <<phase, turns, claim, records, isCont, mid, tsnap, psnap, persist>>
        /\ UNCHANGED <<csess, ctgt, csnap>> /\ stopping' = "drain"
    BY <2>1 DEF DrainBegin
  <2>3. /\ cpc'[c] = "drain" /\ ckind'[c] = "drain"
        /\ \A d \in Callers : d # c => cpc'[d] = cpc[d] /\ ckind'[d] = ckind[d]
    BY <1>0, <2>1 DEF DrainBegin
  <2>4. FreshCaller(c)'
    BY <2>3 DEF FreshCaller
  <2> QED
    BY <2>2, <2>3, <2>4, FreshCallers
<1> QED
  BY <1>1, <1>2, <1>3, <1>4 DEF Request

LEMMA FreshInit ==
  ASSUME SoundStart, Init
  PROVE  FreshInv
<1>1. \A s \in Sessions : FreshChat(s)
  BY DEF SoundStart, Init, FreshChat, Written
<1>2. \A t \in Turns : FreshTurn(t)
  BY DEF Init, FreshTurn, Work, TaskLive
<1>3. \A p \in Persisters, t \in Turns : FreshPartial(p, t)
  BY DEF Init, FreshPartial
<1>4. \A c \in Callers : FreshCaller(c)
  BY DEF Init, FreshCaller
<1> QED
  BY <1>1, <1>2, <1>3, <1>4 DEF FreshInv

\* Every step, stuttering included.
LEMMA FreshStep ==
  ASSUME NothingStale, TypeInv, FlightInv, DrainInv, FreshInv, [Next]_vars
  PROVE  FreshInv' /\ SettledKept
<1>1. CASE UNCHANGED vars
  <2>1. UNCHANGED <<phase, tsnap, mid, persist, psnap, turns, records, claim, isCont, stopping, callerVars>>
    BY <1>1 DEF vars, regVars, turnVars, ckptVars, callerVars, drainVars
  <2>2. \A x \in Sessions : FreshChat(x)'
    BY <2>1 DEF FreshInv, FreshChat
  <2>3. \A u \in Turns : FreshTurn(u)'
    BY <2>1 DEF FreshInv, FreshTurn
  <2>4. \A p \in Persisters, u \in Turns : FreshPartial(p, u)'
    BY <2>1 DEF FreshInv, FreshPartial, Persists, callerVars
  <2>5. \A c \in Callers : FreshCaller(c)'
    BY <2>1 DEF FreshInv, FreshCaller, callerVars
  <2> QED
    BY <2>1, <2>2, <2>3, <2>4, <2>5, KeptByAll DEF FreshInv
<1>2. CASE Request
  BY <1>2, FreshRequest
<1>3. CASE \E t \in Turns : TurnStep(t)
  BY <1>3, FreshTurnStep
<1>4. CASE \E c \in Callers : CallerStep(c)
  BY <1>4, FreshCallerStep
<1> QED
  BY <1>1, <1>2, <1>3, <1>4 DEF Next

THEOREM FreshHolds ==
  ASSUME NothingStale, SoundStart
  PROVE  Spec => [](TypeInv /\ FlightInv /\ DrainInv /\ FreshInv)
<1>1. Init => FreshInv
  BY FreshInit
<1>2. TypeInv /\ FlightInv /\ DrainInv /\ FreshInv /\ [Next]_vars => FreshInv'
  BY FreshStep
<1> QED
  BY <1>1, <1>2, Drained, PTL DEF Spec

\* No lost update: in spite of all the read-modify-writes of the whole list, a
\* record that is settled stays where it is and as it is, edits apart.  It is
\* so where no request lets go of a question behind a turn's back: with cancel
\* and delete, _unpark_if_parked may write back what it read before a turn or
\* an answer wrote (turns.py:1293), and a text answer taken for a plain message
\* may resume a question that is answered meanwhile.
THEOREM NoLostUpdate ==
  ASSUME NothingStale, SoundStart
  PROVE  Spec => SettledRecordsStay
<1>1. TypeInv /\ FlightInv /\ DrainInv /\ FreshInv /\ [Next]_vars => [SettledKept]_vars
  BY FreshStep
<1> QED
  BY <1>1, FreshHolds, PTL DEF Spec, SettledRecordsStay

\* One record per message, also in a chat that comes with a question of the
\* previous release: the turn that resumes it replaces its record, whatever
\* ends that turn (append_or_replace, _persist_partial).
THEOREM OneRecordEach ==
  ASSUME NothingStale, SoundStart
  PROVE  Spec => []OneRecordPerMessage
<1>1. FreshInv => OneRecordPerMessage
  BY DEF FreshInv, FreshChat, SoundQ, OneRecordPerMessage
<1> QED
  BY <1>1, FreshHolds, PTL

(***************************************************************************)
(* An answer is taken once.  Where no history is cut, every answered       *)
(* question accounts for one continuation, or for the request that is      *)
(* about to start it.                                                      *)
(***************************************************************************)
Answered(s) ==
  {i \in 1 .. Len(records[s]) : records[s][i].v2 /\ records[s][i].status = "complete"}

Continuations(s) == {t \in Turns : SessionOf[t] = s /\ isCont[t]}

\* The requests that have made an answer durable and not resumed the run yet.
Owed(s) == {c \in Callers : cpc[c] = "acceptResume" /\ csess[c] = s}

NothingCut == \A t \in Turns : phase[t] # "rewrite"

Accounted(s) ==
  /\ IsFiniteSet(Continuations(s))
  /\ Cardinality(Continuations(s)) + Cardinality(Owed(s)) <= Cardinality(Answered(s))

AnswerInv == NothingCut /\ \A s \in Sessions : Accounted(s)

\* The clarify claim lets one request at a time owe a continuation.
LEMMA OneOwes ==
  ASSUME TypeInv, FreshInv, NEW s \in Sessions
  PROVE  /\ Owed(s) \subseteq {claim[s]}
         /\ IsFiniteSet(Owed(s))
         /\ IsFiniteSet(Answered(s))
<1>1. Owed(s) \subseteq {claim[s]}
  BY DEF FreshInv, FreshCaller, Owed
<1>2. IsFiniteSet({claim[s]})
  BY FS_Singleton
<1>3. IsFiniteSet(Owed(s))
  BY <1>1, <1>2, FS_Subset
<1>4. Answered(s) \subseteq 1 .. Len(records[s])
  BY DEF Answered
<1>5. Len(records[s]) \in Nat
  BY DEF TypeInv, TypeOK
<1>6. IsFiniteSet(1 .. Len(records[s]))
  BY <1>5, FS_Interval
<1>7. IsFiniteSet(Answered(s))
  BY <1>4, <1>6, FS_Subset
<1> QED
  BY <1>1, <1>3, <1>7

\* What a request owes it owed before, or has just made durable.
OwesNoMore ==
  \A c \in Callers : cpc'[c] = "acceptResume" => cpc[c] = "acceptResume" /\ csess'[c] = csess[c]

\* An answer stays an answer, so a step that starts no continuation and accepts
\* no answer keeps the account.
LEMMA AccountKept ==
  ASSUME TypeInv, FreshInv, FreshInv', SettledKept, NEW s \in Sessions, ~Truncates(s),
         Accounted(s), UNCHANGED isCont, OwesNoMore, TypeInv'
  PROVE  Accounted(s)'
<1>1. Continuations(s)' = Continuations(s)
  BY DEF Continuations
<1>2. IsFiniteSet(Continuations(s)) /\ Cardinality(Continuations(s)) \in Nat
  BY FS_CardinalityType DEF Accounted
<1>3. Owed(s)' \subseteq Owed(s)
  BY DEF OwesNoMore, Owed
<1>4. /\ Cardinality(Owed(s)) \in Nat /\ Cardinality(Owed(s)') \in Nat
      /\ Cardinality(Owed(s)') <= Cardinality(Owed(s))
  BY <1>3, OneOwes, FS_Subset, FS_CardinalityType
<1>5. Answered(s) \subseteq Answered(s)'
  <2>1. ASSUME NEW i \in Answered(s)
        PROVE  i \in Answered(s)'
    <3>1. i \in 1 .. Len(records[s]) /\ records[s][i].v2 /\ records[s][i].status = "complete"
      BY DEF Answered
    <3>2. i <= Len(records'[s]) /\ records'[s][i] = records[s][i]
      BY <3>1 DEF SettledKept
    <3>3. records \in [Sessions -> Seq(Records)] /\ records' \in [Sessions -> Seq(Records)]
      BY DEF TypeInv, TypeOK
    <3> QED
      BY <3>1, <3>2, <3>3 DEF Answered
  <2> QED
    BY <2>1
<1>6. IsFiniteSet(Answered(s)')
  <2>1. Answered(s)' \subseteq 1 .. Len(records'[s])
    BY DEF Answered
  <2>2. records' \in [Sessions -> Seq(Records)]
    BY DEF TypeInv, TypeOK
  <2> QED
    BY <2>1, <2>2, FS_Interval, FS_Subset
<1>7. /\ Cardinality(Answered(s)) \in Nat /\ Cardinality(Answered(s)') \in Nat
      /\ Cardinality(Answered(s)) <= Cardinality(Answered(s)')
  BY <1>5, <1>6, OneOwes, FS_Subset, FS_CardinalityType
<1> QED
  BY <1>1, <1>2, <1>4, <1>7 DEF Accounted

\* No history is cut, so nothing that is settled goes away.
LEMMA NothingTruncates ==
  ASSUME FreshInv, NothingCut, NEW s \in Sessions
  PROVE  ~Truncates(s)
BY DEF FreshInv, FreshCaller, NothingCut, Truncates, RewriteWrite, DropThread

LEMMA TurnsCutNothing ==
  ASSUME "edit" \notin Ops, TypeInv, NothingCut, NEW t \in Turns, TurnStep(t)
  PROVE  NothingCut' /\ UNCHANGED <<isCont, cpc, csess>>
<1> USE DEF ckptVars, turnVars, regVars, drainVars, callerVars
<1>0. phase \in [Turns -> Phases] /\ phase[t] # "rewrite"
  BY DEF TypeInv, TypeOK, NothingCut
<1>1. CASE StartStep(t)
  BY <1>0, <1>1 DEF StartStep, Reject, Spawn, RewriteRead, RewriteWrite, ReleaseClaim, NothingCut
<1>2. CASE RunStep(t)
  <2>1. CASE \/ FirstStep(t) \/ Prefetch(t) \/ PrefetchFails(t) \/ EnsureSession(t) \/ EnterGraph(t)
             \/ RunFails(t) \/ (\E st \in {"complete", "awaiting_input"} : NodeCommits(t, st))
             \/ ClearIntent(t) \/ FailureRead(t) \/ FailureWrite(t) \/ FailureUnrecorded(t)
    BY <1>0, <2>1 DEF FirstStep, Prefetch, PrefetchFails, EnsureSession, EnterGraph, RunFails,
       NodeCommits, ClearIntent, FailureRead, FailureWrite, FailureUnrecorded, Goto, NothingCut
  <2>2. CASE ErrorWithoutRecord(t) \/ RunDone(t) \/ RunError(t)
    BY <1>0, <2>2 DEF ErrorWithoutRecord, RunDone, RunError, DriveEnds, Finalize, NothingCut
  <2> QED
    BY <1>2, <2>1, <2>2 DEF RunStep
<1>3. CASE StopStep(t)
  BY <1>0, <1>3 DEF StopStep, Expire, TaskCancelled, PersistStep, PersistRead, PersistFails,
     PersistWrite, ExpireDone, DriveEnds, Finalize, NothingCut
<1>4. CASE HookDone(t)
  BY <1>4 DEF HookDone, NothingCut
<1> QED
  BY <1>1, <1>2, <1>3, <1>4 DEF TurnStep

\* Every step of a request other than its accepting an answer and its starting
\* the continuation.
LEMMA CallersCutNothing ==
  ASSUME TypeInv, FreshInv, NothingCut, NEW c \in Callers, CallerStep(c), ~AcceptWrite(c),
         \A t \in Turns : ~Continue(c, t)
  PROVE  NothingCut' /\ UNCHANGED isCont /\ OwesNoMore
<1> USE DEF ckptVars, turnVars, regVars, drainVars
<1>0. /\ phase \in [Turns -> Phases] /\ cpc \in [Callers -> CallerStates]
      /\ csess \in [Callers -> Sessions \cup {NoSession}]
  BY DEF TypeInv, TypeOK
<1>1. CASE Joined(c) \/ UnparkRead(c) \/ AcceptRead(c) \/ DropThread(c)
  BY <1>0, <1>1 DEF Joined, UnparkRead, AcceptRead, DropThread, NothingCut, OwesNoMore
<1>2. CASE CancelDone(c)
  <2>1. ctgt[c] \in Turns
    BY <1>2 DEF CancelDone, TypeInv, CallerHasTurn
  <2> QED
    BY <1>0, <1>2, <2>1 DEF CancelDone, Finalize, Returned, NothingCut, OwesNoMore
<1>3. CASE \E t \in Turns : PersistStep(c, t)
  BY <1>3 DEF PersistStep, PersistRead, PersistFails, PersistWrite, callerVars, NothingCut, OwesNoMore
<1>4. CASE UnparkWrite(c) \/ UnparkIdle(c)
  BY <1>0, <1>4 DEF UnparkWrite, UnparkIdle, Returned, NothingCut, OwesNoMore
<1>5. CASE DropFails(c) \/ DropRow(c) \/ AcceptFails(c) \/ ContinueFails(c) \/ DrainDone(c)
  BY <1>0, <1>5 DEF DropFails, DropRow, AcceptFails, ContinueFails, DrainDone, ReleaseAccept, Idle,
     NothingCut, OwesNoMore
<1>6. CASE \E s \in Sessions : DrainNext(c, s)
  BY <1>0, <1>6 DEF DrainNext, CancelOrUnpark, NothingCut, OwesNoMore
<1> QED
  BY <1>1, <1>2, <1>3, <1>4, <1>5, <1>6 DEF CallerStep

LEMMA RequestsCutNothing ==
  ASSUME NothingStale, TypeInv, NothingCut, Request
  PROVE  NothingCut' /\ UNCHANGED isCont /\ OwesNoMore
<1> USE DEF ckptVars, turnVars, regVars, drainVars
<1>0. /\ phase \in [Turns -> Phases] /\ cpc \in [Callers -> CallerStates]
      /\ csess \in [Callers -> Sessions \cup {NoSession}]
  BY DEF TypeInv, TypeOK
<1>1. CASE \E t \in Turns, goal \in BOOLEAN : Claim(t, goal)
  BY <1>0, <1>1 DEF Claim, callerVars, NothingCut, OwesNoMore
<1>2. CASE \E c \in Callers, s \in Sessions : AcceptCall(c, s)
  BY <1>0, <1>2 DEF AcceptCall, NothingCut, OwesNoMore
<1>3. CASE \E c \in Callers, s \in Sessions, kind \in {"cancel", "delete"} : CancelCall(c, s, kind)
  BY <1>3 DEF CancelCall, NothingStale
<1>4. CASE \E c \in Callers : DrainBegin(c)
  BY <1>0, <1>4 DEF DrainBegin, NothingCut, OwesNoMore
<1> QED
  BY <1>1, <1>2, <1>3, <1>4 DEF Request

\* The acceptance of an answer makes one question answered, and one request owe
\* its continuation.
LEMMA AcceptAccounts ==
  ASSUME NothingStale, TypeInv, TypeInv', FreshInv, FreshInv', SettledKept, AnswerInv,
         NEW c \in Callers, AcceptWrite(c)
  PROVE  AnswerInv'
<1>s. PICK s \in Sessions : s = csess[c]
  BY DEF AcceptWrite, TypeInv, CallerHasChat
<1> DEFINE n == Len(csnap[c])
<1>0. /\ cpc \in [Callers -> CallerStates] /\ records \in [Sessions -> Seq(Records)]
      /\ records' \in [Sessions -> Seq(Records)] /\ csnap \in [Callers -> Seq(Records)]
  BY DEF TypeInv, TypeOK
<1>1. /\ cpc[c] = "acceptWrite" /\ cpc' = [cpc EXCEPT ![c] = "acceptResume"]
      /\ UNCHANGED <<phase, isCont, csess>>
      /\ records' = [records EXCEPT ![s] =
           ReplaceLatest(csnap[c], [Latest(csnap[c]) EXCEPT !.status = "complete"])]
  BY <1>s DEF AcceptWrite, turnVars
<1>2. /\ claim[s] = c /\ csnap[c] = records[s] /\ PendingV2(csnap[c])
  BY <1>s, <1>1 DEF FreshInv, FreshCaller
<1>3. NothingCut'
  BY <1>1 DEF AnswerInv, NothingCut
<1>4. ASSUME NEW x \in Sessions, x # s
      PROVE  Accounted(x)'
  <2>1. Owed(x)' = Owed(x)
    BY <1>s, <1>0, <1>1, <1>4 DEF Owed
  <2>2. Answered(x)' = Answered(x) /\ Continuations(x)' = Continuations(x)
    BY <1>s, <1>0, <1>1, <1>4 DEF Answered, Continuations
  <2>3. Accounted(x)
    BY DEF AnswerInv
  <2> QED
    BY <2>1, <2>2, <2>3 DEF Accounted
<1>5. Accounted(s)'
  <2>1. Continuations(s)' = Continuations(s)
    BY <1>1 DEF Continuations
  <2>2. Owed(s) = {} /\ Owed(s)' = {c}
    <3>1. Owed(s) \subseteq {c}
      BY <1>2, OneOwes
    <3>2. c \notin Owed(s)
      BY <1>1 DEF Owed
    <3>3. c \in Owed(s)' /\ Owed(s)' \subseteq Owed(s) \cup {c}
      BY <1>s, <1>0, <1>1 DEF Owed
    <3> QED
      BY <3>1, <3>2, <3>3
  <2>3. Cardinality(Owed(s)) = 0 /\ Cardinality(Owed(s)') = 1
    BY <2>2, FS_EmptySet, FS_Singleton
  <2>4. /\ n \in Nat /\ n \in 1 .. n /\ csnap[c][n] = Latest(csnap[c])
        /\ csnap[c][n].status = "awaiting_input" /\ csnap[c][n].v2
        /\ csnap[c][n] \in Records
    BY <1>0, <1>2 DEF PendingV2, IsParked, Latest
  <2>5. /\ Len(records'[s]) = n
        /\ records'[s][n] = [csnap[c][n] EXCEPT !.status = "complete"]
        /\ \A i \in 1 .. n : i # n => records'[s][i] = records[s][i]
    BY <1>0, <1>1, <1>2, <2>4 DEF ReplaceLatest
  <2>6. records'[s][n].v2 /\ records'[s][n].status = "complete"
    BY <2>4, <2>5 DEF Records
  <2>7. Answered(s)' = Answered(s) \cup {n} /\ n \notin Answered(s)
    <3> DEFINE R == records'[s]
    <3>1. /\ Answered(s)' = {i \in 1 .. n : R[i].v2 /\ R[i].status = "complete"}
          /\ Answered(s) = {i \in 1 .. n : records[s][i].v2 /\ records[s][i].status = "complete"}
      BY <1>2, <2>5 DEF Answered
    <3>2. R[n].v2 /\ R[n].status = "complete" /\ records[s][n].status # "complete"
      BY <1>2, <2>4, <2>6
    <3>3. \A i \in 1 .. n : i # n => R[i] = records[s][i]
      BY <2>5
    <3> HIDE DEF R, n
    <3> QED
      BY <2>4, <3>1, <3>2, <3>3
  <2>8. Cardinality(Answered(s)') = Cardinality(Answered(s)) + 1
    BY <1>2, <2>7, OneOwes, FS_AddElement
  <2>9. /\ Cardinality(Answered(s)) \in Nat /\ Cardinality(Continuations(s)) \in Nat
        /\ Accounted(s)
    BY <1>2, OneOwes, FS_CardinalityType DEF AnswerInv, Accounted
  <2> QED
    BY <2>1, <2>3, <2>8, <2>9 DEF Accounted
<1> QED
  BY <1>3, <1>4, <1>5 DEF AnswerInv

\* The continuation that is started is the one that was owed.
LEMMA ContinueAccounts ==
  ASSUME TypeInv, FreshInv, AnswerInv, NEW c \in Callers, NEW t \in Turns, Continue(c, t)
  PROVE  AnswerInv'
<1>s. PICK s \in Sessions : s = csess[c]
  BY DEF Continue, TypeInv, CallerHasChat
<1>0. /\ cpc \in [Callers -> CallerStates] /\ phase \in [Turns -> Phases]
      /\ isCont \in [Turns -> BOOLEAN] /\ csess \in [Callers -> Sessions \cup {NoSession}]
  BY DEF TypeInv, TypeOK
<1>1. /\ cpc[c] = "acceptResume" /\ cpc' = [cpc EXCEPT ![c] = "idle"]
      /\ csess' = [csess EXCEPT ![c] = NoSession] /\ UNCHANGED records
      /\ phase[t] = "new" /\ phase' = [phase EXCEPT ![t] = "spawned"]
      /\ isCont' = [isCont EXCEPT ![t] = TRUE] /\ SessionOf[t] = s
  BY <1>s DEF Continue, ReleaseAccept, Idle, ckptVars
<1>2. claim[s] = c /\ ~isCont[t]
  BY <1>s, <1>1 DEF FreshInv, FreshCaller, FreshTurn, Anonymous
<1>3. NothingCut'
  BY <1>0, <1>1 DEF AnswerInv, NothingCut
<1>4. ASSUME NEW x \in Sessions, x # s
      PROVE  Accounted(x)'
  <2>1. Owed(x)' = Owed(x)
    BY <1>s, <1>0, <1>1, <1>4 DEF Owed
  <2>2. Answered(x)' = Answered(x) /\ Continuations(x)' = Continuations(x)
    BY <1>s, <1>0, <1>1, <1>4 DEF Answered, Continuations
  <2>3. Accounted(x)
    BY DEF AnswerInv
  <2> QED
    BY <2>1, <2>2, <2>3 DEF Accounted
<1>5. Accounted(s)'
  <2>1. Owed(s) = {c} /\ Owed(s)' = {}
    <3>1. Owed(s) \subseteq {c} /\ c \in Owed(s)
      BY <1>s, <1>1, <1>2, OneOwes DEF Owed
    <3>2. c \notin Owed(s)' /\ Owed(s)' \subseteq Owed(s)
      BY <1>s, <1>0, <1>1 DEF Owed
    <3> QED
      BY <3>1, <3>2
  <2>2. Cardinality(Owed(s)) = 1 /\ Cardinality(Owed(s)') = 0
    BY <2>1, FS_EmptySet, FS_Singleton
  <2>3. Continuations(s)' = Continuations(s) \cup {t} /\ t \notin Continuations(s)
    BY <1>0, <1>1, <1>2 DEF Continuations
  <2>4. Accounted(s) /\ Cardinality(Continuations(s)) \in Nat /\ Cardinality(Answered(s)) \in Nat
    BY <1>2, OneOwes, FS_CardinalityType DEF AnswerInv, Accounted
  <2>5. /\ IsFiniteSet(Continuations(s)')
        /\ Cardinality(Continuations(s)') = Cardinality(Continuations(s)) + 1
    BY <2>3, <2>4, FS_AddElement DEF Accounted
  <2>6. Answered(s)' = Answered(s)
    BY <1>1 DEF Answered
  <2> QED
    BY <2>2, <2>4, <2>5, <2>6 DEF Accounted
<1> QED
  BY <1>3, <1>4, <1>5 DEF AnswerInv

LEMMA AnswerInit ==
  ASSUME Init
  PROVE  AnswerInv
<1>1. NothingCut
  BY DEF Init, NothingCut
<1>2. ASSUME NEW s \in Sessions
      PROVE  Accounted(s)
  <2>1. Continuations(s) = {} /\ Owed(s) = {}
    BY DEF Init, Continuations, Owed
  <2>2. records[s] \in Seq(Records)
    BY RegistryAssumption DEF Init
  <2>3. Answered(s) \subseteq 1 .. Len(records[s]) /\ Len(records[s]) \in Nat
    BY <2>2 DEF Answered
  <2>4. Cardinality(Answered(s)) \in Nat
    <3>1. IsFiniteSet(1 .. Len(records[s]))
      BY <2>3, FS_Interval
    <3> QED
      BY <2>3, <3>1, FS_Subset, FS_CardinalityType
  <2> QED
    BY <2>1, <2>4, FS_EmptySet DEF Accounted
<1> QED
  BY <1>1, <1>2 DEF AnswerInv

LEMMA AnswerStep ==
  ASSUME NothingStale, "edit" \notin Ops, TypeInv, TypeInv', FlightInv, DrainInv, FreshInv,
         FreshInv', AnswerInv, [Next]_vars
  PROVE  AnswerInv'
<1>1. SettledKept /\ NothingCut /\ \A s \in Sessions : Accounted(s) /\ ~Truncates(s)
  BY FreshStep, NothingTruncates DEF AnswerInv
<1>2. ASSUME NothingCut', UNCHANGED isCont, OwesNoMore
      PROVE  AnswerInv'
  BY <1>1, <1>2, AccountKept DEF AnswerInv
<1>3. CASE UNCHANGED vars
  BY <1>1, <1>2, <1>3 DEF vars, turnVars, callerVars, NothingCut, OwesNoMore
<1>4. CASE Request
  BY <1>1, <1>2, <1>4, RequestsCutNothing
<1>5. CASE \E t \in Turns : TurnStep(t)
  BY <1>1, <1>2, <1>5, TurnsCutNothing DEF OwesNoMore
<1>6. CASE \E c \in Callers : CallerStep(c)
  <2>1. PICK c \in Callers : CallerStep(c)
    BY <1>6
  <2>2. CASE AcceptWrite(c)
    BY <1>1, <2>2, AcceptAccounts
  <2>3. CASE \E t \in Turns : Continue(c, t)
    BY <2>3, ContinueAccounts
  <2> QED
    BY <1>1, <1>2, <2>1, <2>2, <2>3, CallersCutNothing
<1> QED
  BY <1>3, <1>4, <1>5, <1>6 DEF Next

\* An answer is taken once: however many requests answer one question, there
\* are never more continuations than answered questions.  An edit may cut an
\* answered question out of the history, so it is said where there is none.
THEOREM TakenOnce ==
  ASSUME NothingStale, SoundStart, "edit" \notin Ops
  PROVE  Spec => []AnsweredOnce
<1>1. Init => AnswerInv
  BY AnswerInit
<1>2. /\ TypeInv /\ FlightInv /\ DrainInv /\ FreshInv
      /\ TypeInv' /\ FreshInv' /\ AnswerInv /\ [Next]_vars
      => AnswerInv'
  BY AnswerStep
<1>3. TypeInv /\ FreshInv /\ AnswerInv => AnsweredOnce
  <2>1. ASSUME TypeInv, FreshInv, AnswerInv, NEW s \in Sessions
        PROVE  Cardinality(Continuations(s)) <= Cardinality(Answered(s))
    <3>1. /\ Cardinality(Owed(s)) \in Nat /\ Cardinality(Answered(s)) \in Nat
          /\ Cardinality(Continuations(s)) \in Nat /\ Accounted(s)
      BY <2>1, OneOwes, FS_CardinalityType DEF AnswerInv, Accounted
    <3> QED
      BY <3>1 DEF Accounted
  <2> QED
    BY <2>1 DEF AnsweredOnce, Continuations, Answered
<1> QED
  BY <1>1, <1>2, <1>3, FreshHolds, PTL DEF Spec
=============================================================================
