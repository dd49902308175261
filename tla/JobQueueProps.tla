--------------------------- MODULE JobQueueProps ---------------------------
(***************************************************************************)
(* What must hold of JobQueue, and under which deployment assumptions.     *)
(***************************************************************************)
EXTENDS JobQueue

\* The state variables have their types: rows as the schema and the enum have
\* them, process-local variables as main() has them.
TypeOK ==
  /\ jobs \in [Job -> Row]
  /\ now \in Time
  /\ pc \in [Slot -> Control]
  /\ pid \in [Slot -> Pid]
  /\ held \in [Slot -> Job \cup {None}]
  /\ tries \in [Slot -> Nat]
  /\ stop \in [Slot -> BOOLEAN]
  /\ todo \in [Slot -> SUBSET (Job \X Pid)]
  /\ faults \in 0 .. MaxFaults
  /\ starts \in 0 .. (MaxFaults + Cardinality(Slot))

\* No two processes ever run the same job (claim_job, the stale sweep and the
\* local recovery together), while none outlives the cutoff of the sweep.
SoleRunner ==
  \A s, t \in Slot : \A j \in Job : Runs(s, j) /\ Runs(t, j) => s = t

\* The stage a row shows for the pipeline position of the process running it.
StageShown(k, p) ==
  CASE p = "claimed" -> "queued"
    [] p \in {"stored", "saved"} ->
         IF k = "transcribe" THEN "transcribing" ELSE "rendering"
    [] OTHER -> p

\* While a process runs a job, the row says so: it carries that process's
\* claim and the stage it is in, whatever sweeps, recoveries and failures of
\* others happened meanwhile.  update_job and requeue_job rely on it, for
\* neither looks at claimed_by.
RowMatchesRunner ==
  \A s \in Slot : \A j \in Job :
    Runs(s, j) /\ Exists(j) =>
      /\ jobs[j].claimedBy = Id(s)
      /\ jobs[j].stage = StageShown(KindOf[j], pc[s])

\* A claim in the name of a live process is a job that process is running:
\* what recover_local_claims assumes when it leaves a live pid's job alone.
LiveClaimIsRun ==
  \A s \in Slot : \A j \in Job :
    Up(s) /\ Exists(j) /\ jobs[j].claimedBy = Id(s) => Runs(s, j)

\* An unfinished job is either claimable or claimed, hence visible to
\* claim_job or to one of the two recoveries; none is left in mid-stage with
\* no claim, where nothing looks.
NoLostJob ==
  \A j \in Job : Exists(j) /\ jobs[j].stage \notin Terminal =>
    Claimable(j) \/ Claimed(j)

\* A finished or failed job carries no claim.
TerminalUnclaimed ==
  \A j \in Job : jobs[j].stage \in Terminal => ~Claimed(j)

\* Nothing brings a finished or failed job back: neither recovery, nor a
\* progress write of a process that lost its claim.
TerminalIsFinal ==
  [][\A j \in Job : jobs[j].stage \in Terminal =>
       jobs'[j].stage \in {jobs[j].stage, "deleted"}]_qvars

\* handle_failure stops at worker_max_attempts; only a worker's death buys a
\* job further runs, one each.
AttemptsBounded == \A j \in Job : jobs[j].attempts <= MaxAttempts + faults

\* The abstract view: a job is running while some process runs it, whatever
\* the row's claim says, and waiting when it is unfinished and nobody does.
RunnerOf(j) ==
  IF Exists(j) /\ \E s \in Slot : Runs(s, j)
    THEN CHOOSE s \in Slot : Runs(s, j) ELSE None
StatusOf(j) ==
  CASE jobs[j].stage \in NoRow -> jobs[j].stage
    [] jobs[j].stage \in {"awaiting_review", "done"} -> "finished"
    [] jobs[j].stage = "failed" -> "failed"
    [] OTHER -> IF RunnerOf(j) = None THEN "waiting" ELSE "running"

LC == INSTANCE JobLifecycle WITH
  Runner <- Slot,
  status <- [j \in Job |-> StatusOf(j)],
  runner <- [j \in Job |-> RunnerOf(j)]

\* The queue implements the life cycle it promises.
ImplementsLifecycle == LC!Spec

\* Every job is finished, failed or deleted in the end, although workers
\* crash and are signalled (finitely often) and restarted.
EveryJobSettles == LC!JobsSettle
(***************************************************************************)
(* The strengthening that is inductive when runs are bounded by the cutoff *)
(* and recoveries are undisturbed (BoundedJobs, AtomicRecovery).           *)
(***************************************************************************)
\* Two live processes never have the same worker id.
IdsUnique == \A s, t \in Slot : Up(s) /\ Up(t) /\ Id(s) = Id(t) => s = t

\* A process holds a job exactly while its pipeline runs, one whose row was
\* inserted and whose kind has that stage; outside the recovery loop nothing
\* is left to look at.
HeldOK ==
  \A s \in Slot :
    /\ pc[s] \in Running <=> held[s] # None
    /\ held[s] # None => jobs[held[s]].stage # "unborn"
    /\ pc[s] \in {"normalizing", "diarizing", "transcribing"} =>
         KindOf[held[s]] = "transcribe"
    /\ pc[s] \in {"summarizing", "rendering"} => KindOf[held[s]] = "summarize"
    /\ pc[s] # "recover" => todo[s] = {}

\* A running claim is not yet stale.
RunsAreFresh ==
  \A s \in Slot : \A j \in Job :
    Runs(s, j) /\ Exists(j) => now <= jobs[j].claimedAt + StaleAfter

\* What a recovery loop read is still so when it acts on it.
OneRecovery ==
  \A s, t \in Slot : pc[s] = "recover" /\ pc[t] = "recover" => s = t
TodoCurrent ==
  \A s \in Slot : \A c \in todo[s] :
    /\ jobs[c[1]].stage # "unborn"
    /\ Exists(c[1]) => /\ jobs[c[1]].claimedBy = <<HostOf[s], c[2]>>
                       /\ jobs[c[1]].stage \notin Terminal

\* With fresh pids: no row and no slot has a pid not yet given out.
PidsGiven ==
  /\ \A s \in Slot : pid[s] <= starts
  /\ \A j \in Job : Claimed(j) => jobs[j].claimedBy[2] <= starts
  /\ \A s, t \in Slot : pid[s] = pid[t] /\ pid[s] # 0 => s = t
  /\ \A s \in Slot : Up(s) => pid[s] # 0

OrderInv == /\ TypeOK /\ IdsUnique /\ HeldOK /\ RunsAreFresh /\ OneRecovery
            /\ TodoCurrent /\ SoleRunner /\ RowMatchesRunner /\ NoLostJob
            /\ TerminalUnclaimed /\ (~ReusePid => PidsGiven)
=============================================================================
