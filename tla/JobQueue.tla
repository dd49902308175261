------------------------------ MODULE JobQueue ------------------------------
(***************************************************************************)
(* The jobs table as a queue, and the worker processes that serve it       *)
(* (sarai/db.py, sarai/worker/main.py, sarai/worker/stages.py).            *)
(*                                                                         *)
(* One row per job.  A worker process occupies a slot (a compose replica,  *)
(* or a terminal running "make worker") and runs, at start-up, the stale   *)
(* sweep, then the recovery of this host's claims, then the claim loop.    *)
(* Every statement the code executes in autocommit mode is one action, so  *)
(* the statements of different processes interleave.  A crash may fall     *)
(* between any two statements.                                             *)
(*                                                                         *)
(* claimed_by and claimed_at are written together by every statement;      *)
(* claimedBy = None stands for both being NULL, and claimedAt is 0 then.   *)
(***************************************************************************)
EXTENDS Naturals, FiniteSets

CONSTANTS
  Job,             \* job ids (uuid4, never reused)
  KindOf,          \* [Job -> JobKind]
  Slot,            \* places where one worker process runs at a time
  Host,            \* hostnames
  HostOf,          \* [Slot -> Host]
  None,            \* SQL NULL, Python None
  MaxAttempts,     \* settings.worker_max_attempts
  StaleAfter,      \* settings.worker_stale_claim_minutes, in clock ticks
  MaxTime,         \* bound: last instant of the clock
  MaxFaults,       \* bound: crashes and stop signals in a behaviour
  ReusePid,        \* a restarted worker has its predecessor's pid (a container)
  BoundedJobs,     \* assumption: a run is never older than StaleAfter
  AtomicRecovery   \* assumption: no other worker moves during a recovery loop

JobKind == {"transcribe", "summarize"}

Terminal == {"awaiting_review", "done", "failed"}
Stage == {"queued", "normalizing", "diarizing", "transcribing",
          "summarizing", "rendering"} \cup Terminal
\* A row not yet inserted, and a row deleted with its meeting.
NoRow == {"unborn", "deleted"}

\* os.getpid() of a worker, and worker_id(): "hostname:pid".
Pid == 0 .. (MaxFaults + Cardinality(Slot))
WorkerId == Host \X Pid
Time == 0 .. MaxTime

\* Where the pipeline of a process stands: the last stage it entered.
Running == {"claimed", "normalizing", "diarizing", "transcribing",
            "summarizing", "rendering", "stored", "saved"}
Control == {"down", "sweep", "read", "recover", "idle"} \cup Running

ASSUME ConstantsAssumption ==
  /\ KindOf \in [Job -> JobKind]
  /\ HostOf \in [Slot -> Host]
  /\ IsFiniteSet(Slot)
  /\ None \notin Job \cup Slot \cup WorkerId
  /\ MaxAttempts \in Nat \ {0}
  /\ StaleAfter \in Nat \ {0}
  /\ MaxTime \in Nat
  /\ MaxFaults \in Nat
  /\ {ReusePid, BoundedJobs, AtomicRecovery} \subseteq BOOLEAN

\* One worker process per host: what a container, with a hostname and a pid
\* namespace of its own, gives.  A reused pid only makes sense there.
OneSlotPerHost == \A s, t \in Slot : HostOf[s] = HostOf[t] => s = t
ASSUME ReusePidAssumption == ReusePid => OneSlotPerHost

VARIABLES
  jobs,     \* the jobs table
  now,      \* the clock, at the resolution of the timestamps
  pc,       \* per slot: where its process is
  pid,      \* per slot: pid of its present or last process
  held,     \* per slot: the Job object in hand, or None
  tries,    \* per slot: job.attempts as the claim returned it
  stop,     \* per slot: the _stop flag
  todo,     \* per slot: rows claims_by_host returned and not yet looked at
  faults,   \* crashes and signals so far
  starts    \* processes started so far: the source of fresh pids

qvars == <<jobs, now, pc, pid, held, tries, stop, todo, faults, starts>>
-----------------------------------------------------------------------------
Row == [stage: Stage \cup NoRow, claimedBy: WorkerId \cup {None},
        claimedAt: Time, updatedAt: Time, attempts: Nat]

Blank(st) == [stage |-> st, claimedBy |-> None, claimedAt |-> 0,
              updatedAt |-> 0, attempts |-> 0]

Exists(j) == jobs[j].stage \notin NoRow
Claimed(j) == jobs[j].claimedBy # None
Id(s) == <<HostOf[s], pid[s]>>
Up(s) == pc[s] # "down"
Runs(s, j) == pc[s] \in Running /\ held[s] = j

\* An UPDATE ... WHERE id = j: no row, no effect.
Update(j, row) ==
  jobs' = IF Exists(j) THEN [jobs EXCEPT ![j] = row] ELSE jobs

\* Every write stamps updated_at.
Stamped(st, by, at, n) ==
  [stage |-> st, claimedBy |-> by, claimedAt |-> at, updatedAt |-> now,
   attempts |-> n]

RequeuedInStage(j) == Stamped(jobs[j].stage, None, 0, jobs[j].attempts)
RequeuedClaimed(j) ==
  Stamped("queued", jobs[j].claimedBy, jobs[j].claimedAt, jobs[j].attempts)

\* requeue_job, and one row of release_stale_claims: no look at the stage, at
\* the claim or at the attempts.
Requeued(j) == Stamped("queued", None, 0, jobs[j].attempts)

\* update_job(stage=st) and update_job(stage=st, release=True).
Written(j, st) ==
  Stamped(st, jobs[j].claimedBy, jobs[j].claimedAt, jobs[j].attempts)
ReleasedNot(j, st) == Written(j, st)
Released(j, st) == Stamped(st, None, 0, jobs[j].attempts)

\* kill(p, 0) on host h.
PidAlive(h, p) == \E s \in Slot : Up(s) /\ HostOf[s] = h /\ pid[s] = p

\* No other process is inside its recovery loop.
Undisturbed(s) ==
  AtomicRecovery => \A t \in Slot \ {s} : pc[t] # "recover"

Drop(s) == /\ held' = [held EXCEPT ![s] = None]
           /\ tries' = [tries EXCEPT ![s] = 0]
-----------------------------------------------------------------------------
Init ==
  /\ jobs = [j \in Job |-> Blank("unborn")]
  /\ now = 0
  /\ pc = [s \in Slot |-> "down"]
  /\ pid = [s \in Slot |-> 0]
  /\ held = [s \in Slot |-> None]
  /\ tries = [s \in Slot |-> 0]
  /\ stop = [s \in Slot |-> FALSE]
  /\ todo = [s \in Slot |-> {}]
  /\ faults = 0
  /\ starts = 0

\* create_job, from an upload or from POST /summarize.
CreateJob(j) ==
  /\ jobs[j].stage = "unborn"
  /\ jobs' = [jobs EXCEPT ![j] = Stamped("queued", None, 0, 0)]
  /\ UNCHANGED <<now, pc, pid, held, tries, stop, todo, faults, starts>>

\* DELETE /meetings/{id} takes the meeting's jobs with it, running or not.
DeleteJob(j) ==
  /\ Exists(j)
  /\ jobs' = [jobs EXCEPT ![j] = Blank("deleted")]
  /\ UNCHANGED <<now, pc, pid, held, tries, stop, todo, faults, starts>>

\* A clock tick.  Under BoundedJobs, no run becomes older than the cutoff.
Tick ==
  /\ now < MaxTime
  /\ BoundedJobs =>
       \A s \in Slot : pc[s] \in Running =>
         LET row == jobs[held[s]] IN
         row.claimedBy = Id(s) => now < row.claimedAt + StaleAfter
  /\ now' = now + 1
  /\ UNCHANGED <<jobs, pc, pid, held, tries, stop, todo, faults, starts>>
-----------------------------------------------------------------------------
\* A process starts in a slot: by hand, or by "restart: unless-stopped".
Start(s) ==
  /\ pc[s] = "down"
  /\ starts < MaxFaults + Cardinality(Slot)
  /\ starts' = starts + 1
  /\ pid' = [pid EXCEPT ![s] = IF ReusePid THEN 1 ELSE starts + 1]
  /\ pc' = [pc EXCEPT ![s] = "sweep"]
  /\ stop' = [stop EXCEPT ![s] = FALSE]
  /\ UNCHANGED <<jobs, now, held, tries, todo, faults>>

StaleNoCutoff(j) == /\ Exists(j) /\ Claimed(j)
                    /\ jobs[j].stage \notin Terminal

Stale(j) == /\ Exists(j) /\ Claimed(j)
            /\ jobs[j].claimedAt + StaleAfter < now
            /\ jobs[j].stage \notin Terminal

\* release_stale_claims: one UPDATE over all the stale rows.
SweepStale(s) ==
  /\ pc[s] = "sweep"
  /\ Undisturbed(s)
  /\ jobs' = [j \in Job |-> IF Stale(j) THEN Requeued(j) ELSE jobs[j]]
  /\ pc' = [pc EXCEPT ![s] = "read"]
  /\ UNCHANGED <<now, pid, held, tries, stop, todo, faults, starts>>

\* claims_by_host: (job, pid) of this host's claims on unfinished jobs.
ClaimsByHost(h) ==
  {<<j, jobs[j].claimedBy[2]>> :
     j \in {i \in Job : /\ Exists(i) /\ Claimed(i)
                        /\ jobs[i].claimedBy[1] = h
                        /\ jobs[i].stage \notin Terminal}}

ReadClaims(s) ==
  /\ pc[s] = "read"
  /\ Undisturbed(s)
  /\ todo' = [todo EXCEPT ![s] = ClaimsByHost(HostOf[s])]
  /\ pc' = [pc EXCEPT ![s] = "recover"]
  /\ UNCHANGED <<jobs, now, pid, held, tries, stop, faults, starts>>

RecoverAnyPid(s, c) ==
  /\ pc[s] = "recover"
  /\ Undisturbed(s)
  /\ c \in todo[s]
  /\ Update(c[1], Requeued(c[1]))
  /\ todo' = [todo EXCEPT ![s] = @ \ {c}]
  /\ UNCHANGED <<now, pc, pid, held, tries, stop, faults, starts>>

\* One turn of the loop of recover_local_claims: a dead pid's job is requeued,
\* on the strength of the row as it was read.
RecoverOne(s, c) ==
  /\ pc[s] = "recover"
  /\ Undisturbed(s)
  /\ c \in todo[s]
  /\ IF PidAlive(HostOf[s], c[2])
       THEN jobs' = jobs
       ELSE Update(c[1], Requeued(c[1]))
  /\ todo' = [todo EXCEPT ![s] = @ \ {c}]
  /\ UNCHANGED <<now, pc, pid, held, tries, stop, faults, starts>>

\* The loop is over and the models are loaded.
EnterLoop(s) ==
  /\ pc[s] = "recover"
  /\ todo[s] = {}
  /\ pc' = [pc EXCEPT ![s] = "idle"]
  /\ UNCHANGED <<jobs, now, pid, held, tries, stop, todo, faults, starts>>
-----------------------------------------------------------------------------
ClaimableUnclaimed(j) == Exists(j) /\ ~Claimed(j)
ClaimableStageOnly(j) == jobs[j].stage = "queued"

\* The WHERE of claim_job, and its ORDER BY updated_at LIMIT 1; within one
\* second the order of two rows is the database's choice.
Claimable(j) == jobs[j].stage = "queued" /\ ~Claimed(j)
Oldest(j) == \A i \in Job : Claimable(i) => jobs[j].updatedAt <= jobs[i].updatedAt

ClaimJob(s, j) ==
  /\ pc[s] = "idle" /\ ~stop[s]
  /\ Undisturbed(s)
  /\ Claimable(j) /\ Oldest(j)
  /\ Update(j, Stamped("queued", Id(s), now, jobs[j].attempts + 1))
  /\ held' = [held EXCEPT ![s] = j]
  /\ tries' = [tries EXCEPT ![s] = jobs[j].attempts + 1]
  /\ pc' = [pc EXCEPT ![s] = "claimed"]
  /\ UNCHANGED <<now, pid, stop, todo, faults, starts>>

\* claim_job returned nothing: sleep worker_poll_seconds.
Poll(s) ==
  /\ pc[s] = "idle" /\ ~stop[s]
  /\ \A j \in Job : ~Claimable(j)
  /\ UNCHANGED qvars

Next1Misnamed(k, p) ==
  IF k = "transcribe"
    THEN CASE p = "claimed" -> "normalizing"
           [] p = "normalizing" -> "diarization"
           [] p = "diarization" -> "transcribing"
           [] OTHER -> "none"
    ELSE CASE p = "claimed" -> "summarizing"
           [] p = "summarizing" -> "rendering"
           [] OTHER -> "none"

\* The stage a process writes next, from the one it entered last.
Next1(k, p) ==
  IF k = "transcribe"
    THEN CASE p = "claimed" -> "normalizing"
           [] p = "normalizing" -> "diarizing"
           [] p = "diarizing" -> "transcribing"
           [] OTHER -> "none"
    ELSE CASE p = "claimed" -> "summarizing"
           [] p = "summarizing" -> "rendering"
           [] OTHER -> "none"

\* _progress(stage): normalize, diarize_and_transcribe and summarize first
\* look the meeting up, and raise if it is gone; the later writes do not look.
Advance(s) ==
  LET j == held[s]
      st == Next1(KindOf[j], pc[s])
  IN /\ pc[s] \in Running
     /\ st # "none"
     /\ Undisturbed(s)
     /\ st \in {"normalizing", "diarizing", "summarizing"} => Exists(j)
     /\ Update(j, Written(j, st))
     /\ pc' = [pc EXCEPT ![s] = st]
     /\ UNCHANGED <<now, pid, held, tries, stop, todo, faults, starts>>

\* A further progress write of the same stage (every tenth turn, every part
\* of a long transcript, the 0.95 after rendering).
Repeat(s) ==
  LET j == held[s]
      st == IF pc[s] = "saved" THEN "rendering" ELSE pc[s]
  IN /\ pc[s] \in Running \ {"claimed", "stored"}
     /\ pc[s] = "saved" => KindOf[j] = "summarize"
     /\ Undisturbed(s)
     /\ Update(j, Written(j, st))
     /\ UNCHANGED <<now, pc, pid, held, tries, stop, todo, faults, starts>>

StoreShowsReview(s) ==
  /\ pc[s] \in {"transcribing", "rendering"}
  /\ Undisturbed(s)
  /\ pc[s] = "transcribing" => Exists(held[s])
  /\ Update(held[s], Written(held[s], "awaiting_review"))
  /\ pc' = [pc EXCEPT ![s] = "stored"]
  /\ UNCHANGED <<now, pid, held, tries, stop, todo, faults, starts>>

\* The first half of a job's result: save_transcript, whose foreign key to
\* meetings raises when the meeting is gone, or docgen.render, which only
\* writes a file.
Store(s) ==
  /\ pc[s] \in {"transcribing", "rendering"}
  /\ Undisturbed(s)
  /\ pc[s] = "transcribing" => Exists(held[s])
  /\ pc' = [pc EXCEPT ![s] = "stored"]
  /\ UNCHANGED <<jobs, now, pid, held, tries, stop, todo, faults, starts>>

\* The second half: save_speakers, or save_summary; both have the foreign key.
Save(s) ==
  /\ pc[s] = "stored"
  /\ Undisturbed(s)
  /\ Exists(held[s])
  /\ pc' = [pc EXCEPT ![s] = "saved"]
  /\ UNCHANGED <<jobs, now, pid, held, tries, stop, todo, faults, starts>>

Finish(s) ==
  LET j == held[s]
      st == IF KindOf[j] = "transcribe" THEN "awaiting_review" ELSE "done"
  IN /\ pc[s] = "saved"
     /\ Undisturbed(s)
     /\ Update(j, Released(j, st))
     /\ pc' = [pc EXCEPT ![s] = "idle"]
     /\ Drop(s)
     /\ UNCHANGED <<now, pid, stop, todo, faults, starts>>

RetryAlways(s) ==
  LET j == held[s]
  IN /\ pc[s] \in Running
     /\ Undisturbed(s)
     /\ Update(j, Requeued(j))
     /\ pc' = [pc EXCEPT ![s] = "idle"]
     /\ Drop(s)
     /\ UNCHANGED <<now, pid, stop, todo, faults, starts>>

\* handle_failure, after an exception anywhere in the job: requeue while the
\* attempts last, ...
Retry(s) ==
  LET j == held[s]
  IN /\ pc[s] \in Running
     /\ Undisturbed(s)
     /\ tries[s] < MaxAttempts
     /\ Update(j, Requeued(j))
     /\ pc' = [pc EXCEPT ![s] = "idle"]
     /\ Drop(s)
     /\ UNCHANGED <<now, pid, stop, todo, faults, starts>>

\* ... and fail the job after that, or at once on a StageFailed, which only
\* summarize raises.
CanStageFail(s) == /\ KindOf[held[s]] = "summarize"
                   /\ pc[s] \in {"claimed", "summarizing"}

GiveUp(s) ==
  LET j == held[s]
  IN /\ pc[s] \in Running
     /\ Undisturbed(s)
     /\ tries[s] >= MaxAttempts \/ CanStageFail(s)
     /\ Update(j, Released(j, "failed"))
     /\ pc' = [pc EXCEPT ![s] = "idle"]
     /\ Drop(s)
     /\ UNCHANGED <<now, pid, stop, todo, faults, starts>>
-----------------------------------------------------------------------------
\* SIGINT or SIGTERM: only the flag.
Signal(s) ==
  /\ Up(s) /\ ~stop[s]
  /\ faults < MaxFaults
  /\ faults' = faults + 1
  /\ stop' = [stop EXCEPT ![s] = TRUE]
  /\ UNCHANGED <<jobs, now, pc, pid, held, tries, todo, starts>>

\* while not _stop: main returns between two jobs.
Exit(s) ==
  /\ pc[s] = "idle" /\ stop[s]
  /\ pc' = [pc EXCEPT ![s] = "down"]
  /\ stop' = [stop EXCEPT ![s] = FALSE]
  /\ UNCHANGED <<jobs, now, pid, held, tries, todo, faults, starts>>

\* SIGKILL (also docker's, ten seconds after a SIGTERM), the OOM killer, a
\* reboot, or an exception out of handle_failure, claim_job or preload_models.
Crash(s) ==
  /\ Up(s)
  /\ faults < MaxFaults
  /\ faults' = faults + 1
  /\ pc' = [pc EXCEPT ![s] = "down"]
  /\ todo' = [todo EXCEPT ![s] = {}]
  /\ stop' = [stop EXCEPT ![s] = FALSE]
  /\ Drop(s)
  /\ UNCHANGED <<jobs, now, pid, starts>>

Recovery(s) == \/ SweepStale(s) \/ ReadClaims(s) \/ EnterLoop(s)
               \/ \E c \in todo[s] : RecoverOne(s, c)
Work(s) ==
  Advance(s) \/ Store(s) \/ Save(s) \/ Finish(s) \/ Retry(s) \/ GiveUp(s)
Worker(s) == \/ Start(s) \/ Recovery(s) \/ Poll(s) \/ Work(s) \/ Repeat(s)
             \/ \E j \in Job : ClaimJob(s, j)
             \/ Signal(s) \/ Exit(s) \/ Crash(s)
Client == \E j \in Job : CreateJob(j) \/ DeleteJob(j)

Next == Client \/ Tick \/ \E s \in Slot : Worker(s)

\* Supervision restarts a worker, the sequential main program keeps moving,
\* and every stage returns or raises.  Nothing else is fair: no job need be
\* created, no worker need crash or be signalled, the clock need not be read.
Fairness ==
  \A s \in Slot : /\ WF_qvars(Start(s) \/ Recovery(s) \/ Exit(s))
                  /\ WF_qvars(\E j \in Job : ClaimJob(s, j))
                  /\ WF_qvars(Work(s))

Spec == Init /\ [][Next]_qvars
FairSpec == Spec /\ Fairness
=============================================================================
