---------------------------- MODULE JobLifecycle ----------------------------
(***************************************************************************)
(* What the queue promises about a job, with no table, claim, clock or     *)
(* process in sight: a submitted job is run by one worker at a time, may be *)
(* given back to be run again, and once settled stays settled.             *)
(***************************************************************************)
CONSTANTS Job, Runner, None

VARIABLES status, runner

Settled == {"finished", "failed"}
Status == {"unborn", "waiting", "running", "deleted"} \cup Settled

Init == /\ status = [j \in Job |-> "unborn"]
        /\ runner = [j \in Job |-> None]

Set(j, st, w) == /\ status' = [status EXCEPT ![j] = st]
                 /\ runner' = [runner EXCEPT ![j] = w]

Submit(j) == status[j] = "unborn" /\ Set(j, "waiting", None)

\* A worker with nothing in hand takes a waiting job.
Take(w, j) == /\ status[j] = "waiting"
              /\ \A i \in Job : runner[i] # w
              /\ Set(j, "running", w)

\* The worker failed with attempts left, or died.
GiveBack(j) == status[j] = "running" /\ Set(j, "waiting", None)

Settle(j) == status[j] = "running" /\ \E st \in Settled : Set(j, st, None)

\* A meeting may be deleted at any time.
Delete(j) == status[j] \notin {"unborn", "deleted"} /\ Set(j, "deleted", None)

Next == \E j \in Job : \/ Submit(j) \/ GiveBack(j) \/ Settle(j) \/ Delete(j)
                       \/ \E w \in Runner : Take(w, j)

Spec == Init /\ [][Next]_<<status, runner>>

\* Every submitted job is settled, unless its meeting is deleted first.
JobsSettle ==
  \A j \in Job :
    status[j] \in {"waiting", "running"} ~> status[j] \in Settled \cup {"deleted"}
=============================================================================
