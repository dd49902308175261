---------------------------- MODULE WorkerHealth ----------------------------
(***************************************************************************)
(* The heartbeat: a thread beside the main program of every worker         *)
(* (worker/main.py heartbeat_loop), the one row they all write (db.beat),  *)
(* the freshness rule of GET /health (db.last_beat) and the banner that    *)
(* polls it (web App.tsx); from the start of the processes on              *)
(* (Migrations).  Of the main program it matters only that it is busy for  *)
(* any length of time, with the models or with a job; the rest of it is    *)
(* JobQueue.                                                               *)
(*                                                                         *)
(* Time passes in units of five seconds, and only ages are kept.           *)
(***************************************************************************)
EXTENDS Migrations

CONSTANTS
  Api,         \* the process that answers GET /health; the others are workers
  Interval,    \* settings.worker_heartbeat_seconds
  Fresh,       \* the 30 seconds of last_beat
  Patience,    \* busy_timeout: how long a statement waits for the lock
  MaxMisses    \* bound: beats that raise

ASSUME HealthAssumption ==
  /\ Api \in Process
  /\ {Interval, Fresh, Patience} \subseteq Nat \ {0}
  /\ MaxMisses \in Nat
  /\ Interval + 2 * Patience < Fresh

VARIABLES
  beat,      \* age of the row's beat_at; Fresh when older, or without a row
  beater,    \* per worker: its heartbeat thread
  misses,    \* beats that raised so far
  gone,      \* history: time since a worker was last there, at most Fresh
  banner     \* the page says that no worker is running

hvars == <<beat, beater, misses, gone, banner>>
vars == <<mvars, hvars>>

Worker == Process \ {Api}
Age == 0 .. Fresh
Older(a) == IF a < Fresh THEN a + 1 ELSE Fresh

\* Where the thread is (connecting, in db.beat, in stop.wait, ended), for how
\* long, and whether its last beat was written.
Thread == [at: {"off", "connect", "write", "wait"}, age: Age, wrote: BOOLEAN]
NoThread == [at |-> "off", age |-> 0, wrote |-> FALSE]
Now(w, place) == [at |-> place, age |-> 0, wrote |-> beater[w].wrote]

HInit == /\ MInit
         /\ beat = Fresh
         /\ beater = [w \in Worker |-> NoThread]
         /\ misses = 0 /\ gone = Fresh /\ banner = FALSE

\* last_beat: age < 30.
Alive == beat < Fresh

AnyUp == \E w \in Worker : Up(w)
-----------------------------------------------------------------------------
\* main: the thread is started before the recoveries and the models.
Begin(p) ==
  /\ at[p] = "migrated"
  /\ Go(p, IF p = Api THEN "idle" ELSE "busy")
  /\ beater' = [w \in Worker |->
       IF w = p THEN [NoThread EXCEPT !.at = "connect"] ELSE beater[w]]
  /\ gone' = IF p = Api THEN gone ELSE 0
  /\ UNCHANGED <<ran, applied, done, next, faults, beat, misses, banner>>

\* The models are loaded, or a job is over; a job is claimed.
Turn(w) ==
  /\ \/ at[w] = "busy" /\ Go(w, "idle")
     \/ at[w] = "idle" /\ Go(w, "busy")
  /\ UNCHANGED <<ran, applied, done, next, faults, hvars>>

\* with db.connection(): the thread's own.  What it raises ends the thread,
\* and the worker works on without one.
Connect(w) ==
  /\ beater[w].at = "connect"
  /\ beater' = [beater EXCEPT ![w] = Now(w, "write")]
  /\ UNCHANGED <<mvars, beat, misses, gone, banner>>

ConnectFails(w) ==
  /\ beater[w].at = "connect"
  /\ misses < MaxMisses
  /\ misses' = misses + 1
  /\ beater' = [beater EXCEPT ![w] = NoThread]
  /\ UNCHANGED <<mvars, beat, gone, banner>>

\* stop.wait(interval) is over: db.beat takes the time, then waits for the lock.
NextBeat(w) ==
  /\ beater[w].at = "wait" /\ beater[w].age = Interval
  /\ beater' = [beater EXCEPT ![w] = Now(w, "write")]
  /\ UNCHANGED <<mvars, beat, misses, gone, banner>>

\* The row gets the time taken before the wait, even if it has a later one by
\* now, from another worker.
Beat(w) ==
  /\ beater[w].at = "write"
  /\ beat' = beater[w].age
  /\ beater' = [beater EXCEPT ![w] = [at |-> "wait", age |-> 0, wrote |-> TRUE]]
  /\ UNCHANGED <<mvars, misses, gone, banner>>

\* A beat that raises is logged and forgotten.
MissBeat(w) ==
  /\ beater[w].at = "write"
  /\ misses < MaxMisses
  /\ misses' = misses + 1
  /\ beater' = [beater EXCEPT ![w] = [at |-> "wait", age |-> 0, wrote |-> FALSE]]
  /\ UNCHANGED <<mvars, beat, gone, banner>>

LeftBeating(p) == UNCHANGED beater

\* The process ends: the thread has been told to stop and was joined, or is a
\* daemon and dies with it.
StopBeating(p) ==
  beater' = [w \in Worker |-> IF w = p THEN NoThread ELSE beater[w]]

End(p) ==
  /\ Kill(p) \/ Halt(p)
  /\ StopBeating(p)
  /\ UNCHANGED <<beat, misses, gone, banner>>

DueBetweenJobs(w) == at[w] = "idle" =>
                     (beater[w].at = "wait" => beater[w].age < Interval)

\* Five seconds pass.  Threads are punctual: no statement waits longer than
\* busy_timeout, and a wait ends on time.
Due(w) == CASE beater[w].at \in {"connect", "write"} -> beater[w].age < Patience
            [] beater[w].at = "wait" -> beater[w].age < Interval
            [] OTHER -> TRUE

Pass ==
  /\ \A w \in Worker : Due(w)
  /\ beat' = Older(beat)
  /\ gone' = IF AnyUp THEN 0 ELSE Older(gone)
  /\ beater' = [w \in Worker |->
       IF beater[w].at = "off" THEN beater[w] ELSE [beater[w] EXCEPT !.age = @ + 1]]
  /\ UNCHANGED <<mvars, misses, banner>>

PollLatched ==
  /\ at[Api] = "idle"
  /\ banner' = (banner \/ ~Alive)
  /\ UNCHANGED <<mvars, beat, beater, misses, gone>>

\* GET /health, asked by the banner every 15 seconds; an error leaves the page
\* with the answer it had.
PollHealth ==
  /\ at[Api] = "idle"
  /\ banner' = ~Alive
  /\ UNCHANGED <<mvars, beat, beater, misses, gone>>

StartUp(p) == \/ (Boot(p) \/ Migrate(p)) /\ UNCHANGED hvars
              \/ Begin(p)

HNext ==
  \/ Pass \/ PollHealth
  \/ \E p \in Process : StartUp(p) \/ End(p)
  \/ \E w \in Worker : \/ Turn(w) \/ Connect(w) \/ ConnectFails(w)
                       \/ NextBeat(w) \/ Beat(w) \/ MissBeat(w)

HSpec == HInit /\ [][HNext]_vars

\* Processes are restarted and run, time passes, threads run and the page polls.
\* No job need come or end, and nothing need fail.
HFairSpec ==
  /\ HSpec
  /\ \A p \in Process : WF_vars(StartUp(p))
  /\ WF_vars(Pass) /\ WF_vars(PollHealth)
  /\ \A w \in Worker : WF_vars(Connect(w) \/ NextBeat(w) \/ Beat(w))
-----------------------------------------------------------------------------
\* A worker whose last beat was written is never reported dead, however long
\* the job it is busy with, and whatever slower worker writes the same row.
BusyIsAlive == \A w \in Worker : beater[w].wrote => Alive

\* Alive is not remembered: 30 seconds after the last worker is gone, however
\* it went, /health says so.
DeadIsNoticed == gone = Fresh => ~Alive

\* Types; a thread is only there while its process is, and is punctual.
HTypeOK ==
  /\ beat \in Age /\ gone \in Age
  /\ beater \in [Worker -> Thread]
  /\ misses \in 0 .. MaxMisses
  /\ banner \in BOOLEAN

\* The longest time until the thread's next beat is in the row.
Left(w) == IF beater[w].at = "wait"
             THEN Interval - beater[w].age + Patience
             ELSE Patience - beater[w].age

\* The strengthening: before a row gets old the next beat is written, which
\* may itself be as old as a statement can wait; and a live thread means that
\* a worker is there.
ThreadInv(w) ==
  /\ beater[w].at # "off" => gone = 0 /\ at[w] \in {"idle", "busy"}
  /\ beater[w].at \in {"connect", "write"} => beater[w].age <= Patience
  /\ beater[w].at = "wait" => beater[w].age <= Interval
  /\ beater[w].wrote => /\ beater[w].at \in {"write", "wait"}
                        /\ beat + Left(w) <= Interval + 2 * Patience

HInv == /\ MInv /\ HTypeOK
        /\ beat >= gone
        /\ \A w \in Worker : ThreadInv(w)

\* The banner comes to say what is, while there is an API to ask: it shows for
\* good once no worker is left, and is taken back for good where one beats.
BannerFollows ==
  <>[](at[Api] = "idle") =>
    /\ <>[](\A w \in Worker : ~Up(w)) => <>[]banner
    /\ <>[](\E w \in Worker : beater[w].wrote) => <>[](~banner)
=============================================================================
