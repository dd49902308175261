--------------------------- MODULE JobQueueProofs ---------------------------
(***************************************************************************)
(* Proofs about the job queue, for every number of jobs, slots, hosts,     *)
(* attempts, faults and clock ticks.                                       *)
(***************************************************************************)
EXTENDS JobQueueProps, FiniteSetTheorems, TLAPS

LEMMA SlotCount == Cardinality(Slot) \in Nat
BY FS_CardinalityType, ConstantsAssumption

\* What the row updates of the code return is again a row.
LEMMA RowTypes ==
  ASSUME TypeOK, NEW j \in Job
  PROVE  /\ jobs[j] \in Row
         /\ Requeued(j) \in Row
         /\ \A st \in Stage : Written(j, st) \in Row /\ Released(j, st) \in Row
<1>1. jobs[j] \in Row /\ now \in Time /\ 0 \in Time
  BY ConstantsAssumption DEF TypeOK, Time
<1> QED BY <1>1 DEF Row, Requeued, Written, Released, Stamped, Stage

\* An update leaves a table.
LEMMA UpdateType ==
  ASSUME TypeOK, NEW j \in Job, NEW row \in Row, Update(j, row)
  PROVE  jobs' \in [Job -> Row]
BY DEF TypeOK, Update

LEMMA HeldIsJob ==
  ASSUME NEW s \in Slot, TypeOK, HeldOK, pc[s] \in Running
  PROVE  held[s] \in Job
BY DEF TypeOK, HeldOK

\* A job with work left to do.
Unsettled(j) == Exists(j) /\ jobs[j].stage \notin Terminal

\* The part of HeldOK that typing needs: a running process holds a job.
HoldsJob == \A s \in Slot : pc[s] \in Running => held[s] \in Job

TypeInv == TypeOK /\ HoldsJob

LEMMA TypeInvInit == Init => TypeInv
<1> USE ConstantsAssumption, SlotCount
<1> QED BY DEF Init, Blank, TypeInv, TypeOK, HoldsJob, Row, Time, Pid, WorkerId, Control,
               Running, NoRow

LEMMA TypeInvNext == TypeInv /\ [Next]_qvars => TypeInv'
<1> SUFFICES ASSUME TypeInv, [Next]_qvars PROVE TypeInv'
  OBVIOUS
<1> USE ConstantsAssumption, SlotCount
<1>a. TypeOK /\ HoldsJob
  BY DEF TypeInv
<1>1. ASSUME NEW j \in Job, CreateJob(j) PROVE TypeInv'
  BY <1>1, <1>a, RowTypes DEF CreateJob, Stamped, Time, TypeInv, TypeOK, HoldsJob, Row, Stage
<1>2. ASSUME NEW j \in Job, DeleteJob(j) PROVE TypeInv'
  BY <1>2, <1>a DEF DeleteJob, Blank, TypeInv, TypeOK, HoldsJob, Row, NoRow, Time
<1>3. ASSUME Tick PROVE TypeInv'
  BY <1>3, <1>a DEF Tick, TypeInv, TypeOK, HoldsJob, Time
<1>4. ASSUME NEW s \in Slot, Start(s) PROVE TypeInv'
  BY <1>4, <1>a DEF Start, TypeInv, TypeOK, HoldsJob, Pid, Control, Running
<1>5. ASSUME NEW s \in Slot, SweepStale(s) PROVE TypeInv'
  BY <1>5, <1>a, RowTypes
  DEF SweepStale, TypeInv, TypeOK, HoldsJob, Control, Running
<1>6. ASSUME NEW s \in Slot, ReadClaims(s) PROVE TypeInv'
  <2>1. ClaimsByHost(HostOf[s]) \subseteq Job \X Pid
    <3> SUFFICES ASSUME NEW j \in Job, Claimed(j)
                 PROVE  jobs[j].claimedBy[2] \in Pid
      BY DEF ClaimsByHost
    <3>1. jobs[j].claimedBy \in WorkerId
      BY <1>a, RowTypes DEF Row, Claimed
    <3> QED BY <3>1 DEF WorkerId
  <2> QED BY <1>6, <1>a, <2>1
      DEF ReadClaims, TypeInv, TypeOK, HoldsJob, Control, Running
<1>7. ASSUME NEW s \in Slot, NEW c \in todo[s], RecoverOne(s, c) PROVE TypeInv'
  <2>1. c[1] \in Job
    BY <1>a DEF TypeOK
  <2>2. jobs' \in [Job -> Row]
    BY <1>7, <1>a, <2>1, RowTypes, UpdateType DEF RecoverOne, TypeOK
  <2> QED BY <1>7, <1>a, <2>2 DEF RecoverOne, TypeInv, TypeOK, HoldsJob
<1>8. ASSUME NEW s \in Slot, EnterLoop(s) PROVE TypeInv'
  BY <1>8, <1>a DEF EnterLoop, TypeInv, TypeOK, HoldsJob, Control, Running
<1>9. ASSUME NEW s \in Slot, NEW j \in Job, ClaimJob(s, j) PROVE TypeInv'
  <2>1. /\ Id(s) \in WorkerId
        /\ jobs[j] \in Row
    BY <1>a, RowTypes DEF Id, WorkerId, TypeOK
  <2>2. jobs' \in [Job -> Row]
    <3>1. Stamped("queued", Id(s), now, jobs[j].attempts + 1) \in Row
      BY <1>a, <2>1 DEF TypeOK, Row, Stamped, Stage
    <3> QED BY <1>9, <1>a, <3>1, UpdateType DEF ClaimJob
  <2>3. tries' \in [Slot -> Nat]
    BY <1>9, <1>a, <2>1 DEF ClaimJob, TypeOK, Row
  <2> QED BY <1>9, <1>a, <2>2, <2>3
      DEF ClaimJob, TypeInv, TypeOK, HoldsJob, Control, Running
<1>10. ASSUME NEW s \in Slot, Advance(s) PROVE TypeInv'
  <2> DEFINE st == Next1(KindOf[held[s]], pc[s])
  <2>1. held[s] \in Job
    BY <1>10, <1>a DEF Advance, HoldsJob
  <2>2. st \in Stage /\ st \in Running
    BY <1>10 DEF Advance, Next1, Stage, Running
  <2>3. jobs' \in [Job -> Row]
    BY <1>10, <1>a, <2>1, <2>2, RowTypes, UpdateType DEF Advance
  <2> QED BY <1>10, <1>a, <2>1, <2>2, <2>3
      DEF Advance, TypeInv, TypeOK, HoldsJob, Control
<1>11. ASSUME NEW s \in Slot, Repeat(s) PROVE TypeInv'
  <2>1. held[s] \in Job
    BY <1>11, <1>a DEF Repeat, HoldsJob
  <2>2. jobs' \in [Job -> Row]
    BY <1>11, <1>a, <2>1, RowTypes, UpdateType DEF Repeat, Stage, Running
  <2> QED BY <1>11, <1>a, <2>2 DEF Repeat, TypeInv, TypeOK, HoldsJob
<1>12. ASSUME NEW s \in Slot, Save(s) PROVE TypeInv'
  BY <1>12, <1>a DEF Save, TypeInv, TypeOK, HoldsJob, Control, Running
<1>20. ASSUME NEW s \in Slot, Store(s) PROVE TypeInv'
  BY <1>20, <1>a DEF Store, TypeInv, TypeOK, HoldsJob, Control, Running
<1>13. ASSUME NEW s \in Slot, Finish(s) PROVE TypeInv'
  <2>1. held[s] \in Job
    BY <1>13, <1>a DEF Finish, HoldsJob, Running
  <2>2. jobs' \in [Job -> Row]
    BY <1>13, <1>a, <2>1, RowTypes, UpdateType DEF Finish, Stage, Terminal
  <2> QED BY <1>13, <1>a, <2>2
      DEF Finish, Drop, TypeInv, TypeOK, HoldsJob, Control, Running
<1>14. ASSUME NEW s \in Slot, Retry(s) PROVE TypeInv'
  <2>1. held[s] \in Job
    BY <1>14, <1>a DEF Retry, HoldsJob
  <2>2. jobs' \in [Job -> Row]
    BY <1>14, <1>a, <2>1, RowTypes, UpdateType DEF Retry
  <2> QED BY <1>14, <1>a, <2>2
      DEF Retry, Drop, TypeInv, TypeOK, HoldsJob, Control, Running
<1>15. ASSUME NEW s \in Slot, GiveUp(s) PROVE TypeInv'
  <2>1. held[s] \in Job
    BY <1>15, <1>a DEF GiveUp, HoldsJob
  <2>2. jobs' \in [Job -> Row]
    BY <1>15, <1>a, <2>1, RowTypes, UpdateType DEF GiveUp, Stage, Terminal
  <2> QED BY <1>15, <1>a, <2>2
      DEF GiveUp, Drop, TypeInv, TypeOK, HoldsJob, Control, Running
<1>16. ASSUME NEW s \in Slot, Signal(s) PROVE TypeInv'
  BY <1>16, <1>a DEF Signal, TypeInv, TypeOK, HoldsJob
<1>17. ASSUME NEW s \in Slot, Exit(s) PROVE TypeInv'
  BY <1>17, <1>a DEF Exit, TypeInv, TypeOK, HoldsJob, Control, Running
<1>18. ASSUME NEW s \in Slot, Crash(s) PROVE TypeInv'
  BY <1>18, <1>a DEF Crash, Drop, TypeInv, TypeOK, HoldsJob, Control, Running
<1>19. CASE UNCHANGED qvars
  BY <1>19, <1>a DEF qvars, TypeInv, TypeOK, HoldsJob
<1> QED
  BY <1>1, <1>2, <1>3, <1>4, <1>5, <1>6, <1>7, <1>8, <1>9, <1>10, <1>11, <1>12,
     <1>13, <1>14, <1>15, <1>16, <1>17, <1>18, <1>19, <1>20
  DEF Next, Client, Worker, Recovery, Work, Poll

\* The state variables of the queue and of its workers always have their
\* types, under every interleaving, crash and restart.
THEOREM TypeCorrect == Spec => []TypeOK
<1>1. Init => TypeInv
  BY TypeInvInit
<1>2. TypeInv /\ [Next]_qvars => TypeInv'
  BY TypeInvNext
<1>3. TypeInv => TypeOK
  BY DEF TypeInv
<1> QED BY <1>1, <1>2, <1>3, PTL DEF Spec

\* The deployment assumptions under which ownership is exclusive: no run
\* outlives the stale cutoff, and a recovery loop is not disturbed.
Orderly == BoundedJobs /\ AtomicRecovery

LEMMA OrderInvInit == Init => OrderInv
<1> SUFFICES ASSUME Init PROVE OrderInv
  OBVIOUS
<1>1. TypeOK
  BY TypeInvInit DEF TypeInv
<1> QED BY <1>1, ConstantsAssumption
    DEF Init, Blank, OrderInv, IdsUnique, HeldOK, RunsAreFresh, OneRecovery,
        TodoCurrent, SoleRunner, RowMatchesRunner, NoLostJob, TerminalUnclaimed,
        PidsGiven, Runs, Up, Claimed, Exists, NoRow, Terminal, Running

\* Outside a recovery loop, an undisturbed step finds every loop finished.
LEMMA NothingTodo ==
  ASSUME Orderly, OrderInv, NEW s \in Slot, Undisturbed(s), pc[s] # "recover"
  PROVE  \A t \in Slot : todo[t] = {}
BY DEF Orderly, OrderInv, HeldOK, Undisturbed

\* A process that drops its job while writing it queued or settled, unclaimed:
\* the common end of Finish, Retry and GiveUp.
LEMMA ReleaseStep ==
  ASSUME Orderly, OrderInv, HoldsJob, NEW s \in Slot, pc[s] \in Running,
         Undisturbed(s), NEW st \in {"queued"} \cup Terminal, NEW n,
         Update(held[s], Stamped(st, None, 0, n)),
         pc' = [pc EXCEPT ![s] = "idle"], Drop(s),
         UNCHANGED <<now, pid, stop, todo, faults, starts>>
  PROVE  /\ IdsUnique' /\ HeldOK' /\ RunsAreFresh' /\ OneRecovery'
         /\ TodoCurrent' /\ SoleRunner' /\ RowMatchesRunner' /\ NoLostJob'
         /\ TerminalUnclaimed' /\ (~ReusePid => PidsGiven)'
<1> DEFINE j == held[s]
<1>0. TypeOK /\ j \in Job /\ Runs(s, j)
  BY DEF OrderInv, HoldsJob, Runs
<1>1. /\ \A i \in Job : i # j => jobs'[i] = jobs[i]
      /\ IF Exists(j) THEN jobs'[j].stage = st /\ jobs'[j].claimedBy = None
                      ELSE jobs'[j] = jobs[j]
  BY <1>0 DEF Update, Stamped, TypeOK
<1>2. \A i \in Job : /\ Exists(i)' = Exists(i)
                     /\ jobs'[i].stage = "unborn" <=> jobs[i].stage = "unborn"
  BY <1>1 DEF Exists, NoRow, Terminal
<1>3. \A t \in Slot, i \in Job : Runs(t, i)' <=> Runs(t, i) /\ t # s
  BY <1>0, ConstantsAssumption DEF Runs, Drop, TypeOK, Running
<1>4. \A t \in Slot, i \in Job : Runs(t, i) /\ t # s => i # j
  BY <1>0 DEF OrderInv, SoleRunner
<1>5. \A t \in Slot : todo'[t] = {}
  BY NothingTodo DEF Running
<1>6. IdsUnique' /\ (~ReusePid => PidsGiven)'
  BY <1>0, <1>1 DEF OrderInv, IdsUnique, PidsGiven, Id, Up, Claimed, Running, TypeOK
<1>7. HeldOK'
  BY <1>0, <1>2, <1>5 DEF OrderInv, HeldOK, HoldsJob, Drop, TypeOK, Running
<1>8. OneRecovery'
  BY <1>0 DEF OrderInv, OneRecovery, TypeOK
<1>9. SoleRunner'
  BY <1>3 DEF OrderInv, SoleRunner
<1>10. RowMatchesRunner' /\ RunsAreFresh'
  <2> SUFFICES ASSUME NEW t \in Slot, NEW i \in Job, Runs(t, i)', Exists(i)'
               PROVE  /\ jobs'[i].claimedBy = Id(t)
                      /\ jobs'[i].stage = StageShown(KindOf[i], pc'[t])
                      /\ now <= jobs'[i].claimedAt + StaleAfter
    BY DEF RowMatchesRunner, RunsAreFresh, Id
  <2>1. Runs(t, i) /\ t # s /\ i # j /\ Exists(i)
    BY <1>2, <1>3, <1>4
  <2>2. jobs'[i] = jobs[i] /\ pc'[t] = pc[t]
    BY <1>0, <1>1, <2>1 DEF TypeOK
  <2> QED BY <2>1, <2>2 DEF OrderInv, RowMatchesRunner, RunsAreFresh
<1>11. TodoCurrent'
  BY <1>5 DEF TodoCurrent
<1>12. NoLostJob' /\ TerminalUnclaimed'
  BY <1>0, <1>1, <1>2
  DEF OrderInv, NoLostJob, TerminalUnclaimed, Claimable, Claimed, Terminal
<1> QED BY <1>6, <1>7, <1>8, <1>9, <1>10, <1>11, <1>12

LEMMA OrderInvNext ==
  ASSUME Orderly, OrderInv, [Next]_qvars PROVE OrderInv'
<1> USE ConstantsAssumption, SlotCount DEF Orderly
<1>0. TypeOK /\ HoldsJob /\ TypeOK'
  <2>1. HoldsJob
    BY HeldIsJob DEF OrderInv, HoldsJob
  <2> QED BY <2>1, TypeInvNext DEF OrderInv, TypeInv
<1>1. ASSUME NEW j \in Job, CreateJob(j) PROVE OrderInv'
  <2>1. IdsUnique' /\ (~ReusePid => PidsGiven)'
    BY <1>1, <1>0
    DEF CreateJob, Stamped, OrderInv, IdsUnique, PidsGiven, Id, Up, Claimed,
        Running, TypeOK
  <2>2. HeldOK' /\ OneRecovery'
    BY <1>1, <1>0
    DEF CreateJob, Stamped, OrderInv, HeldOK, OneRecovery, HoldsJob, Running,
        TypeOK
  <2>3. RowMatchesRunner' /\ SoleRunner'
    BY <1>1, <1>0
    DEF CreateJob, Stamped, OrderInv, RowMatchesRunner, SoleRunner, Runs,
        Exists, NoRow, Id, StageShown, Running, TypeOK, HeldOK, HoldsJob
  <2>4. RunsAreFresh'
    BY <1>1, <1>0
    DEF CreateJob, Stamped, OrderInv, RunsAreFresh, Runs, Exists, NoRow,
        Running, TypeOK, HeldOK, HoldsJob
  <2>5. TodoCurrent'
    BY <1>1, <1>0
    DEF CreateJob, Stamped, OrderInv, TodoCurrent, Exists, NoRow, TypeOK
  <2>6. NoLostJob' /\ TerminalUnclaimed'
    BY <1>1, <1>0
    DEF CreateJob, Stamped, OrderInv, NoLostJob, TerminalUnclaimed, Claimable,
        Claimed, Exists, NoRow, Terminal, TypeOK
  <2> QED BY <1>0, <2>1, <2>2, <2>3, <2>4, <2>5, <2>6 DEF OrderInv
<1>2. ASSUME NEW j \in Job, DeleteJob(j) PROVE OrderInv'
  <2>1. IdsUnique' /\ (~ReusePid => PidsGiven)'
    BY <1>2, <1>0
    DEF DeleteJob, Blank, OrderInv, IdsUnique, PidsGiven, Id, Up, Claimed,
        Running, TypeOK
  <2>2. HeldOK' /\ OneRecovery'
    BY <1>2, <1>0
    DEF DeleteJob, Blank, OrderInv, HeldOK, OneRecovery, HoldsJob, Running,
        TypeOK
  <2>3. RowMatchesRunner' /\ SoleRunner'
    BY <1>2, <1>0
    DEF DeleteJob, Blank, OrderInv, RowMatchesRunner, SoleRunner, Runs,
        Exists, NoRow, Id, StageShown, Running, TypeOK
  <2>4. RunsAreFresh'
    BY <1>2, <1>0
    DEF DeleteJob, Blank, OrderInv, RunsAreFresh, Runs, Exists, NoRow,
        Running, TypeOK
  <2>5. TodoCurrent'
    BY <1>2, <1>0
    DEF DeleteJob, Blank, OrderInv, TodoCurrent, Exists, NoRow, TypeOK
  <2>6. NoLostJob' /\ TerminalUnclaimed'
    BY <1>2, <1>0
    DEF DeleteJob, Blank, OrderInv, NoLostJob, TerminalUnclaimed, Claimable,
        Claimed, Exists, NoRow, Terminal, TypeOK
  <2> QED BY <1>0, <2>1, <2>2, <2>3, <2>4, <2>5, <2>6 DEF OrderInv
<1>3. ASSUME Tick PROVE OrderInv'
  <2>1. IdsUnique' /\ (~ReusePid => PidsGiven)'
    BY <1>3, <1>0
    DEF Tick, OrderInv, IdsUnique, PidsGiven, Id, Up, Claimed, Running, TypeOK
  <2>2. HeldOK' /\ OneRecovery'
    BY <1>3, <1>0
    DEF Tick, OrderInv, HeldOK, OneRecovery, HoldsJob, Running, TypeOK
  <2>3. RowMatchesRunner' /\ SoleRunner'
    BY <1>3, <1>0
    DEF Tick, OrderInv, RowMatchesRunner, SoleRunner, Runs, Exists, NoRow, Id,
        StageShown, Running, TypeOK
  <2>4. RunsAreFresh'
    <3> SUFFICES ASSUME NEW s \in Slot, NEW j \in Job, Runs(s, j), Exists(j)
                 PROVE  now + 1 <= jobs[j].claimedAt + StaleAfter
      BY <1>3 DEF Tick, RunsAreFresh, Runs, Exists
    <3>1. jobs[j].claimedBy = Id(s) /\ pc[s] \in Running /\ held[s] = j
      BY DEF OrderInv, RowMatchesRunner, Runs
    <3>2. now < jobs[j].claimedAt + StaleAfter
      BY <1>3, <3>1 DEF Tick
    <3>3. jobs[j].claimedAt \in Nat /\ now \in Nat
      BY <1>0 DEF TypeOK, Row, Time
    <3> QED BY <3>2, <3>3
  <2>5. TodoCurrent'
    BY <1>3, <1>0
    DEF Tick, OrderInv, TodoCurrent, Exists, NoRow, TypeOK
  <2>6. NoLostJob' /\ TerminalUnclaimed'
    BY <1>3, <1>0
    DEF Tick, OrderInv, NoLostJob, TerminalUnclaimed, Claimable, Claimed,
        Exists, NoRow, Terminal, TypeOK
  <2> QED BY <1>0, <2>1, <2>2, <2>3, <2>4, <2>5, <2>6 DEF OrderInv
<1>4. ASSUME NEW s \in Slot, Start(s) PROVE OrderInv'
  <2>1. IdsUnique' /\ (~ReusePid => PidsGiven)'
    <3>1. /\ pid' = [pid EXCEPT ![s] = IF ReusePid THEN 1 ELSE starts + 1]
          /\ pc' = [pc EXCEPT ![s] = "sweep"]
          /\ starts' = starts + 1 /\ jobs' = jobs /\ starts \in Nat
          /\ pid \in [Slot -> Nat] /\ pc \in [Slot -> Control]
      BY <1>4, <1>0 DEF Start, TypeOK, Pid
    <3>2. CASE ReusePid
      BY <3>1, <3>2, ReusePidAssumption DEF OneSlotPerHost, IdsUnique, Id
    <3>3. CASE ~ReusePid
      <4>1. PidsGiven
        BY <3>3 DEF OrderInv
      <4>2. \A j \in Job : Claimed(j) => jobs[j].claimedBy[2] \in Nat
        BY <1>0 DEF TypeOK, Row, WorkerId, Pid, Claimed
      <4>3. PidsGiven'
        BY <3>1, <3>3, <4>1, <4>2 DEF PidsGiven, Claimed, Up
      <4>4. IdsUnique'
        BY <4>3 DEF IdsUnique, PidsGiven, Id, Up
      <4> QED BY <4>3, <4>4
    <3> QED BY <3>2, <3>3
  <2>2. HeldOK' /\ OneRecovery'
    BY <1>4, <1>0
    DEF Start, OrderInv, HeldOK, OneRecovery, HoldsJob, Running, TypeOK
  <2>3. RowMatchesRunner' /\ SoleRunner'
    BY <1>4, <1>0
    DEF Start, OrderInv, RowMatchesRunner, SoleRunner, Runs, Exists, NoRow,
        Id, StageShown, Running, TypeOK
  <2>4. RunsAreFresh'
    BY <1>4, <1>0
    DEF Start, OrderInv, RunsAreFresh, Runs, Exists, NoRow, Running, TypeOK
  <2>5. TodoCurrent'
    BY <1>4, <1>0
    DEF Start, OrderInv, TodoCurrent, Exists, NoRow, TypeOK
  <2>6. NoLostJob' /\ TerminalUnclaimed'
    BY <1>4, <1>0
    DEF Start, OrderInv, NoLostJob, TerminalUnclaimed, Claimable, Claimed,
        Exists, NoRow, Terminal, TypeOK
  <2> QED BY <1>0, <2>1, <2>2, <2>3, <2>4, <2>5, <2>6 DEF OrderInv
<1>5. ASSUME NEW s \in Slot, SweepStale(s) PROVE OrderInv'
  <2>1. IdsUnique' /\ (~ReusePid => PidsGiven)'
    BY <1>5, <1>0
    DEF SweepStale, Stale, Requeued, Stamped, OrderInv, IdsUnique, PidsGiven,
        Id, Up, Claimed, Running, TypeOK
  <2>2. HeldOK' /\ OneRecovery'
    BY <1>5, <1>0
    DEF SweepStale, Stale, Requeued, Stamped, OrderInv, HeldOK, OneRecovery,
        HoldsJob, Running, TypeOK
  <2>3. RowMatchesRunner' /\ SoleRunner'
    BY <1>5, <1>0
    DEF SweepStale, Stale, Requeued, Stamped, OrderInv, RowMatchesRunner,
        SoleRunner, Runs, Exists, NoRow, Id, StageShown, Running, TypeOK,
        RunsAreFresh, Claimed, Row, Time
  <2>4. RunsAreFresh'
    BY <1>5, <1>0
    DEF SweepStale, Stale, Requeued, Stamped, OrderInv, RunsAreFresh, Runs,
        Exists, NoRow, Running, TypeOK, Row, Time
  <2>5. TodoCurrent'
    <3>1. \A t \in Slot : todo'[t] = {}
      BY <1>5 DEF SweepStale, Undisturbed, OrderInv, HeldOK
    <3> QED BY <3>1 DEF TodoCurrent
  <2>6. NoLostJob' /\ TerminalUnclaimed'
    BY <1>5, <1>0
    DEF SweepStale, Stale, Requeued, Stamped, OrderInv, NoLostJob,
        TerminalUnclaimed, Claimable, Claimed, Exists, NoRow, Terminal, TypeOK
  <2> QED BY <1>0, <2>1, <2>2, <2>3, <2>4, <2>5, <2>6 DEF OrderInv
<1>6. ASSUME NEW s \in Slot, ReadClaims(s) PROVE OrderInv'
  <2>1. IdsUnique' /\ (~ReusePid => PidsGiven)'
    BY <1>6, <1>0
    DEF ReadClaims, ClaimsByHost, OrderInv, IdsUnique, PidsGiven, Id, Up,
        Claimed, Running, TypeOK
  <2>2. HeldOK' /\ OneRecovery'
    BY <1>6, <1>0
    DEF ReadClaims, ClaimsByHost, OrderInv, HeldOK, OneRecovery, HoldsJob,
        Running, TypeOK, Undisturbed
  <2>3. RowMatchesRunner' /\ SoleRunner'
    BY <1>6, <1>0
    DEF ReadClaims, ClaimsByHost, OrderInv, RowMatchesRunner, SoleRunner,
        Runs, Exists, NoRow, Id, StageShown, Running, TypeOK
  <2>4. RunsAreFresh'
    BY <1>6, <1>0
    DEF ReadClaims, ClaimsByHost, OrderInv, RunsAreFresh, Runs, Exists, NoRow,
        Running, TypeOK
  <2>5. TodoCurrent'
    BY <1>6, <1>0
    DEF ReadClaims, ClaimsByHost, OrderInv, TodoCurrent, Exists, NoRow,
        TypeOK, Undisturbed, HeldOK, WorkerId, Row, Claimed
  <2>6. NoLostJob' /\ TerminalUnclaimed'
    BY <1>6, <1>0
    DEF ReadClaims, ClaimsByHost, OrderInv, NoLostJob, TerminalUnclaimed,
        Claimable, Claimed, Exists, NoRow, Terminal, TypeOK
  <2> QED BY <1>0, <2>1, <2>2, <2>3, <2>4, <2>5, <2>6 DEF OrderInv
<1>7. ASSUME NEW s \in Slot, NEW c \in todo[s], RecoverOne(s, c) PROVE OrderInv'
  <2>1. c \in Job \X Pid /\ pc[s] = "recover"
    BY <1>7, <1>0 DEF RecoverOne, TypeOK
  <2>2. /\ \A i \in Job : i # c[1] => jobs'[i] = jobs[i]
        /\ \/ jobs'[c[1]] = jobs[c[1]]
           \/ /\ Exists(c[1])
              /\ ~PidAlive(HostOf[s], c[2])
              /\ jobs'[c[1]].stage = "queued"
              /\ jobs'[c[1]].claimedBy = None
    BY <1>7, <1>0, <2>1 DEF RecoverOne, Update, Requeued, Stamped, TypeOK
  <2>3. \A t \in Slot : Runs(t, c[1]) => jobs'[c[1]] = jobs[c[1]]
    <3> SUFFICES ASSUME NEW t \in Slot, Runs(t, c[1]), Exists(c[1]),
                        ~PidAlive(HostOf[s], c[2])
                 PROVE  FALSE
      BY <2>2
    <3>1. Id(t) = <<HostOf[s], c[2]>>
      BY <2>1 DEF OrderInv, RowMatchesRunner, TodoCurrent
    <3>2. Up(t)
      BY DEF Runs, Up, Running
    <3> QED BY <3>1, <3>2 DEF PidAlive, Id
  <2>4. \A i \in Job : Exists(i)' = Exists(i) /\ (jobs'[i].stage = "unborn" <=> jobs[i].stage = "unborn")
    BY <2>1, <2>2 DEF Exists, NoRow
  <2>5. /\ pc' = pc /\ pid' = pid /\ held' = held /\ starts' = starts /\ now' = now
        /\ todo' = [todo EXCEPT ![s] = @ \ {c}]
    BY <1>7 DEF RecoverOne
  <2>6. IdsUnique' /\ (~ReusePid => PidsGiven)'
    BY <2>1, <2>2, <2>5 DEF OrderInv, IdsUnique, PidsGiven, Id, Up, Claimed
  <2>7. HeldOK'
    BY <1>0, <2>1, <2>4, <2>5 DEF OrderInv, HeldOK, HoldsJob, TypeOK
  <2>8. OneRecovery'
    BY <2>5 DEF OrderInv, OneRecovery
  <2>9. SoleRunner'
    BY <2>5 DEF OrderInv, SoleRunner, Runs
  <2>10. RowMatchesRunner' /\ RunsAreFresh'
    <3> SUFFICES ASSUME NEW t \in Slot, NEW i \in Job, Runs(t, i), Exists(i)
                 PROVE  jobs'[i] = jobs[i]
      <4>1. \A t \in Slot : \A i \in Job :
              /\ Runs(t, i)' = Runs(t, i) /\ Id(t)' = Id(t) /\ Exists(i)' = Exists(i)
              /\ Runs(t, i) /\ Exists(i) => jobs'[i] = jobs[i]
        BY <2>4, <2>5 DEF Runs, Id
      <4>2. RowMatchesRunner'
        BY <2>5, <4>1 DEF OrderInv, RowMatchesRunner
      <4>3. RunsAreFresh'
        BY <2>5, <4>1 DEF OrderInv, RunsAreFresh
      <4> QED BY <4>2, <4>3
    <3> QED BY <2>2, <2>3
  <2>11. TodoCurrent'
    <3>1. \A t \in Slot \ {s} : todo'[t] = {}
      BY <2>1, <2>5 DEF OrderInv, OneRecovery, HeldOK
    <3>2. \A d \in todo'[s] : d \in todo[s] /\ d # c /\ d \in Job \X Pid
      BY <1>0, <2>5 DEF TypeOK
    <3>3. \A d \in todo'[s] : Exists(d[1]) => d[1] # c[1]
      <4> SUFFICES ASSUME NEW d \in todo'[s], Exists(d[1]), d[1] = c[1]
                   PROVE  FALSE
        OBVIOUS
      <4>1. d[2] = c[2]
        BY <3>2 DEF OrderInv, TodoCurrent
      <4> QED BY <2>1, <3>2, <4>1
    <3>4. \A d \in todo'[s] : jobs'[d[1]] = jobs[d[1]]
      BY <2>1, <2>2, <3>2, <3>3 DEF Exists
    <3> QED BY <3>1, <3>2, <3>4 DEF OrderInv, TodoCurrent, Exists
  <2>12. NoLostJob' /\ TerminalUnclaimed'
    BY <2>1, <2>2, <2>4
    DEF OrderInv, NoLostJob, TerminalUnclaimed, Claimable, Claimed, Terminal
  <2> QED BY <1>0, <2>6, <2>7, <2>8, <2>9, <2>10, <2>11, <2>12 DEF OrderInv
<1>8. ASSUME NEW s \in Slot, EnterLoop(s) PROVE OrderInv'
  <2>1. IdsUnique' /\ (~ReusePid => PidsGiven)'
    BY <1>8, <1>0
    DEF EnterLoop, OrderInv, IdsUnique, PidsGiven, Id, Up, Claimed, Running,
        TypeOK
  <2>2. HeldOK' /\ OneRecovery'
    BY <1>8, <1>0
    DEF EnterLoop, OrderInv, HeldOK, OneRecovery, HoldsJob, Running, TypeOK
  <2>3. RowMatchesRunner' /\ SoleRunner'
    BY <1>8, <1>0
    DEF EnterLoop, OrderInv, RowMatchesRunner, SoleRunner, Runs, Exists,
        NoRow, Id, StageShown, Running, TypeOK
  <2>4. RunsAreFresh'
    BY <1>8, <1>0
    DEF EnterLoop, OrderInv, RunsAreFresh, Runs, Exists, NoRow, Running,
        TypeOK
  <2>5. TodoCurrent'
    BY <1>8, <1>0
    DEF EnterLoop, OrderInv, TodoCurrent, Exists, NoRow, TypeOK
  <2>6. NoLostJob' /\ TerminalUnclaimed'
    BY <1>8, <1>0
    DEF EnterLoop, OrderInv, NoLostJob, TerminalUnclaimed, Claimable, Claimed,
        Exists, NoRow, Terminal, TypeOK
  <2> QED BY <1>0, <2>1, <2>2, <2>3, <2>4, <2>5, <2>6 DEF OrderInv
<1>9. ASSUME NEW s \in Slot, NEW j \in Job, ClaimJob(s, j) PROVE OrderInv'
  <2>1. IdsUnique' /\ (~ReusePid => PidsGiven)'
    BY <1>9, <1>0
    DEF ClaimJob, Update, Stamped, OrderInv, IdsUnique, PidsGiven, Id, Up,
        Claimed, Running, TypeOK
  <2>2. HeldOK' /\ OneRecovery'
    <3>1. pc' = [pc EXCEPT ![s] = "claimed"] /\ held' = [held EXCEPT ![s] = j] /\ todo' = todo
      BY <1>9 DEF ClaimJob
    <3>2. \A i \in Job : jobs[i].stage # "unborn" => jobs'[i].stage # "unborn"
      BY <1>9, <1>0 DEF ClaimJob, Update, Stamped, TypeOK
    <3>3. jobs[j].stage # "unborn" /\ pc[s] = "idle"
      BY <1>9 DEF ClaimJob, Claimable
    <3>4. HeldOK'
      BY <1>0, <3>1, <3>2, <3>3 DEF OrderInv, HeldOK, HoldsJob, TypeOK, Running
    <3>5. OneRecovery'
      BY <1>0, <3>1, <3>3 DEF OrderInv, OneRecovery, TypeOK
    <3> QED BY <3>4, <3>5
  <2>3. RowMatchesRunner' /\ SoleRunner'
    <3>1. \A t \in Slot : ~Runs(t, j)
      <4> SUFFICES ASSUME NEW t \in Slot, Runs(t, j) PROVE FALSE
        OBVIOUS
      <4>1. jobs[j].claimedBy = None /\ Exists(j)
        BY <1>9 DEF ClaimJob, Claimable, Claimed, Exists, NoRow
      <4>2. Id(t) \in WorkerId
        BY <1>0 DEF Id, WorkerId, TypeOK
      <4> QED BY <4>1, <4>2 DEF OrderInv, RowMatchesRunner
    <3>2. SoleRunner'
      BY <1>9, <1>0, <3>1 DEF ClaimJob, SoleRunner, OrderInv, Runs, TypeOK
    <3>3. RowMatchesRunner'
      BY <1>9, <1>0, <3>1 DEF ClaimJob, Update, Stamped, RowMatchesRunner, OrderInv,
         Runs, Exists, Id, StageShown, Claimable, NoRow, TypeOK, Running
    <3> QED BY <3>2, <3>3
  <2>4. RunsAreFresh'
    BY <1>9, <1>0
    DEF ClaimJob, Update, Stamped, OrderInv, RunsAreFresh, Runs, Exists,
        NoRow, Running, TypeOK, Row, Time
  <2>5. TodoCurrent'
    <3>1. \A t \in Slot : todo[t] = {}
      BY <1>9, NothingTodo DEF ClaimJob, Running
    <3> QED BY <1>9, <3>1 DEF ClaimJob, TodoCurrent
  <2>6. NoLostJob' /\ TerminalUnclaimed'
    BY <1>9, <1>0
    DEF ClaimJob, Update, Stamped, OrderInv, NoLostJob, TerminalUnclaimed,
        Claimable, Claimed, Exists, NoRow, Terminal, TypeOK
  <2> QED BY <1>0, <2>1, <2>2, <2>3, <2>4, <2>5, <2>6 DEF OrderInv
<1>10. ASSUME NEW s \in Slot, Advance(s) PROVE OrderInv'
  <2> DEFINE j == held[s]
             st == Next1(KindOf[j], pc[s])
  <2>1. j \in Job /\ Runs(s, j) /\ pc[s] \in Running /\ pc[s] # "recover"
    BY <1>10, <1>0 DEF Advance, HoldsJob, Runs, Running
  <2>2. /\ st \in Running \ {"claimed", "stored", "saved"}
        /\ st \notin Terminal \cup {"unborn", "queued"}
        /\ st \in {"normalizing", "diarizing", "transcribing"} => KindOf[j] = "transcribe"
        /\ st \in {"summarizing", "rendering"} => KindOf[j] = "summarize"
    <3>1. KindOf[j] = "transcribe" \/ KindOf[j] = "summarize"
      BY <2>1 DEF JobKind
    <3> QED BY <1>10, <2>1, <3>1 DEF Advance, Next1, Running, Terminal
  <2> HIDE DEF st
  <2>3. /\ \A i \in Job : i # j => jobs'[i] = jobs[i]
        /\ IF Exists(j) THEN /\ jobs'[j].stage = st
                             /\ jobs'[j].claimedBy = jobs[j].claimedBy
                             /\ jobs'[j].claimedAt = jobs[j].claimedAt
                        ELSE jobs'[j] = jobs[j]
    BY <1>10, <1>0, <2>1 DEF st, Advance, Update, Written, Stamped, TypeOK
  <2>4. \A i \in Job : Exists(i)' = Exists(i) /\ (jobs'[i].stage = "unborn" <=> jobs[i].stage = "unborn")
    BY <2>2, <2>3 DEF Exists, NoRow, Running
  <2>5. /\ pc' = [pc EXCEPT ![s] = st] /\ pid' = pid /\ held' = held
        /\ starts' = starts /\ now' = now /\ todo' = todo
    BY <1>10 DEF Advance, st
  <2>6. Exists(j) => jobs[j].claimedBy = Id(s) /\ Id(s) # None
    BY <1>0, <2>1 DEF OrderInv, RowMatchesRunner, Id, WorkerId, TypeOK
  <2>7. \A t \in Slot, i \in Job : Runs(t, i)' <=> Runs(t, i)
    BY <1>0, <2>1, <2>2, <2>5 DEF Runs, TypeOK
  <2>8. IdsUnique' /\ (~ReusePid => PidsGiven)'
    BY <1>0, <2>1, <2>2, <2>3, <2>5
    DEF OrderInv, IdsUnique, PidsGiven, Id, Up, Claimed, Running, TypeOK
  <2>9. HeldOK'
    BY <1>0, <2>1, <2>2, <2>4, <2>5 DEF OrderInv, HeldOK, HoldsJob, TypeOK, Running
  <2>10. OneRecovery'
    BY <1>0, <2>1, <2>2, <2>5 DEF OrderInv, OneRecovery, TypeOK, Running
  <2>11. SoleRunner'
    BY <2>7 DEF OrderInv, SoleRunner
  <2>12. RowMatchesRunner'
    <3> SUFFICES ASSUME NEW t \in Slot, NEW i \in Job, Runs(t, i), Exists(i)
                 PROVE  /\ jobs'[i].claimedBy = Id(t)
                        /\ jobs'[i].stage = StageShown(KindOf[i], pc'[t])
      BY <2>4, <2>5, <2>7 DEF RowMatchesRunner, Id
    <3>1. CASE t = s
      BY <1>0, <2>1, <2>2, <2>3, <2>5, <2>6, <3>1 DEF Runs, StageShown, TypeOK
    <3>2. CASE t # s
      <4>1. i # j
        BY <2>1, <3>2 DEF OrderInv, SoleRunner
      <4> QED BY <1>0, <2>3, <2>5, <3>2, <4>1 DEF OrderInv, RowMatchesRunner, TypeOK
    <3> QED BY <3>1, <3>2
  <2>13. RunsAreFresh'
    BY <2>3, <2>4, <2>5, <2>7 DEF OrderInv, RunsAreFresh
  <2>14. TodoCurrent'
    BY <1>0, <2>2, <2>3, <2>4, <2>5 DEF OrderInv, TodoCurrent, TypeOK
  <2>15. NoLostJob' /\ TerminalUnclaimed'
    BY <2>1, <2>2, <2>3, <2>4, <2>6
    DEF OrderInv, NoLostJob, TerminalUnclaimed, Claimable, Claimed
  <2> QED BY <1>0, <2>8, <2>9, <2>10, <2>11, <2>12, <2>13, <2>14, <2>15 DEF OrderInv
<1>11. ASSUME NEW s \in Slot, Repeat(s) PROVE OrderInv'
  <2>1. IdsUnique' /\ (~ReusePid => PidsGiven)'
    BY <1>11, <1>0
    DEF Repeat, Update, Written, Stamped, OrderInv, IdsUnique, PidsGiven, Id,
        Up, Claimed, Running, TypeOK
  <2>2. HeldOK' /\ OneRecovery'
    BY <1>11, <1>0
    DEF Repeat, Update, Written, Stamped, OrderInv, HeldOK, OneRecovery,
        HoldsJob, Running, TypeOK
  <2>3. RowMatchesRunner' /\ SoleRunner'
    BY <1>11, <1>0
    DEF Repeat, Update, Written, Stamped, OrderInv, RowMatchesRunner,
        SoleRunner, Runs, Exists, NoRow, Id, StageShown, Running, TypeOK
  <2>4. RunsAreFresh'
    BY <1>11, <1>0
    DEF Repeat, Update, Written, Stamped, OrderInv, RunsAreFresh, Runs,
        Exists, NoRow, Running, TypeOK
  <2>5. TodoCurrent'
    <3>1. \A t \in Slot : todo[t] = {}
      BY <1>11, NothingTodo DEF Repeat, Running
    <3> QED BY <1>11, <3>1 DEF Repeat, TodoCurrent
  <2>6. NoLostJob' /\ TerminalUnclaimed'
    BY <1>11, <1>0
    DEF Repeat, Update, Written, Stamped, OrderInv, NoLostJob,
        TerminalUnclaimed, Claimable, Claimed, Exists, NoRow, Terminal, TypeOK,
        RowMatchesRunner, HoldsJob, Runs, Id, StageShown, Running, WorkerId
  <2> QED BY <1>0, <2>1, <2>2, <2>3, <2>4, <2>5, <2>6 DEF OrderInv
<1>12. ASSUME NEW s \in Slot, Save(s) PROVE OrderInv'
  <2>1. IdsUnique' /\ (~ReusePid => PidsGiven)'
    BY <1>12, <1>0
    DEF Save, OrderInv, IdsUnique, PidsGiven, Id, Up, Claimed, Running, TypeOK
  <2>2. HeldOK' /\ OneRecovery'
    BY <1>12, <1>0
    DEF Save, OrderInv, HeldOK, OneRecovery, HoldsJob, Running, TypeOK
  <2>3. RowMatchesRunner' /\ SoleRunner'
    BY <1>12, <1>0
    DEF Save, OrderInv, RowMatchesRunner, SoleRunner, Runs, Exists, NoRow, Id,
        StageShown, Running, TypeOK
  <2>4. RunsAreFresh'
    BY <1>12, <1>0
    DEF Save, OrderInv, RunsAreFresh, Runs, Exists, NoRow, Running, TypeOK
  <2>5. TodoCurrent'
    <3>1. \A t \in Slot : todo[t] = {}
      BY <1>12, NothingTodo DEF Save, Running
    <3> QED BY <1>12, <3>1 DEF Save, TodoCurrent
  <2>6. NoLostJob' /\ TerminalUnclaimed'
    BY <1>12, <1>0
    DEF Save, OrderInv, NoLostJob, TerminalUnclaimed, Claimable, Claimed,
        Exists, NoRow, Terminal, TypeOK
  <2> QED BY <1>0, <2>1, <2>2, <2>3, <2>4, <2>5, <2>6 DEF OrderInv
<1>13. ASSUME NEW s \in Slot, Finish(s) PROVE OrderInv'
  <2> DEFINE st == IF KindOf[held[s]] = "transcribe" THEN "awaiting_review" ELSE "done"
  <2>1. st \in Terminal
    BY DEF Terminal
  <2>2. /\ pc[s] \in Running /\ Undisturbed(s)
        /\ Update(held[s], Stamped(st, None, 0, jobs[held[s]].attempts))
        /\ pc' = [pc EXCEPT ![s] = "idle"] /\ Drop(s)
        /\ UNCHANGED <<now, pid, stop, todo, faults, starts>>
    BY <1>13 DEF Finish, Released, Running
  <2> HIDE DEF st
  <2> QED BY <1>0, <2>1, <2>2, ReleaseStep DEF OrderInv, Orderly
<1>14. ASSUME NEW s \in Slot, Retry(s) PROVE OrderInv'
  <2>1. /\ pc[s] \in Running /\ Undisturbed(s)
        /\ Update(held[s], Stamped("queued", None, 0, jobs[held[s]].attempts))
        /\ pc' = [pc EXCEPT ![s] = "idle"] /\ Drop(s)
        /\ UNCHANGED <<now, pid, stop, todo, faults, starts>>
    BY <1>14 DEF Retry, Requeued
  <2> QED BY <1>0, <2>1, ReleaseStep DEF OrderInv, Orderly
<1>15. ASSUME NEW s \in Slot, GiveUp(s) PROVE OrderInv'
  <2>1. /\ pc[s] \in Running /\ Undisturbed(s) /\ "failed" \in Terminal
        /\ Update(held[s], Stamped("failed", None, 0, jobs[held[s]].attempts))
        /\ pc' = [pc EXCEPT ![s] = "idle"] /\ Drop(s)
        /\ UNCHANGED <<now, pid, stop, todo, faults, starts>>
    BY <1>15 DEF GiveUp, Released, Terminal
  <2> QED BY <1>0, <2>1, ReleaseStep DEF OrderInv, Orderly
<1>16. ASSUME NEW s \in Slot, Signal(s) PROVE OrderInv'
  <2>1. IdsUnique' /\ (~ReusePid => PidsGiven)'
    BY <1>16, <1>0
    DEF Signal, OrderInv, IdsUnique, PidsGiven, Id, Up, Claimed, Running,
        TypeOK
  <2>2. HeldOK' /\ OneRecovery'
    BY <1>16, <1>0
    DEF Signal, OrderInv, HeldOK, OneRecovery, HoldsJob, Running, TypeOK
  <2>3. RowMatchesRunner' /\ SoleRunner'
    BY <1>16, <1>0
    DEF Signal, OrderInv, RowMatchesRunner, SoleRunner, Runs, Exists, NoRow,
        Id, StageShown, Running, TypeOK
  <2>4. RunsAreFresh'
    BY <1>16, <1>0
    DEF Signal, OrderInv, RunsAreFresh, Runs, Exists, NoRow, Running, TypeOK
  <2>5. TodoCurrent'
    BY <1>16, <1>0
    DEF Signal, OrderInv, TodoCurrent, Exists, NoRow, TypeOK
  <2>6. NoLostJob' /\ TerminalUnclaimed'
    BY <1>16, <1>0
    DEF Signal, OrderInv, NoLostJob, TerminalUnclaimed, Claimable, Claimed,
        Exists, NoRow, Terminal, TypeOK
  <2> QED BY <1>0, <2>1, <2>2, <2>3, <2>4, <2>5, <2>6 DEF OrderInv
<1>17. ASSUME NEW s \in Slot, Exit(s) PROVE OrderInv'
  <2>1. IdsUnique' /\ (~ReusePid => PidsGiven)'
    BY <1>17, <1>0
    DEF Exit, OrderInv, IdsUnique, PidsGiven, Id, Up, Claimed, Running, TypeOK
  <2>2. HeldOK' /\ OneRecovery'
    BY <1>17, <1>0
    DEF Exit, OrderInv, HeldOK, OneRecovery, HoldsJob, Running, TypeOK
  <2>3. RowMatchesRunner' /\ SoleRunner'
    BY <1>17, <1>0
    DEF Exit, OrderInv, RowMatchesRunner, SoleRunner, Runs, Exists, NoRow, Id,
        StageShown, Running, TypeOK
  <2>4. RunsAreFresh'
    BY <1>17, <1>0
    DEF Exit, OrderInv, RunsAreFresh, Runs, Exists, NoRow, Running, TypeOK
  <2>5. TodoCurrent'
    BY <1>17, <1>0
    DEF Exit, OrderInv, TodoCurrent, Exists, NoRow, TypeOK
  <2>6. NoLostJob' /\ TerminalUnclaimed'
    BY <1>17, <1>0
    DEF Exit, OrderInv, NoLostJob, TerminalUnclaimed, Claimable, Claimed,
        Exists, NoRow, Terminal, TypeOK
  <2> QED BY <1>0, <2>1, <2>2, <2>3, <2>4, <2>5, <2>6 DEF OrderInv
<1>18. ASSUME NEW s \in Slot, Crash(s) PROVE OrderInv'
  <2>1. IdsUnique' /\ (~ReusePid => PidsGiven)'
    BY <1>18, <1>0
    DEF Crash, Drop, OrderInv, IdsUnique, PidsGiven, Id, Up, Claimed, Running,
        TypeOK
  <2>2. HeldOK' /\ OneRecovery'
    BY <1>18, <1>0
    DEF Crash, Drop, OrderInv, HeldOK, OneRecovery, HoldsJob, Running, TypeOK
  <2>3. RowMatchesRunner' /\ SoleRunner'
    BY <1>18, <1>0
    DEF Crash, Drop, OrderInv, RowMatchesRunner, SoleRunner, Runs, Exists,
        NoRow, Id, StageShown, Running, TypeOK
  <2>4. RunsAreFresh'
    BY <1>18, <1>0
    DEF Crash, Drop, OrderInv, RunsAreFresh, Runs, Exists, NoRow, Running,
        TypeOK
  <2>5. TodoCurrent'
    BY <1>18, <1>0
    DEF Crash, Drop, OrderInv, TodoCurrent, Exists, NoRow, TypeOK
  <2>6. NoLostJob' /\ TerminalUnclaimed'
    BY <1>18, <1>0
    DEF Crash, Drop, OrderInv, NoLostJob, TerminalUnclaimed, Claimable,
        Claimed, Exists, NoRow, Terminal, TypeOK
  <2> QED BY <1>0, <2>1, <2>2, <2>3, <2>4, <2>5, <2>6 DEF OrderInv
<1>19. ASSUME NEW s \in Slot, Store(s) PROVE OrderInv'
  <2>1. IdsUnique' /\ (~ReusePid => PidsGiven)'
    BY <1>19, <1>0
    DEF Store, OrderInv, IdsUnique, PidsGiven, Id, Up, Claimed, Running,
        TypeOK
  <2>2. HeldOK' /\ OneRecovery'
    BY <1>19, <1>0
    DEF Store, OrderInv, HeldOK, OneRecovery, HoldsJob, Running, TypeOK
  <2>3. RowMatchesRunner' /\ SoleRunner'
    BY <1>19, <1>0
    DEF Store, OrderInv, RowMatchesRunner, SoleRunner, Runs, Exists, NoRow,
        Id, StageShown, Running, TypeOK, HeldOK, HoldsJob, JobKind
  <2>4. RunsAreFresh'
    BY <1>19, <1>0
    DEF Store, OrderInv, RunsAreFresh, Runs, Exists, NoRow, Running, TypeOK
  <2>5. TodoCurrent'
    <3>1. \A t \in Slot : todo[t] = {}
      BY <1>19, NothingTodo DEF Store, Running
    <3> QED BY <1>19, <3>1 DEF Store, TodoCurrent
  <2>6. NoLostJob' /\ TerminalUnclaimed'
    BY <1>19, <1>0
    DEF Store, OrderInv, NoLostJob, TerminalUnclaimed, Claimable, Claimed,
        Exists, NoRow, Terminal, TypeOK
  <2> QED BY <1>0, <2>1, <2>2, <2>3, <2>4, <2>5, <2>6 DEF OrderInv
<1>20. CASE UNCHANGED qvars
  BY <1>20 DEF qvars, OrderInv, TypeOK, IdsUnique, HeldOK, RunsAreFresh, OneRecovery,
     TodoCurrent, SoleRunner, RowMatchesRunner, NoLostJob, TerminalUnclaimed,
     PidsGiven, Runs, Up, Id, Exists, Claimed, Claimable
<1> QED
  BY <1>1, <1>2, <1>3, <1>4, <1>5, <1>6, <1>7, <1>8, <1>9, <1>10, <1>11, <1>12, <1>13, <1>14, <1>15, <1>16, <1>17, <1>18, <1>19, <1>20
  DEF Next, Client, Worker, Recovery, Work, Poll

\* A step of a behaviour that keeps OrderInv leaves the row of a settled job
\* alone, or deletes it.
LEMMA SettledStays ==
  ASSUME Orderly, OrderInv, [Next]_qvars, NEW k \in Job, jobs[k].stage \in Terminal
  PROVE  jobs'[k] = jobs[k] \/ jobs'[k].stage = "deleted"
<1> USE ConstantsAssumption
<1>0. TypeOK /\ HoldsJob
  BY HeldIsJob DEF OrderInv, HoldsJob
<1>1. \A s \in Slot : ~Runs(s, k)
  <2> SUFFICES ASSUME NEW s \in Slot, Runs(s, k) PROVE FALSE
    OBVIOUS
  <2>1. Exists(k)
    BY DEF Exists, NoRow, Terminal
  <2>2. jobs[k].claimedBy = Id(s) /\ ~Claimed(k)
    BY <2>1 DEF OrderInv, RowMatchesRunner, TerminalUnclaimed
  <2> QED BY <1>0, <2>2 DEF Claimed, Id, WorkerId, TypeOK
<1>2. ASSUME NEW s \in Slot, pc[s] \in Running, NEW row, Update(held[s], row)
      PROVE  jobs'[k] = jobs[k]
  BY <1>0, <1>1, <1>2 DEF Runs, HoldsJob, Update, TypeOK
<1>3. ASSUME NEW s \in Slot, Work(s) \/ Repeat(s) PROVE jobs'[k] = jobs[k]
  BY <1>2, <1>3 DEF Work, Repeat, Advance, Store, Save, Finish, Retry, GiveUp, Running
<1>4. ASSUME NEW s \in Slot, NEW c \in todo[s], RecoverOne(s, c)
      PROVE  jobs'[k] = jobs[k]
  <2>1. c[1] \in Job
    BY <1>0 DEF TypeOK
  <2>2. c[1] # k
    BY DEF OrderInv, TodoCurrent, Exists, Terminal, NoRow
  <2> QED BY <1>0, <1>4, <2>1, <2>2 DEF RecoverOne, Update, TypeOK
<1>5. ASSUME NEW s \in Slot, SweepStale(s) PROVE jobs'[k] = jobs[k]
  BY <1>5 DEF SweepStale, Stale
<1>6. ASSUME NEW s \in Slot, NEW j \in Job, ClaimJob(s, j)
      PROVE  jobs'[k] = jobs[k]
  <2>1. j # k
    BY <1>6 DEF ClaimJob, Claimable, Terminal
  <2> QED BY <1>0, <1>6, <2>1 DEF ClaimJob, Update, TypeOK
<1>7. ASSUME NEW j \in Job, CreateJob(j) PROVE jobs'[k] = jobs[k]
  BY <1>0, <1>7 DEF CreateJob, Terminal, TypeOK
<1>8. ASSUME NEW j \in Job, DeleteJob(j)
      PROVE  jobs'[k] = jobs[k] \/ jobs'[k].stage = "deleted"
  BY <1>0, <1>8 DEF DeleteJob, Blank, TypeOK
<1>9. ASSUME jobs' = jobs PROVE jobs'[k] = jobs[k]
  BY <1>9
<1> QED
  BY <1>3, <1>4, <1>5, <1>6, <1>7, <1>8, <1>9
  DEF Next, Client, Tick, Worker, Recovery, Start, ReadClaims, EnterLoop, Poll,
      Signal, Exit, Crash, qvars

\* OrderInv holds throughout an orderly deployment.
THEOREM OrderInvariant == ASSUME Orderly PROVE Spec => []OrderInv
<1>1. Init => OrderInv
  BY OrderInvInit
<1>2. OrderInv /\ [Next]_qvars => OrderInv'
  BY OrderInvNext
<1> QED BY <1>1, <1>2, PTL DEF Spec

\* While runs are bounded by the cutoff and recoveries undisturbed, no job is
\* run by two processes at once, whatever crashes, restarts, sweeps, retries
\* and deletions happen.
THEOREM ExclusiveRuns == ASSUME Orderly PROVE Spec => []SoleRunner
<1>1. OrderInv => SoleRunner
  BY DEF OrderInv
<1> QED BY <1>1, OrderInvariant, PTL

\* Under the same assumptions, the row of a job being run carries the claim of
\* its runner and the stage it is in.
THEOREM TruthfulRows == ASSUME Orderly PROVE Spec => []RowMatchesRunner
<1>1. OrderInv => RowMatchesRunner
  BY DEF OrderInv
<1> QED BY <1>1, OrderInvariant, PTL

\* Under the same assumptions, no unfinished job falls out of sight of both
\* the claim and the recoveries.
THEOREM NothingLost == ASSUME Orderly PROVE Spec => []NoLostJob
<1>1. OrderInv => NoLostJob
  BY DEF OrderInv
<1> QED BY <1>1, OrderInvariant, PTL

\* Under the same assumptions, no step takes a finished or failed job back.
THEOREM SettledForGood == ASSUME Orderly PROVE Spec => TerminalIsFinal
<1>1. OrderInv /\ [Next]_qvars =>
        [\A j \in Job : jobs[j].stage \in Terminal =>
           jobs'[j].stage \in {jobs[j].stage, "deleted"}]_qvars
  BY SettledStays
<1> QED BY <1>1, OrderInvariant, PTL DEF Spec, TerminalIsFinal
-----------------------------------------------------------------------------
(***************************************************************************)
(* What one step does to a row and to a process, with no assumption on the *)
(* deployment: the modules that compose the queue build on it.             *)
(***************************************************************************)
\* A process runs a job that was inserted, at a stage of the job's kind.
HeldKind ==
  \A s \in Slot :
    /\ pc[s] \in Running => held[s] \in Job /\ jobs[held[s]].stage # "unborn"
    /\ pc[s] \in {"normalizing", "diarizing", "transcribing"} =>
         KindOf[held[s]] = "transcribe"
    /\ pc[s] \in {"summarizing", "rendering"} => KindOf[held[s]] = "summarize"

\* Where a run was before it entered a stage.
Before(p) ==
  CASE p = "claimed" -> {"idle", "claimed"}
    [] p = "normalizing" -> {"claimed", "normalizing"}
    [] p = "summarizing" -> {"claimed", "summarizing"}
    [] p = "rendering" -> {"summarizing", "rendering"}
    [] p = "diarizing" -> {"normalizing", "diarizing"}
    [] p = "transcribing" -> {"diarizing", "transcribing"}
    [] p = "stored" -> {"transcribing", "rendering", "stored"}
    [] p = "saved" -> {"stored", "saved"}
    [] OTHER -> Control

\* The stages of a kind of job, besides queued and failed.
StagesOf(k) ==
  IF k = "transcribe"
    THEN {"normalizing", "diarizing", "transcribing", "awaiting_review"}
    ELSE {"summarizing", "rendering", "done"}

\* Rows neither come nor go, and show stages of their kind, ...
RowsMove ==
  \A j \in Job : /\ Exists(j) => jobs'[j].stage \in Stage
                 /\ ~Exists(j) => jobs'[j] = jobs[j]
                 /\ \/ jobs'[j].stage = jobs[j].stage
                    \/ jobs'[j].stage \in {"queued", "failed"} \cup StagesOf(KindOf[j])

\* ... a job ends at the end of its run, ...
RunsEnd(s) ==
  \A j \in Job : jobs'[j].stage \in {"awaiting_review", "done"} =>
    \/ jobs'[j].stage = jobs[j].stage
    \/ /\ Runs(s, j) /\ pc[s] = "saved"
       /\ jobs'[j].stage = "awaiting_review" <=> KindOf[j] = "transcribe"

\* ... and a process moves alone, from stage to stage of the job it holds.
MovesAlone(s) ==
  /\ \A t \in Slot \ {s} : pc'[t] = pc[t] /\ held'[t] = held[t]
  /\ pc'[s] \in Running \ {"claimed"} => held'[s] = held[s]
  /\ pc[s] \in Before(pc'[s])
  /\ pc'[s] = "claimed" /\ pc[s] # "claimed" => \E j \in Job : Exists(j)

Moved(s) == RowsMove /\ RunsEnd(s) /\ MovesAlone(s)

\* A step that leaves the queue alone.
LEMMA StillStep ==
  ASSUME TypeInv, UNCHANGED qvars, NEW s \in Slot PROVE Moved(s)
<1>0. TypeOK
  BY DEF TypeInv
<1>1. RowsMove /\ RunsEnd(s)
  BY <1>0 DEF RowsMove, RunsEnd, qvars, TypeOK, Row, Exists
<1>2. MovesAlone(s)
  BY <1>0 DEF MovesAlone, qvars, Before, TypeOK, Control, Running
<1> QED BY <1>1, <1>2 DEF Moved

\* What a step of one process does to the rows and to the processes.
LEMMA WorkerStep ==
  ASSUME TypeInv, HeldKind, NEW s \in Slot, Worker(s)
  PROVE  Moved(s) /\ HeldKind'
<1> USE ConstantsAssumption
<1> DEFINE
  Rows == RowsMove
  Ends == RunsEnd(s)
  Others == \A t \in Slot \ {s} : pc'[t] = pc[t] /\ held'[t] = held[t]
  Moves == /\ pc'[s] \in Running \ {"claimed"} => held'[s] = held[s]
           /\ pc[s] \in Before(pc'[s])
           /\ pc'[s] = "claimed" /\ pc[s] # "claimed" => \E j \in Job : Exists(j)
<1> SUFFICES Rows /\ Ends /\ Others /\ Moves /\ HeldKind'
  BY DEF Moved, MovesAlone
<1>0. TypeOK /\ HoldsJob
  BY DEF TypeInv
<1>a. ASSUME jobs' = jobs PROVE Rows /\ Ends
  BY <1>0, <1>a DEF RowsMove, RunsEnd, TypeOK, Row, Exists
<1>b. ASSUME NEW j \in Job, NEW row, Update(j, row), row.stage \in Stage,
             row.stage \in {"queued", "failed"} \cup StagesOf(KindOf[j]),
             row.stage \notin {"awaiting_review", "done"}
      PROVE  Rows /\ Ends
  BY <1>0, <1>b DEF RowsMove, RunsEnd, TypeOK, Row, Exists, Update
<1>c. ASSUME Rows, Others, pc'[s] \in Running => held'[s] = held[s] /\ pc[s] \in Running,
             pc'[s] \in {"normalizing", "diarizing", "transcribing"} => KindOf[held[s]] = "transcribe",
             pc'[s] \in {"summarizing", "rendering"} => KindOf[held[s]] = "summarize"
      PROVE  HeldKind'
  <2>1. \A j \in Job : jobs[j].stage # "unborn" => jobs'[j].stage # "unborn"
    BY <1>c DEF RowsMove, Exists, Stage, Terminal, NoRow
  <2> SUFFICES ASSUME NEW t \in Slot
               PROVE  /\ pc'[t] \in Running => held'[t] \in Job /\ jobs'[held'[t]].stage # "unborn"
                      /\ pc'[t] \in {"normalizing", "diarizing", "transcribing"} => KindOf[held'[t]] = "transcribe"
                      /\ pc'[t] \in {"summarizing", "rendering"} => KindOf[held'[t]] = "summarize"
    BY DEF HeldKind
  <2>2. CASE t # s
    BY <1>c, <2>1, <2>2 DEF HeldKind
  <2>3. CASE t = s
    <3>1. pc'[s] \in {"normalizing", "diarizing", "transcribing", "summarizing", "rendering"}
             => pc'[s] \in Running
      BY DEF Running
    <3> QED BY <1>c, <2>1, <2>3, <3>1 DEF HeldKind
  <2> QED BY <2>2, <2>3
<1>1. CASE Start(s) \/ ReadClaims(s) \/ EnterLoop(s) \/ Exit(s) \/ Crash(s)
  <2>1. jobs' = jobs /\ Others /\ pc'[s] \notin Running /\ Moves
    BY <1>0, <1>1 DEF Start, ReadClaims, EnterLoop, Exit, Crash, Drop, TypeOK, Running, Before
  <2> QED BY <1>a, <1>c, <2>1 DEF Running
<1>2. CASE SweepStale(s)
  <2>1. Rows /\ Ends
    BY <1>0, <1>2 DEF RowsMove, RunsEnd, SweepStale, Stale, Requeued, Stamped, TypeOK, Row, Exists, Stage
  <2>2. Others /\ pc'[s] = "read" /\ Moves
    BY <1>0, <1>2 DEF SweepStale, TypeOK, Running, Before
  <2> QED BY <1>c, <2>1, <2>2 DEF Running
<1>3. ASSUME NEW c \in todo[s], RecoverOne(s, c) PROVE Rows /\ Ends /\ Others /\ Moves /\ HeldKind'
  <2>1. c[1] \in Job
    BY <1>0 DEF TypeOK
  <2>2. Rows /\ Ends
    <3>1. CASE jobs' = jobs
      BY <3>1, <1>a
    <3>2. CASE Update(c[1], Requeued(c[1]))
      BY <2>1, <3>2, <1>b DEF Requeued, Stamped, Stage
    <3> QED BY <1>3, <3>1, <3>2 DEF RecoverOne
  <2>3. pc' = pc /\ held' = held /\ pc[s] = "recover"
    BY <1>3 DEF RecoverOne
  <2>4. Others /\ Moves /\ pc'[s] = "recover"
    BY <2>3 DEF Running, Before, Control
  <2> QED BY <2>2, <2>4, <1>c DEF Running
<1>4. ASSUME NEW j \in Job, ClaimJob(s, j) PROVE Rows /\ Ends /\ Others /\ Moves /\ HeldKind'
  <2>1. Rows /\ Ends
    BY <1>4, <1>b DEF ClaimJob, Stamped, Stage
  <2>2. /\ pc' = [pc EXCEPT ![s] = "claimed"] /\ held' = [held EXCEPT ![s] = j]
        /\ pc[s] = "idle" /\ Exists(j)
    BY <1>4 DEF ClaimJob, Claimable, Exists, NoRow
  <2>3. Others /\ Moves
    BY <1>0, <2>2 DEF TypeOK, Before, Control
  <2>4. \A i \in Job : jobs[i].stage # "unborn" => jobs'[i].stage # "unborn"
    BY <2>1 DEF RowsMove, Exists, Stage, Terminal, NoRow
  <2>5. jobs[j].stage # "unborn"
    BY <2>2 DEF Exists, NoRow
  <2>6. HeldKind'
    BY <1>0, <2>2, <2>4, <2>5 DEF HeldKind, TypeOK, Running
  <2> QED BY <2>1, <2>3, <2>6
<1>5. CASE Poll(s) \/ Signal(s)
  <2>1. jobs' = jobs /\ pc' = pc /\ held' = held
    BY <1>5 DEF Poll, Signal, qvars
  <2>2. Moves
    BY <1>0, <2>1 DEF Before, TypeOK, Control, Running
  <2> QED BY <2>1, <2>2, <1>a, <1>c DEF HeldKind
<1>6. CASE Advance(s)
  <2> DEFINE st == Next1(KindOf[held[s]], pc[s])
  <2>1. /\ pc[s] \in Running /\ st # "none" /\ Update(held[s], Written(held[s], st))
        /\ pc' = [pc EXCEPT ![s] = st] /\ held' = held
    BY <1>6 DEF Advance
  <2>2. held[s] \in Job
    BY <2>1 DEF HeldKind
  <2>3. KindOf[held[s]] \in JobKind
    BY <2>2
  <2>4. \/ /\ KindOf[held[s]] = "transcribe"
           /\ \/ (pc[s] = "claimed" /\ st = "normalizing")
              \/ (pc[s] = "normalizing" /\ st = "diarizing")
              \/ (pc[s] = "diarizing" /\ st = "transcribing")
        \/ /\ KindOf[held[s]] = "summarize"
           /\ \/ (pc[s] = "claimed" /\ st = "summarizing")
              \/ (pc[s] = "summarizing" /\ st = "rendering")
    BY <2>1, <2>2, <2>3 DEF Next1, JobKind
  <2>5. Rows /\ Ends
    <3>1. Written(held[s], st).stage = st
      BY DEF Written, Stamped
    <3>2. /\ st \in Stage \ {"awaiting_review", "done"}
          /\ st \in StagesOf(KindOf[held[s]])
      BY <2>4 DEF Stage, StagesOf
    <3> QED BY <1>b, <2>1, <2>2, <3>1, <3>2
  <2>6. Others /\ Moves
    BY <1>0, <2>1, <2>4 DEF TypeOK, Before, Control, Running
  <2> HIDE DEF st
  <2>7. HeldKind'
    BY <1>0, <1>c, <2>1, <2>4, <2>5, <2>6 DEF TypeOK
  <2> QED BY <2>5, <2>6, <2>7
<1>7. CASE Repeat(s)
  <2>1. pc' = pc /\ held' = held /\ pc[s] \in Running \ {"claimed", "stored"}
    BY <1>7 DEF Repeat
  <2>2. held[s] \in Job
    BY <2>1 DEF HeldKind
  <2>3. Rows /\ Ends
    <3> DEFINE st == IF pc[s] = "saved" THEN "rendering" ELSE pc[s]
    <3>1. pc[s] = "saved" => KindOf[held[s]] = "summarize"
      BY <1>7 DEF Repeat
    <3>2. /\ st \in Stage \ {"awaiting_review", "done"}
          /\ st \in StagesOf(KindOf[held[s]])
      BY <2>1, <3>1 DEF HeldKind, Running, Stage, StagesOf
    <3>3. Update(held[s], Written(held[s], st)) /\ Written(held[s], st).stage = st
      BY <1>7 DEF Repeat, Written, Stamped
    <3> HIDE DEF st
    <3> QED BY <2>2, <3>2, <3>3, <1>b
  <2>4. Moves
    BY <1>0, <2>1 DEF Before, TypeOK, Control, Running
  <2> QED BY <2>1, <2>3, <2>4, <1>c DEF HeldKind
<1>8. CASE Store(s) \/ Save(s)
  <2>1. /\ jobs' = jobs /\ held' = held
        /\ \/ (pc' = [pc EXCEPT ![s] = "stored"] /\ pc[s] \in {"transcribing", "rendering"})
           \/ (pc' = [pc EXCEPT ![s] = "saved"] /\ pc[s] = "stored")
    BY <1>8 DEF Store, Save
  <2>2. Others /\ Moves /\ pc'[s] \in {"stored", "saved"} /\ pc[s] \in Running
    BY <1>0, <2>1 DEF TypeOK, Before, Running
  <2> QED BY <2>1, <2>2, <1>a, <1>c
<1>9. CASE Finish(s)
  <2> DEFINE st == IF KindOf[held[s]] = "transcribe" THEN "awaiting_review" ELSE "done"
  <2>1. /\ pc[s] = "saved" /\ Update(held[s], Released(held[s], st))
        /\ pc' = [pc EXCEPT ![s] = "idle"] /\ Drop(s)
    BY <1>9 DEF Finish
  <2>2. held[s] \in Job /\ Runs(s, held[s])
    BY <2>1 DEF HeldKind, Running, Runs
  <2>3. /\ st \in Stage /\ st \in StagesOf(KindOf[held[s]])
        /\ (st = "awaiting_review" <=> KindOf[held[s]] = "transcribe")
    BY <2>2 DEF Stage, Terminal, StagesOf
  <2>4. \A j \in Job : IF j = held[s] /\ Exists(j) THEN jobs'[j].stage = st
                                                  ELSE jobs'[j] = jobs[j]
    BY <1>0, <2>1, <2>2 DEF Update, Released, Stamped, TypeOK
  <2> HIDE DEF st
  <2>5. Rows /\ Ends
    BY <1>0, <2>1, <2>2, <2>3, <2>4 DEF RowsMove, RunsEnd, TypeOK, Row, Exists
  <2>6. Others /\ Moves /\ pc'[s] = "idle"
    BY <1>0, <2>1 DEF Drop, TypeOK, Before, Running, Control
  <2> QED BY <2>5, <2>6, <1>c DEF Running
<1>10. CASE Retry(s) \/ GiveUp(s)
  <2>1. /\ pc[s] \in Running /\ pc' = [pc EXCEPT ![s] = "idle"] /\ Drop(s)
        /\ \/ Update(held[s], Requeued(held[s]))
           \/ Update(held[s], Released(held[s], "failed"))
    BY <1>10 DEF Retry, GiveUp
  <2>2. held[s] \in Job
    BY <2>1 DEF HeldKind
  <2>3. Rows /\ Ends
    BY <2>1, <2>2, <1>b DEF Requeued, Released, Stamped, Stage, Terminal
  <2>4. Others /\ Moves /\ pc'[s] = "idle"
    BY <1>0, <2>1 DEF Drop, TypeOK, Before, Running, Control
  <2> QED BY <2>3, <2>4, <1>c DEF Running
<1> QED
  BY <1>1, <1>2, <1>3, <1>4, <1>5, <1>6, <1>7, <1>8, <1>9, <1>10
  DEF Worker, Recovery, Work

\* Every write of a row stamps it with the present second.
LEMMA StampsNow ==
  ASSUME TypeInv, [Next]_qvars, NEW k \in Job
  PROVE  jobs'[k] = jobs[k] \/ jobs'[k].updatedAt = now \/ jobs'[k] = Blank("deleted")
<1> USE ConstantsAssumption
<1>0. TypeOK /\ HoldsJob
  BY DEF TypeInv
<1> DEFINE Good == jobs'[k] = jobs[k] \/ jobs'[k].updatedAt = now \/ jobs'[k] = Blank("deleted")
<1>1. ASSUME NEW j \in Job, NEW row, Update(j, row), row.updatedAt = now PROVE Good
  BY <1>0, <1>1 DEF Update, TypeOK
<1>2. ASSUME NEW s \in Slot, pc[s] \in Running PROVE held[s] \in Job
  BY <1>0, <1>2 DEF HoldsJob
<1>3. ASSUME NEW s \in Slot, Work(s) \/ Repeat(s) PROVE Good
  BY <1>1, <1>2, <1>3
  DEF Work, Repeat, Advance, Store, Save, Finish, Retry, GiveUp, Running,
      Written, Released, Requeued, Stamped
<1>4. ASSUME NEW s \in Slot, NEW c \in todo[s], RecoverOne(s, c) PROVE Good
  <2>1. c[1] \in Job
    BY <1>0 DEF TypeOK
  <2> QED BY <1>1, <1>4, <2>1 DEF RecoverOne, Requeued, Stamped
<1>5. ASSUME NEW s \in Slot, SweepStale(s) PROVE Good
  BY <1>5 DEF SweepStale, Requeued, Stamped
<1>6. ASSUME NEW s \in Slot, NEW j \in Job, ClaimJob(s, j) PROVE Good
  BY <1>1, <1>6 DEF ClaimJob, Stamped
<1>7. ASSUME NEW j \in Job, CreateJob(j) \/ DeleteJob(j) PROVE Good
  BY <1>0, <1>7 DEF CreateJob, DeleteJob, Stamped, Blank, TypeOK
<1>8. ASSUME jobs' = jobs PROVE Good
  BY <1>8
<1> QED
  BY <1>3, <1>4, <1>5, <1>6, <1>7, <1>8
  DEF Next, Client, Tick, Worker, Recovery, Start, ReadClaims, EnterLoop, Poll,
      Signal, Exit, Crash, qvars

\* No row was written in the future.
LEMMA NotFuture ==
  ASSUME TypeInv, [Next]_qvars, \A j \in Job : jobs[j].updatedAt <= now
  PROVE  \A j \in Job : jobs'[j].updatedAt <= now'
<1>0. TypeOK /\ now \in Nat /\ \A j \in Job : jobs[j].updatedAt \in Nat
  BY DEF TypeInv, TypeOK, Row, Time
<1>1. now' \in Nat /\ now <= now'
  BY <1>0
  DEF Next, Client, CreateJob, DeleteJob, Tick, Worker, Recovery, Work, Start, SweepStale,
      ReadClaims, RecoverOne, EnterLoop, ClaimJob, Poll, Advance, Repeat, Store, Save, Finish,
      Retry, GiveUp, Signal, Exit, Crash, qvars
<1> SUFFICES ASSUME NEW j \in Job PROVE jobs'[j].updatedAt <= now'
  OBVIOUS
<1>2. CASE jobs'[j] = jobs[j] \/ jobs'[j].updatedAt = now
  BY <1>0, <1>1, <1>2
<1>3. CASE jobs'[j] = Blank("deleted")
  BY <1>1, <1>3 DEF Blank
<1> QED BY <1>2, <1>3, StampsNow

\* The row of a job being run is not settled, in an orderly deployment.
LEMMA RunnerUnsettled ==
  ASSUME OrderInv, NEW s \in Slot, NEW j \in Job, Runs(s, j), Exists(j)
  PROVE  Unsettled(j)
<1>1. TypeOK /\ jobs[j].claimedBy = Id(s)
  BY DEF OrderInv, RowMatchesRunner
<1>2. Claimed(j)
  BY <1>1, ConstantsAssumption DEF Claimed, Id, WorkerId, TypeOK
<1> QED BY <1>2 DEF OrderInv, TerminalUnclaimed, Unsettled
-----------------------------------------------------------------------------
(***************************************************************************)
(* Two further invariants of the job queue, proved on top of OrderInv: how *)
(* often a job is run, and that a live process's claim is a run of it.     *)
(***************************************************************************)

Unrun(j) == \A s \in Slot : ~Runs(s, j)

\* A waiting job has a claim left, counting one for each process that died;
\* the run that takes the last one fails it.
AttemptsInv ==
  /\ \A j \in Job : jobs[j].attempts <= MaxAttempts + faults
  /\ \A j \in Job : Unsettled(j) /\ Unrun(j) => jobs[j].attempts < MaxAttempts + faults
  /\ \A s \in Slot, j \in Job : Runs(s, j) /\ Exists(j) => tries[s] = jobs[j].attempts

\* With fresh pids, a claim in the name of a live process is a run.
ClaimInv == ~ReusePid => LiveClaimIsRun

BoundsInv == AttemptsInv /\ ClaimInv

LEMMA Numbers ==
  ASSUME TypeOK
  PROVE  /\ MaxAttempts \in Nat /\ MaxAttempts > 0 /\ faults \in Nat
         /\ \A j \in Job : jobs[j].attempts \in Nat
         /\ \A s \in Slot : tries[s] \in Nat
         /\ \A s \in Slot : Id(s) \in WorkerId /\ Id(s) # None
BY ConstantsAssumption DEF TypeOK, Row, Id, WorkerId

\* A step that writes no attempts, unsettles nothing and moves nobody.
LEMMA AttemptsKept ==
  ASSUME TypeOK, AttemptsInv, faults' \in Nat, faults' >= faults,
         \A s \in Slot, i \in Job : Runs(s, i)' <=> Runs(s, i),
         \A i \in Job : /\ jobs'[i].attempts = jobs[i].attempts
                        /\ (Unsettled(i)' => Unsettled(i))
                        /\ (Exists(i)' => Exists(i)),
         \A s \in Slot, i \in Job : Runs(s, i) => tries'[s] = tries[s]
  PROVE  AttemptsInv'
<1> USE Numbers
<1>1. \A j \in Job : jobs'[j].attempts <= MaxAttempts + faults'
  BY DEF AttemptsInv
<1>2. ASSUME NEW j \in Job, Unsettled(j)', Unrun(j)'
      PROVE  jobs'[j].attempts < MaxAttempts + faults'
  <2>1. Unsettled(j) /\ Unrun(j)
    BY <1>2 DEF Unrun
  <2> QED BY <2>1 DEF AttemptsInv
<1>3. ASSUME NEW s \in Slot, NEW j \in Job, Runs(s, j)', Exists(j)'
      PROVE  tries'[s] = jobs'[j].attempts
  BY <1>3 DEF AttemptsInv
<1> QED BY <1>1, <1>2, <1>3 DEF AttemptsInv

\* A step that gives out no claim, starts nobody and moves nobody.
LEMMA ClaimsKept ==
  ASSUME TypeOK, ClaimInv, pid' = pid,
         \A s \in Slot, i \in Job : Runs(s, i)' <=> Runs(s, i),
         \A s \in Slot : Up(s)' => Up(s),
         \A i \in Job : /\ jobs'[i].claimedBy \in {jobs[i].claimedBy, None}
                        /\ (Exists(i)' => Exists(i))
  PROVE  ClaimInv'
<1> SUFFICES ASSUME ~ReusePid, NEW s \in Slot, NEW j \in Job, Up(s)', Exists(j)',
                    jobs'[j].claimedBy = Id(s)'
             PROVE  Runs(s, j)'
  BY DEF ClaimInv, LiveClaimIsRun
<1>1. Id(s)' = Id(s) /\ Id(s) # None
  BY Numbers DEF Id
<1> QED BY <1>1 DEF ClaimInv, LiveClaimIsRun

\* Finish, Retry and GiveUp: the job in hand is let go, unclaimed.
LEMMA BoundsRelease ==
  ASSUME TypeOK, SoleRunner, BoundsInv, NEW s \in Slot, NEW j \in Job, Runs(s, j),
         NEW st \in {"queued"} \cup Terminal,
         st = "queued" => tries[s] < MaxAttempts,
         Update(j, Stamped(st, None, 0, jobs[j].attempts)),
         pc' = [pc EXCEPT ![s] = "idle"], Drop(s), pid' = pid, faults' = faults
  PROVE  BoundsInv'
<1> USE Numbers
<1>1. \A t \in Slot, i \in Job : Runs(t, i)' <=> Runs(t, i) /\ t # s
  BY ConstantsAssumption DEF Runs, Drop, TypeOK, Running
<1>2. \A t \in Slot, i \in Job : Runs(t, i)' => i # j
  BY <1>1 DEF SoleRunner
<1>3. /\ \A i \in Job \ {j} : jobs'[i] = jobs[i]
      /\ \A i \in Job : /\ Exists(i)' <=> Exists(i)
                        /\ jobs'[i].attempts = jobs[i].attempts
      /\ Exists(j) => jobs'[j].stage = st /\ jobs'[j].claimedBy = None
  BY DEF Update, Stamped, Exists, NoRow, Terminal, TypeOK
<1>4. \A j1 \in Job : jobs'[j1].attempts <= MaxAttempts + faults'
  BY <1>3 DEF BoundsInv, AttemptsInv
<1>5. ASSUME NEW i \in Job, Unsettled(i)', Unrun(i)'
      PROVE  jobs'[i].attempts < MaxAttempts + faults'
  <2>1. CASE i = j
    <3>1. Exists(j) /\ st = "queued"
      BY <1>3, <1>5, <2>1 DEF Unsettled
    <3>2. tries[s] = jobs[j].attempts
      BY <3>1 DEF BoundsInv, AttemptsInv
    <3> QED BY <1>3, <2>1, <3>1, <3>2
  <2>2. CASE i # j
    <3>1. Unrun(i)
      BY <1>1, <1>5, <2>2 DEF Unrun, Runs
    <3>2. Unsettled(i)
      BY <1>3, <1>5, <2>2 DEF Unsettled
    <3> QED BY <1>3, <3>1, <3>2 DEF BoundsInv, AttemptsInv
  <2> QED BY <2>1, <2>2
<1>6. ASSUME NEW t \in Slot, NEW i \in Job, Runs(t, i)', Exists(i)'
      PROVE  tries'[t] = jobs'[i].attempts
  BY <1>1, <1>3, <1>6 DEF BoundsInv, AttemptsInv, Drop, TypeOK
<1>7. ClaimInv'
  <2> SUFFICES ASSUME ~ReusePid, NEW t \in Slot, NEW i \in Job, Up(t)', Exists(i)',
                      jobs'[i].claimedBy = Id(t)'
               PROVE  Runs(t, i)'
    BY DEF ClaimInv, LiveClaimIsRun
  <2>1. Id(t)' = Id(t) /\ Id(t) # None
    BY DEF Id
  <2>2. i # j
    BY <1>3, <2>1
  <2>3. Up(t)
    BY DEF Up, Runs, Running, TypeOK
  <2>4. Runs(t, i)
    BY <1>3, <2>1, <2>2, <2>3 DEF BoundsInv, ClaimInv, LiveClaimIsRun
  <2> QED BY <1>1, <2>2, <2>4 DEF Runs
<1> QED BY <1>4, <1>5, <1>6, <1>7 DEF BoundsInv, AttemptsInv

LEMMA BoundsInit == Init => BoundsInv
<1> SUFFICES ASSUME Init PROVE BoundsInv
  OBVIOUS
<1> QED BY ConstantsAssumption
    DEF Init, Blank, BoundsInv, AttemptsInv, ClaimInv, LiveClaimIsRun, Unsettled, Exists,
        NoRow, Runs, Running, Up

LEMMA BoundsNext ==
  ASSUME Orderly, OrderInv, OrderInv', BoundsInv, [Next]_qvars PROVE BoundsInv'
<1> USE ConstantsAssumption, Numbers
<1>0. TypeOK /\ TypeOK' /\ HoldsJob /\ SoleRunner /\ AttemptsInv /\ ClaimInv
  BY HeldIsJob DEF OrderInv, HoldsJob, BoundsInv
<1>f. faults' \in Nat
  BY <1>0 DEF TypeOK
<1>1. ASSUME NEW j \in Job, CreateJob(j) PROVE BoundsInv'
  <2>1. /\ \A i \in Job \ {j} : jobs'[i] = jobs[i]
        /\ jobs'[j].attempts = 0 /\ jobs'[j].claimedBy = None
    BY <1>0, <1>1 DEF CreateJob, Stamped, TypeOK
  <2>2. /\ \A s \in Slot, i \in Job : Runs(s, i)' <=> Runs(s, i)
        /\ \A s \in Slot : ~Runs(s, j)
    BY <1>0, <1>1 DEF CreateJob, OrderInv, HeldOK, HoldsJob, Runs
  <2>3. faults' = faults /\ tries' = tries /\ pc' = pc /\ pid' = pid
    BY <1>1 DEF CreateJob
  <2>4. AttemptsInv'
    <3>1. \A i \in Job : jobs'[i].attempts <= MaxAttempts + faults
      BY <1>0, <2>1 DEF AttemptsInv
    <3>2. ASSUME NEW i \in Job, Unsettled(i)', Unrun(i)'
          PROVE  jobs'[i].attempts < MaxAttempts + faults
      <4>1. CASE i = j
        BY <1>0, <2>1, <4>1
      <4>2. CASE i # j
        BY <1>0, <2>1, <2>2, <3>2, <4>2 DEF AttemptsInv, Unsettled, Exists, Unrun
      <4> QED BY <4>1, <4>2
    <3>3. ASSUME NEW s \in Slot, NEW i \in Job, Runs(s, i)', Exists(i)'
          PROVE  tries[s] = jobs'[i].attempts
      BY <1>0, <2>1, <2>2, <3>3 DEF AttemptsInv, Exists
    <3> QED BY <2>3, <3>1, <3>2, <3>3 DEF AttemptsInv
  <2>5. ClaimInv'
    BY <1>0, <2>1, <2>2, <2>3 DEF ClaimInv, LiveClaimIsRun, Id, Up, Exists
  <2> QED BY <2>4, <2>5 DEF BoundsInv
<1>2. ASSUME NEW j \in Job, DeleteJob(j) PROVE BoundsInv'
  <2>1. /\ \A i \in Job \ {j} : jobs'[i] = jobs[i]
        /\ jobs'[j].attempts = 0 /\ ~Exists(j)'
    BY <1>0, <1>2 DEF DeleteJob, Blank, Exists, NoRow, TypeOK
  <2>2. /\ \A s \in Slot, i \in Job : Runs(s, i)' <=> Runs(s, i)
        /\ faults' = faults /\ tries' = tries /\ pc' = pc /\ pid' = pid
    BY <1>2 DEF DeleteJob, Runs
  <2>3. AttemptsInv'
    <3>1. \A i \in Job : jobs'[i].attempts <= MaxAttempts + faults
      BY <1>0, <2>1 DEF AttemptsInv
    <3>2. ASSUME NEW i \in Job, Unsettled(i)', Unrun(i)'
          PROVE  jobs'[i].attempts < MaxAttempts + faults
      <4>1. i # j
        BY <2>1, <3>2 DEF Unsettled
      <4> QED BY <1>0, <2>1, <2>2, <3>2, <4>1 DEF AttemptsInv, Unsettled, Exists, Unrun
    <3>3. ASSUME NEW s \in Slot, NEW i \in Job, Runs(s, i)', Exists(i)'
          PROVE  tries[s] = jobs'[i].attempts
      BY <1>0, <2>1, <2>2, <3>3 DEF AttemptsInv, Exists
    <3> QED BY <2>2, <3>1, <3>2, <3>3 DEF AttemptsInv
  <2>4. ClaimInv'
    BY <1>0, <2>1, <2>2 DEF ClaimInv, LiveClaimIsRun, Id, Up, Exists
  <2> QED BY <2>3, <2>4 DEF BoundsInv
<1>3. ASSUME NEW s \in Slot, SweepStale(s) PROVE BoundsInv'
  <2>1. \A t \in Slot, i \in Job : Runs(t, i)' <=> Runs(t, i)
    BY <1>0, <1>3 DEF SweepStale, Runs, Running, TypeOK
  <2>2. \A i \in Job : /\ jobs'[i].attempts = jobs[i].attempts
                      /\ jobs'[i].claimedBy \in {jobs[i].claimedBy, None}
                      /\ (Unsettled(i)' => Unsettled(i))
                      /\ (Exists(i)' => Exists(i))
    BY <1>3 DEF SweepStale, Stale, Requeued, Stamped, Unsettled, Exists
  <2>3. /\ faults' = faults /\ tries' = tries /\ pid' = pid
        /\ \A t \in Slot : Up(t)' => Up(t)
    BY <1>0, <1>3 DEF SweepStale, Up, TypeOK
  <2>4. AttemptsInv'
    BY <1>0, <1>f, <2>1, <2>2, <2>3, AttemptsKept
  <2>5. ClaimInv'
    BY <1>0, <2>1, <2>2, <2>3, ClaimsKept
  <2> QED BY <2>4, <2>5 DEF BoundsInv
<1>4. ASSUME NEW s \in Slot, NEW c \in todo[s], RecoverOne(s, c) PROVE BoundsInv'
  <2>1. c[1] \in Job /\ (Exists(c[1]) => Unsettled(c[1]))
    BY <1>0 DEF OrderInv, TodoCurrent, Unsettled, TypeOK
  <2>2. \A i \in Job : /\ jobs'[i].attempts = jobs[i].attempts
                      /\ jobs'[i].claimedBy \in {jobs[i].claimedBy, None}
                      /\ (Unsettled(i)' => Unsettled(i))
                      /\ (Exists(i)' => Exists(i))
    BY <1>0, <1>4, <2>1 DEF RecoverOne, Update, Requeued, Stamped, Unsettled, Exists, TypeOK
  <2>3. /\ faults' = faults /\ tries' = tries /\ pid' = pid /\ pc' = pc /\ held' = held
    BY <1>4 DEF RecoverOne
  <2>4. AttemptsInv'
    BY <1>0, <1>f, <2>2, <2>3, AttemptsKept DEF Runs
  <2>5. ClaimInv'
    BY <1>0, <2>2, <2>3, ClaimsKept DEF Runs, Up
  <2> QED BY <2>4, <2>5 DEF BoundsInv
<1>5. ASSUME NEW s \in Slot, NEW j \in Job, ClaimJob(s, j) PROVE BoundsInv'
  <2>1. /\ pc[s] = "idle" /\ Exists(j) /\ Unsettled(j) /\ jobs[j].claimedBy = None
    BY <1>5 DEF ClaimJob, Claimable, Claimed, Unsettled, Exists, NoRow, Terminal
  <2>2. Unrun(j)
    BY <1>0, <2>1 DEF Unrun, OrderInv, RowMatchesRunner
  <2>3. \A t \in Slot, i \in Job : Runs(t, i)' <=> Runs(t, i) \/ (t = s /\ i = j)
    BY <1>0, <1>5, <2>1 DEF ClaimJob, Runs, Running, TypeOK
  <2>4. /\ \A i \in Job \ {j} : jobs'[i] = jobs[i]
        /\ jobs'[j].attempts = jobs[j].attempts + 1
        /\ jobs'[j].claimedBy = Id(s)
    BY <1>0, <1>5, <2>1 DEF ClaimJob, Update, Stamped, TypeOK
  <2>5. /\ faults' = faults /\ pid' = pid
        /\ tries'[s] = jobs[j].attempts + 1
        /\ \A t \in Slot \ {s} : tries'[t] = tries[t]
        /\ \A t \in Slot : Up(t)' => Up(t)
    BY <1>0, <1>5, <2>1 DEF ClaimJob, Up, TypeOK
  <2>6. AttemptsInv'
    <3>1. \A i \in Job : jobs'[i].attempts <= MaxAttempts + faults
      BY <1>0, <2>1, <2>2, <2>4 DEF AttemptsInv
    <3>2. ASSUME NEW i \in Job, Unsettled(i)', Unrun(i)'
          PROVE  jobs'[i].attempts < MaxAttempts + faults
      <4>1. i # j
        BY <2>3, <3>2 DEF Unrun
      <4> QED BY <1>0, <2>3, <2>4, <3>2, <4>1 DEF AttemptsInv, Unsettled, Exists, Unrun
    <3>3. ASSUME NEW t \in Slot, NEW i \in Job, Runs(t, i)', Exists(i)'
          PROVE  tries'[t] = jobs'[i].attempts
      <4>1. CASE i = j
        BY <2>2, <2>3, <2>4, <2>5, <3>3, <4>1 DEF Unrun
      <4>2. CASE i # j
        <5>1. Runs(t, i) /\ t # s
          BY <2>1, <2>3, <3>3, <4>2 DEF Runs, Running
        <5> QED BY <1>0, <2>4, <2>5, <3>3, <4>2, <5>1 DEF AttemptsInv, Exists
      <4> QED BY <4>1, <4>2
    <3> QED BY <2>5, <3>1, <3>2, <3>3 DEF AttemptsInv
  <2>7. ClaimInv'
    <3> SUFFICES ASSUME ~ReusePid, NEW t \in Slot, NEW i \in Job, Up(t)', Exists(i)',
                        jobs'[i].claimedBy = Id(t)'
                 PROVE  Runs(t, i)'
      BY DEF ClaimInv, LiveClaimIsRun
    <3>1. Id(t)' = Id(t) /\ Up(t)
      BY <2>5 DEF Id
    <3>2. CASE i = j
      <4>1. t = s
        BY <2>1, <2>4, <3>1, <3>2 DEF OrderInv, IdsUnique, Up
      <4> QED BY <2>3, <3>2, <4>1
    <3>3. CASE i # j
      BY <1>0, <2>3, <2>4, <3>1, <3>3 DEF ClaimInv, LiveClaimIsRun, Exists
    <3> QED BY <3>2, <3>3
  <2> QED BY <2>6, <2>7 DEF BoundsInv
<1>6. ASSUME NEW s \in Slot, Advance(s) \/ Repeat(s) \/ Store(s) \/ Save(s)
      PROVE  BoundsInv'
  <2>1. held[s] \in Job /\ pc[s] \in Running
    BY <1>0, <1>6 DEF Advance, Repeat, Store, Save, HoldsJob, Running
  <2>2. \/ jobs' = jobs
        \/ \E st : Update(held[s], Written(held[s], st)) /\ st \notin NoRow \cup Terminal
    BY <1>6 DEF Advance, Repeat, Store, Save, Next1, Running, NoRow, Terminal
  <2>3. Exists(held[s]) => Unsettled(held[s])
    <3> SUFFICES ASSUME Exists(held[s]), jobs[held[s]].stage \in Terminal PROVE FALSE
      BY DEF Unsettled
    <3>1. Runs(s, held[s]) /\ ~Claimed(held[s])
      BY <2>1 DEF OrderInv, TerminalUnclaimed, Runs
    <3>2. jobs[held[s]].claimedBy = Id(s)
      BY <2>1, <3>1 DEF OrderInv, RowMatchesRunner
    <3> QED BY <1>0, <3>1, <3>2 DEF Claimed
  <2>4. \A i \in Job : /\ jobs'[i].attempts = jobs[i].attempts
                      /\ jobs'[i].claimedBy \in {jobs[i].claimedBy, None}
                      /\ (Unsettled(i)' => Unsettled(i))
                      /\ (Exists(i)' => Exists(i))
    BY <1>0, <2>1, <2>2, <2>3 DEF Update, Written, Stamped, Unsettled, Exists, TypeOK
  <2>5. PICK st \in Running : pc' = [pc EXCEPT ![s] = st]
    <3>1. CASE Advance(s)
      BY <3>1 DEF Advance, Next1, Running
    <3>2. CASE Repeat(s)
      BY <1>0, <2>1, <3>2 DEF Repeat, TypeOK
    <3>3. CASE Store(s) \/ Save(s)
      BY <3>3 DEF Store, Save, Running
    <3> QED BY <1>6, <3>1, <3>2, <3>3
  <2>6. faults' = faults /\ tries' = tries /\ pid' = pid /\ held' = held
    BY <1>6 DEF Advance, Repeat, Store, Save
  <2>7. /\ \A t \in Slot, i \in Job : Runs(t, i)' <=> Runs(t, i)
        /\ \A t \in Slot : Up(t)' => Up(t)
    BY <1>0, <2>1, <2>5, <2>6 DEF Runs, Up, Running, TypeOK
  <2>8. AttemptsInv'
    BY <1>0, <1>f, <2>4, <2>6, <2>7, AttemptsKept
  <2>9. ClaimInv'
    BY <1>0, <2>4, <2>6, <2>7, ClaimsKept
  <2> QED BY <2>8, <2>9 DEF BoundsInv
<1>7. ASSUME NEW s \in Slot, Finish(s) \/ Retry(s) \/ GiveUp(s) PROVE BoundsInv'
  <2>1. PICK j \in Job : j = held[s]
    BY <1>0, <1>7 DEF HoldsJob, Finish, Retry, GiveUp, Running
  <2>2. Runs(s, j)
    BY <1>7, <2>1 DEF Finish, Retry, GiveUp, Runs, Running
  <2>3. PICK st \in {"queued"} \cup Terminal :
          /\ Update(j, Stamped(st, None, 0, jobs[j].attempts))
          /\ st = "queued" => tries[s] < MaxAttempts
    BY <1>7, <2>1 DEF Finish, Retry, GiveUp, Released, Requeued, Terminal
  <2>4. /\ pc' = [pc EXCEPT ![s] = "idle"] /\ Drop(s) /\ pid' = pid /\ faults' = faults
    BY <1>7 DEF Finish, Retry, GiveUp
  <2> QED BY <1>0, <2>2, <2>3, <2>4, BoundsRelease
<1>8. ASSUME NEW s \in Slot, Crash(s) PROVE BoundsInv'
  <2>1. \A t \in Slot, i \in Job : Runs(t, i)' <=> Runs(t, i) /\ t # s
    BY <1>0, <1>8 DEF Crash, Drop, Runs, Running, TypeOK
  <2>2. jobs' = jobs /\ pid' = pid /\ faults' = faults + 1
    BY <1>8 DEF Crash
  <2>3. \A t \in Slot : /\ (t # s => tries'[t] = tries[t])
                       /\ (Up(t)' => t # s /\ Up(t))
    BY <1>0, <1>8 DEF Crash, Drop, Up, TypeOK
  <2>4. AttemptsInv'
    <3>1. \A i \in Job : jobs'[i].attempts < MaxAttempts + faults'
      BY <1>0, <2>2 DEF AttemptsInv
    <3>2. ASSUME NEW t \in Slot, NEW i \in Job, Runs(t, i)', Exists(i)'
          PROVE  tries'[t] = jobs'[i].attempts
      <4>1. Runs(t, i) /\ t # s /\ Exists(i) /\ tries'[t] = tries[t]
        BY <2>1, <2>2, <2>3, <3>2 DEF Exists
      <4> QED BY <1>0, <2>2, <4>1 DEF AttemptsInv
    <3>3. \A i \in Job : jobs'[i].attempts <= MaxAttempts + faults'
      BY <1>0, <1>f, <2>2, <3>1
    <3> QED BY <3>1, <3>2, <3>3 DEF AttemptsInv
  <2>5. ClaimInv'
    <3> SUFFICES ASSUME ~ReusePid, NEW t \in Slot, NEW i \in Job, Up(t)', Exists(i)',
                        jobs'[i].claimedBy = Id(t)'
                 PROVE  Runs(t, i)'
      BY DEF ClaimInv, LiveClaimIsRun
    <3>1. t # s /\ Up(t) /\ Exists(i) /\ jobs[i].claimedBy = Id(t)
      BY <2>2, <2>3 DEF Id, Exists
    <3> QED BY <1>0, <2>1, <3>1 DEF ClaimInv, LiveClaimIsRun
  <2> QED BY <2>4, <2>5 DEF BoundsInv
<1>9. ASSUME NEW s \in Slot, Start(s) PROVE BoundsInv'
  <2>1. \A t \in Slot, i \in Job : Runs(t, i)' <=> Runs(t, i)
    BY <1>0, <1>9 DEF Start, Runs, Running, TypeOK
  <2>2. jobs' = jobs /\ faults' = faults /\ tries' = tries
    BY <1>9 DEF Start
  <2>3. AttemptsInv'
    BY <1>0, <1>f, <2>1, <2>2, AttemptsKept DEF Unsettled, Exists
  <2>4. ClaimInv'
    <3> SUFFICES ASSUME ~ReusePid, NEW t \in Slot, NEW i \in Job, Up(t)', Exists(i)',
                        jobs'[i].claimedBy = Id(t)'
                 PROVE  Runs(t, i)'
      BY DEF ClaimInv, LiveClaimIsRun
    <3>1. CASE t = s
      <4>1. Id(s)' = <<HostOf[s], starts + 1>>
        BY <1>0, <1>9 DEF Start, Id, TypeOK
      <4>2. jobs[i].claimedBy = <<HostOf[s], starts + 1>>
        BY <2>2, <3>1, <4>1
      <4>a. Claimed(i)
        <5>1. Id(s)' \in WorkerId
          BY <1>0 DEF Id, WorkerId, TypeOK
        <5> QED BY <4>1, <4>2, <5>1 DEF Claimed
      <4>3. starts + 1 <= starts
        BY <4>2, <4>a DEF OrderInv, PidsGiven
      <4> QED BY <1>0, <4>3, SlotCount DEF TypeOK
    <3>2. CASE t # s
      <4>1. Id(t)' = Id(t) /\ Up(t)
        BY <1>0, <1>9, <3>2 DEF Start, Id, Up, TypeOK
      <4> QED BY <1>0, <2>1, <2>2, <4>1 DEF ClaimInv, LiveClaimIsRun, Exists
    <3> QED BY <3>1, <3>2
  <2> QED BY <2>3, <2>4 DEF BoundsInv
<1>10. ASSUME NEW s \in Slot, ReadClaims(s) \/ EnterLoop(s) \/ Exit(s) PROVE BoundsInv'
  <2>1. PICK st \in {"recover", "idle", "down"} : pc' = [pc EXCEPT ![s] = st]
    BY <1>10 DEF ReadClaims, EnterLoop, Exit
  <2>2. /\ pc[s] \notin Running /\ Up(s)
        /\ jobs' = jobs /\ faults' = faults /\ tries' = tries /\ pid' = pid /\ held' = held
    BY <1>10 DEF ReadClaims, EnterLoop, Exit, Running, Up
  <2>3. \A t \in Slot, i \in Job : Runs(t, i)' <=> Runs(t, i)
    <3>1. \A t \in Slot \ {s} : pc'[t] = pc[t]
      BY <1>0, <2>1 DEF TypeOK
    <3>2. pc'[s] \notin Running
      BY <1>0, <2>1 DEF Running, TypeOK
    <3> QED BY <2>2, <3>1, <3>2 DEF Runs
  <2>4. \A t \in Slot : Up(t)' => Up(t)
    BY <1>0, <2>1, <2>2 DEF Up, TypeOK
  <2>5. AttemptsInv'
    BY <1>0, <1>f, <2>2, <2>3, AttemptsKept DEF Unsettled, Exists
  <2>6. ClaimInv'
    BY <1>0, <2>2, <2>3, <2>4, ClaimsKept DEF Exists
  <2> QED BY <2>5, <2>6 DEF BoundsInv
<1>11. ASSUME jobs' = jobs, pc' = pc, held' = held, tries' = tries, pid' = pid,
              faults' >= faults
       PROVE  BoundsInv'
  <2>1. AttemptsInv'
    BY <1>0, <1>f, <1>11, AttemptsKept DEF Unsettled, Exists, Runs
  <2>2. ClaimInv'
    BY <1>0, <1>11, ClaimsKept DEF Exists, Runs, Up
  <2> QED BY <2>1, <2>2 DEF BoundsInv
<1>12. ASSUME Tick \/ UNCHANGED qvars \/ \E s \in Slot : Signal(s) \/ Poll(s)
       PROVE  BoundsInv'
  <2>1. faults' >= faults
    BY <1>0, <1>12 DEF Tick, Signal, Poll, qvars
  <2> QED BY <1>11, <1>12, <2>1 DEF Tick, Signal, Poll, qvars
<1> QED
  BY <1>1, <1>2, <1>3, <1>4, <1>5, <1>6, <1>7, <1>8, <1>9, <1>10, <1>12
  DEF Next, Client, Worker, Recovery, Work

\* Attempts, the processes that were stopped or killed and the claims of live
\* processes agree throughout an orderly deployment.
THEOREM BoundsInvariant == ASSUME Orderly PROVE Spec => []BoundsInv
<1>1. Init => BoundsInv
  BY BoundsInit
<1>2. OrderInv /\ OrderInv' /\ BoundsInv /\ [Next]_qvars => BoundsInv'
  BY BoundsNext
<1> QED BY <1>1, <1>2, OrderInvariant, PTL DEF Spec

\* While runs are bounded by the cutoff and recoveries undisturbed, a job is
\* run at most worker_max_attempts times, and once more for each process that
\* died or was signalled, although the recoveries look at no attempt count.
THEOREM RunsAreBounded == ASSUME Orderly PROVE Spec => []AttemptsBounded
<1>1. BoundsInv => AttemptsBounded
  BY DEF BoundsInv, AttemptsInv, AttemptsBounded
<1> QED BY <1>1, BoundsInvariant, PTL

\* Under the same assumptions, and when no process is given the pid of an
\* earlier one, a claim in the name of a live process is a job it is running:
\* recover_local_claims is right to leave it alone.
THEOREM LiveClaimsRun == ASSUME Orderly, ~ReusePid PROVE Spec => []LiveClaimIsRun
<1>1. BoundsInv => LiveClaimIsRun
  BY DEF BoundsInv, ClaimInv
<1> QED BY <1>1, BoundsInvariant, PTL
-----------------------------------------------------------------------------
(***************************************************************************)
(* The job queue implements JobLifecycle (refinement mapping LC of         *)
(* JobQueueProps): each of its steps is one of a job's life, or none.      *)
(***************************************************************************)

\* What the mapping shows of a job, by its row and by who runs it.
LEMMA Shown ==
  ASSUME SoleRunner, NEW j \in Job
  PROVE  /\ \A s \in Slot : Exists(j) /\ Runs(s, j) => RunnerOf(j) = s
         /\ (\A s \in Slot : ~Runs(s, j)) \/ ~Exists(j) => RunnerOf(j) = None
<1>1. ASSUME NEW s \in Slot, Exists(j), Runs(s, j) PROVE RunnerOf(j) = s
  <2>1. \E t \in Slot : Runs(t, j)
    BY <1>1
  <2>2. RunnerOf(j) = CHOOSE t \in Slot : Runs(t, j)
    BY <1>1, <2>1 DEF RunnerOf
  <2>3. RunnerOf(j) \in Slot /\ Runs(RunnerOf(j), j)
    BY <2>1, <2>2
  <2> QED BY <1>1, <2>3 DEF SoleRunner
<1>2. ASSUME (\A s \in Slot : ~Runs(s, j)) \/ ~Exists(j) PROVE RunnerOf(j) = None
  BY <1>2 DEF RunnerOf
<1> QED BY <1>1, <1>2

\* The same of the next state.
LEMMA ShownNext ==
  ASSUME SoleRunner', NEW j \in Job
  PROVE  /\ \A s \in Slot : Exists(j)' /\ Runs(s, j)' => RunnerOf(j)' = s
         /\ (\A s \in Slot : ~Runs(s, j)') \/ ~Exists(j)' => RunnerOf(j)' = None
<1>1. ASSUME NEW s \in Slot, Exists(j)', Runs(s, j)' PROVE RunnerOf(j)' = s
  <2>1. \E t \in Slot : Runs(t, j)'
    BY <1>1
  <2>2. RunnerOf(j)' = CHOOSE t \in Slot : Runs(t, j)'
    BY <1>1, <2>1 DEF RunnerOf
  <2>3. \E t \in Slot : t = RunnerOf(j)' /\ Runs(t, j)'
    BY <2>1, <2>2
  <2> QED BY <1>1, <2>3 DEF SoleRunner
<1>2. ASSUME (\A s \in Slot : ~Runs(s, j)') \/ ~Exists(j)' PROVE RunnerOf(j)' = None
  BY <1>2 DEF RunnerOf
<1> QED BY <1>1, <1>2

\* A job nobody takes or lets go, and whose row stays in its class, is shown
\* as before.
LEMMA SameJob ==
  ASSUME SoleRunner, SoleRunner', NEW i \in Job,
         \A s \in Slot : Runs(s, i)' <=> Runs(s, i),
         jobs'[i].stage = jobs[i].stage \/ (Unsettled(i) /\ Unsettled(i)')
  PROVE  StatusOf(i)' = StatusOf(i) /\ RunnerOf(i)' = RunnerOf(i)
<1>1. Exists(i)' <=> Exists(i)
  BY DEF Exists, Unsettled
<1>2. RunnerOf(i)' = RunnerOf(i)
  <2>1. CASE \E s \in Slot : Exists(i) /\ Runs(s, i)
    BY <1>1, <2>1, Shown, ShownNext
  <2>2. CASE ~\E s \in Slot : Exists(i) /\ Runs(s, i)
    BY <1>1, <2>2, Shown, ShownNext
  <2> QED BY <2>1, <2>2
<1>3. StatusOf(i)' = StatusOf(i)
  <2>1. CASE jobs'[i].stage = jobs[i].stage
    BY <1>2, <2>1 DEF StatusOf
  <2>2. CASE Unsettled(i) /\ Unsettled(i)'
    BY <1>2, <2>2 DEF StatusOf, Unsettled, Exists, Terminal
  <2> QED BY <2>1, <2>2
<1> QED BY <1>2, <1>3

\* The mapped variables when one job alone changes.
LEMMA SetJob ==
  ASSUME NEW j \in Job, NEW st, NEW w,
         \A i \in Job \ {j} : StatusOf(i)' = StatusOf(i) /\ RunnerOf(i)' = RunnerOf(i),
         StatusOf(j)' = st, RunnerOf(j)' = w
  PROVE  LC!Set(j, st, w)
BY DEF LC!Set

mapped == <<[j \in Job |-> StatusOf(j)], [j \in Job |-> RunnerOf(j)]>>

LEMMA MapInit == Init => LC!Init
<1> SUFFICES ASSUME Init PROVE LC!Init
  OBVIOUS
<1>1. \A j \in Job : StatusOf(j) = "unborn" /\ RunnerOf(j) = None
  BY DEF Init, Blank, StatusOf, RunnerOf, Exists, NoRow
<1> QED BY <1>1 DEF LC!Init

\* A process that gives its job up, writing st if the row is still there.
LEMMA MapRelease ==
  ASSUME SoleRunner, SoleRunner', TypeOK, NEW s \in Slot, NEW j \in Job,
         Runs(s, j), Exists(j) => Unsettled(j),
         NEW st \in {"queued"} \cup Terminal, NEW n,
         Update(j, Stamped(st, None, 0, n)),
         pc' = [pc EXCEPT ![s] = "idle"], Drop(s)
  PROVE  [LC!Next]_mapped
<1>1. \A t \in Slot, i \in Job : Runs(t, i)' <=> Runs(t, i) /\ t # s
  BY ConstantsAssumption DEF Runs, Drop, TypeOK, Running
<1>2. \A t \in Slot : Runs(t, j) <=> t = s
  BY DEF Runs, SoleRunner
<1>3. \A i \in Job \ {j} :
        StatusOf(i)' = StatusOf(i) /\ RunnerOf(i)' = RunnerOf(i)
  <2> SUFFICES ASSUME NEW i \in Job \ {j}
               PROVE  StatusOf(i)' = StatusOf(i) /\ RunnerOf(i)' = RunnerOf(i)
    OBVIOUS
  <2>1. jobs'[i] = jobs[i]
    BY DEF Update, TypeOK
  <2>2. \A t \in Slot : Runs(t, i)' <=> Runs(t, i)
    BY <1>1 DEF Runs
  <2> QED BY <2>1, <2>2, SameJob
<1>4. RunnerOf(j)' = None
  BY <1>1, <1>2, ShownNext
<1>5. CASE Exists(j)
  <2>1. jobs'[j].stage = st
    BY <1>5 DEF Update, Stamped, TypeOK
  <2>2. StatusOf(j) = "running"
    <3>1. RunnerOf(j) = s
      BY <1>2, <1>5, Shown
    <3> QED BY <1>5, <3>1, ConstantsAssumption DEF StatusOf, Unsettled, Exists, Terminal
  <2>3. CASE st = "queued"
    <3>1. StatusOf(j)' = "waiting"
      BY <1>4, <2>1, <2>3 DEF StatusOf, NoRow
    <3> QED BY <1>3, <1>4, <2>2, <3>1, SetJob DEF LC!Next, LC!GiveBack
  <2>4. CASE st # "queued"
    <3>1. StatusOf(j)' \in {"finished", "failed"}
      BY <2>1, <2>4 DEF StatusOf, NoRow, Terminal
    <3>2. PICK w \in {"finished", "failed"} : StatusOf(j)' = w
      BY <3>1
    <3> QED BY <1>3, <1>4, <2>2, <3>2, SetJob DEF LC!Next, LC!Settle, LC!Settled
  <2> QED BY <2>3, <2>4
<1>6. CASE ~Exists(j)
  <2>1. jobs'[j] = jobs[j] /\ ~Exists(j)'
    BY <1>6 DEF Update, Exists
  <2>2. RunnerOf(j) = None
    BY <1>6, Shown
  <2>3. StatusOf(j)' = StatusOf(j)
    BY <1>4, <2>1, <2>2 DEF StatusOf
  <2> QED BY <1>3, <1>4, <2>2, <2>3 DEF mapped
<1> QED BY <1>5, <1>6

\* A step that moves no process into or out of a job and no row out of its
\* class is invisible.
LEMMA MapStutter ==
  ASSUME SoleRunner, SoleRunner',
         \A s \in Slot, i \in Job : Runs(s, i)' <=> Runs(s, i),
         \A i \in Job : \/ jobs'[i].stage = jobs[i].stage
                       \/ (Unsettled(i) /\ Unsettled(i)')
  PROVE  UNCHANGED mapped
<1>1. \A i \in Job : StatusOf(i)' = StatusOf(i) /\ RunnerOf(i)' = RunnerOf(i)
  BY SameJob
<1> QED BY <1>1 DEF mapped

LEMMA MapNext ==
  ASSUME Orderly, OrderInv, OrderInv', [Next]_qvars PROVE [LC!Next]_mapped
<1> USE ConstantsAssumption DEF Orderly
<1>0. TypeOK /\ HoldsJob /\ SoleRunner /\ SoleRunner' /\ TypeOK'
  <2>1. HoldsJob
    BY HeldIsJob DEF OrderInv, HoldsJob
  <2> QED BY <2>1 DEF OrderInv
<1>a. \A s \in Slot, i \in Job : Runs(s, i) /\ Exists(i) => Unsettled(i)
  <2> SUFFICES ASSUME NEW s \in Slot, NEW i \in Job, Runs(s, i), Exists(i),
                      jobs[i].stage \in Terminal
               PROVE  FALSE
    BY DEF Unsettled
  <2>1. jobs[i].claimedBy = Id(s) /\ ~Claimed(i)
    BY DEF OrderInv, RowMatchesRunner, TerminalUnclaimed
  <2> QED BY <1>0, <2>1 DEF Claimed, Id, WorkerId, TypeOK
<1>1. ASSUME NEW j \in Job, CreateJob(j) PROVE [LC!Next]_mapped
  <2>1. \A s \in Slot, i \in Job : Runs(s, i)' <=> Runs(s, i)
    BY <1>1 DEF CreateJob, Runs
  <2>2. \A s \in Slot : ~Runs(s, j)
    BY <1>0, <1>1 DEF CreateJob, OrderInv, HeldOK, HoldsJob, Runs
  <2>3. \A i \in Job \ {j} : StatusOf(i)' = StatusOf(i) /\ RunnerOf(i)' = RunnerOf(i)
    BY <1>0, <1>1, <2>1, SameJob DEF CreateJob, TypeOK
  <2>4. RunnerOf(j)' = None
    BY <1>0, <2>1, <2>2, ShownNext
  <2>5. StatusOf(j)' = "waiting"
    BY <1>0, <1>1, <2>4 DEF CreateJob, Stamped, StatusOf, NoRow, TypeOK
  <2>6. StatusOf(j) = "unborn"
    BY <1>1 DEF CreateJob, StatusOf, NoRow
  <2> QED BY <2>3, <2>4, <2>5, <2>6, SetJob DEF LC!Next, LC!Submit
<1>2. ASSUME NEW j \in Job, DeleteJob(j) PROVE [LC!Next]_mapped
  <2>1. \A s \in Slot, i \in Job : Runs(s, i)' <=> Runs(s, i)
    BY <1>2 DEF DeleteJob, Runs
  <2>2. \A i \in Job \ {j} : StatusOf(i)' = StatusOf(i) /\ RunnerOf(i)' = RunnerOf(i)
    BY <1>0, <1>2, <2>1, SameJob DEF DeleteJob, TypeOK
  <2>3. jobs'[j].stage = "deleted"
    BY <1>0, <1>2 DEF DeleteJob, Blank, TypeOK
  <2>4. RunnerOf(j)' = None /\ StatusOf(j)' = "deleted"
    BY <1>0, <2>3, ShownNext DEF StatusOf, Exists, NoRow
  <2>5. StatusOf(j) \notin {"unborn", "deleted"}
    BY <1>2 DEF DeleteJob, StatusOf, Exists, NoRow
  <2> QED BY <2>2, <2>4, <2>5, SetJob DEF LC!Next, LC!Delete
<1>3. ASSUME NEW s \in Slot, SweepStale(s) PROVE [LC!Next]_mapped
  <2>1. \A t \in Slot, i \in Job : Runs(t, i)' <=> Runs(t, i)
    BY <1>0, <1>3 DEF SweepStale, Runs, Running, TypeOK
  <2>2. \A i \in Job : \/ jobs'[i].stage = jobs[i].stage
                      \/ (Unsettled(i) /\ Unsettled(i)')
    BY <1>3 DEF SweepStale, Stale, Requeued, Stamped, Unsettled, Exists, NoRow, Terminal
  <2> QED BY <1>0, <2>1, <2>2, MapStutter
<1>4. ASSUME NEW s \in Slot, NEW c \in todo[s], RecoverOne(s, c)
      PROVE  [LC!Next]_mapped
  <2>1. c[1] \in Job
    BY <1>0 DEF TypeOK
  <2>2. \A t \in Slot, i \in Job : Runs(t, i)' <=> Runs(t, i)
    BY <1>4 DEF RecoverOne, Runs
  <2>3. Exists(c[1]) => Unsettled(c[1])
    BY DEF OrderInv, TodoCurrent, Unsettled
  <2>4. \A i \in Job : \/ jobs'[i].stage = jobs[i].stage
                      \/ (Unsettled(i) /\ Unsettled(i)')
    BY <1>0, <1>4, <2>1, <2>3
    DEF RecoverOne, Update, Requeued, Stamped, Unsettled, Exists, NoRow, Terminal, TypeOK
  <2> QED BY <1>0, <2>2, <2>4, MapStutter
<1>5. ASSUME NEW s \in Slot, NEW j \in Job, ClaimJob(s, j) PROVE [LC!Next]_mapped
  <2>1. /\ pc[s] = "idle" /\ Exists(j) /\ jobs[j].stage = "queued"
        /\ jobs[j].claimedBy = None
    BY <1>5 DEF ClaimJob, Claimable, Claimed, Exists, NoRow
  <2>2. \A t \in Slot : ~Runs(t, j)
    <3> SUFFICES ASSUME NEW t \in Slot, Runs(t, j) PROVE FALSE
      OBVIOUS
    <3>1. jobs[j].claimedBy = Id(t) /\ Id(t) \in WorkerId
      BY <1>0, <2>1 DEF OrderInv, RowMatchesRunner, Id, WorkerId, TypeOK
    <3> QED BY <2>1, <3>1
  <2>3. \A t \in Slot, i \in Job : Runs(t, i)' <=> Runs(t, i) \/ (t = s /\ i = j)
    BY <1>0, <1>5, <2>1 DEF ClaimJob, Runs, Running, TypeOK
  <2>4. /\ jobs'[j].stage = "queued"
        /\ \A i \in Job \ {j} : jobs'[i] = jobs[i]
    BY <1>0, <1>5, <2>1 DEF ClaimJob, Update, Stamped, TypeOK
  <2>5. \A i \in Job \ {j} : StatusOf(i)' = StatusOf(i) /\ RunnerOf(i)' = RunnerOf(i)
    BY <1>0, <2>3, <2>4, SameJob
  <2>6. RunnerOf(j) = None /\ StatusOf(j) = "waiting"
    BY <1>0, <2>1, <2>2, Shown DEF StatusOf, NoRow
  <2>7. RunnerOf(j)' = s
    BY <1>0, <2>3, <2>4, ShownNext DEF Exists, NoRow
  <2>8. StatusOf(j)' = "running"
    BY <2>4, <2>7 DEF StatusOf, NoRow
  <2>9. \A i \in Job : RunnerOf(i) # s
    <3> SUFFICES ASSUME NEW i \in Job, RunnerOf(i) = s PROVE FALSE
      OBVIOUS
    <3>1. PICK t \in Slot : Runs(t, i) /\ Exists(i)
      BY <1>0, Shown
    <3>2. t = s
      BY <1>0, <3>1, Shown
    <3> QED BY <2>1, <3>1, <3>2 DEF Runs, Running
  <2> QED BY <2>5, <2>6, <2>7, <2>8, <2>9, SetJob DEF LC!Next, LC!Take
<1>6. ASSUME NEW s \in Slot, NEW st \in Running, pc[s] \in Running,
             NEW row, Update(held[s], row) \/ jobs' = jobs,
             row.stage \notin Terminal \cup NoRow,
             pc' = [pc EXCEPT ![s] = st], held' = held
      PROVE  [LC!Next]_mapped
  <2>1. \A t \in Slot, i \in Job : Runs(t, i)' <=> Runs(t, i)
    BY <1>0, <1>6 DEF Runs, TypeOK
  <2>2. held[s] \in Job /\ (Exists(held[s]) => Unsettled(held[s]))
    BY <1>0, <1>6, <1>a DEF HoldsJob, Runs
  <2>3. \A i \in Job : \/ jobs'[i].stage = jobs[i].stage
                      \/ (Unsettled(i) /\ Unsettled(i)')
    BY <1>0, <1>6, <2>2 DEF Update, Unsettled, Exists, TypeOK
  <2> QED BY <1>0, <2>1, <2>3, MapStutter
<1>7. ASSUME NEW s \in Slot, Advance(s) PROVE [LC!Next]_mapped
  <2> DEFINE st == Next1(KindOf[held[s]], pc[s])
  <2>1. st \in Running /\ st \notin Terminal \cup NoRow
    BY <1>7 DEF Advance, Next1, Running, Terminal, NoRow
  <2>2. Written(held[s], st).stage = st
    BY DEF Written, Stamped
  <2> HIDE DEF st
  <2>3. PICK st1 \in {st}, row \in {Written(held[s], st)} : st1 \in Running
    BY <2>1
  <2>4. /\ pc[s] \in Running /\ Update(held[s], row)
        /\ pc' = [pc EXCEPT ![s] = st1] /\ held' = held
    BY <1>7, <2>3 DEF Advance, st
  <2>5. st1 = st /\ row = Written(held[s], st)
    BY <2>3
  <2> QED BY <1>6, <2>1, <2>2, <2>3, <2>4, <2>5
<1>8. ASSUME NEW s \in Slot, Repeat(s) PROVE [LC!Next]_mapped
  <2>1. PICK st \in {pc[s]},
             row \in {Written(held[s], IF pc[s] = "saved" THEN "rendering" ELSE pc[s])} :
               st \in Running
    BY <1>8 DEF Repeat
  <2>2. row.stage \notin Terminal \cup NoRow
    BY <1>8, <2>1 DEF Repeat, Written, Stamped, Running, Terminal, NoRow
  <2>3. /\ pc[s] \in Running /\ Update(held[s], row)
        /\ pc' = [pc EXCEPT ![s] = st] /\ held' = held
    BY <1>0, <1>8, <2>1 DEF Repeat, TypeOK
  <2> QED BY <1>6, <2>2, <2>3
<1>9. ASSUME NEW s \in Slot, Store(s) \/ Save(s) PROVE [LC!Next]_mapped
  <2>1. PICK st \in {"stored", "saved"} : pc' = [pc EXCEPT ![s] = st]
    BY <1>9 DEF Store, Save
  <2>2. \A t \in Slot, i \in Job : Runs(t, i)' <=> Runs(t, i)
    BY <1>0, <1>9, <2>1 DEF Store, Save, Runs, Running, TypeOK
  <2>3. jobs' = jobs
    BY <1>9 DEF Store, Save
  <2> QED BY <1>0, <2>2, <2>3, MapStutter
<1>10. ASSUME NEW s \in Slot, Finish(s) \/ Retry(s) \/ GiveUp(s)
       PROVE  [LC!Next]_mapped
  <2>1. PICK j \in Job : j = held[s]
    BY <1>0, <1>10 DEF HoldsJob, Finish, Retry, GiveUp, Running
  <2>2. Runs(s, j) /\ (Exists(j) => Unsettled(j))
    BY <1>a, <1>10, <2>1 DEF Finish, Retry, GiveUp, Runs, Running
  <2>3. PICK st \in {"queued"} \cup Terminal : Update(j, Stamped(st, None, 0, jobs[j].attempts))
    BY <1>10, <2>1 DEF Finish, Retry, GiveUp, Released, Requeued, Terminal
  <2>4. PICK n \in {jobs[j].attempts} : TRUE
    OBVIOUS
  <2>5. pc' = [pc EXCEPT ![s] = "idle"] /\ Drop(s)
    BY <1>10 DEF Finish, Retry, GiveUp
  <2> QED BY <1>0, <2>2, <2>3, <2>4, <2>5, MapRelease
<1>11. ASSUME NEW s \in Slot, Crash(s) PROVE [LC!Next]_mapped
  <2>1. \A t \in Slot, i \in Job : Runs(t, i)' <=> Runs(t, i) /\ t # s
    BY <1>0, <1>11 DEF Crash, Drop, Runs, Running, TypeOK
  <2>2. CASE \E j \in Job : Runs(s, j) /\ Exists(j)
    <3>1. PICK j \in Job : Runs(s, j) /\ Exists(j)
      BY <2>2
    <3>2. jobs' = jobs /\ Unsettled(j)
      BY <1>a, <1>11, <3>1 DEF Crash
    <3>3. \A i \in Job \ {j} : StatusOf(i)' = StatusOf(i) /\ RunnerOf(i)' = RunnerOf(i)
      BY <1>0, <2>1, <3>1, <3>2, SameJob DEF Runs
    <3>4. RunnerOf(j)' = None
      BY <1>0, <2>1, <3>1, ShownNext DEF SoleRunner
    <3>5. StatusOf(j)' = "waiting"
      BY <3>2, <3>4 DEF StatusOf, Unsettled, Exists, Terminal
    <3>6. RunnerOf(j) = s /\ StatusOf(j) = "running"
      BY <1>0, <3>1, <3>2, Shown DEF StatusOf, Unsettled, Exists, Terminal
    <3> QED BY <3>3, <3>4, <3>5, <3>6, SetJob DEF LC!Next, LC!GiveBack
  <2>3. CASE \A j \in Job : Runs(s, j) => ~Exists(j)
    <3>1. jobs' = jobs
      BY <1>11 DEF Crash
    <3>2. \A i \in Job : StatusOf(i)' = StatusOf(i) /\ RunnerOf(i)' = RunnerOf(i)
      <4> SUFFICES ASSUME NEW i \in Job
                   PROVE  StatusOf(i)' = StatusOf(i) /\ RunnerOf(i)' = RunnerOf(i)
        OBVIOUS
      <4>1. CASE Exists(i)
        BY <1>0, <2>1, <2>3, <3>1, <4>1, SameJob
      <4>2. CASE ~Exists(i)
        BY <3>1, <4>2 DEF StatusOf, RunnerOf, Exists
      <4> QED BY <4>1, <4>2
    <3> QED BY <3>2 DEF mapped
  <2> QED BY <2>2, <2>3
<1>12. ASSUME NEW s \in Slot, Start(s) \/ ReadClaims(s) \/ EnterLoop(s) \/ Exit(s)
       PROVE  [LC!Next]_mapped
  <2>1. PICK st \in {"sweep", "recover", "idle", "down"} :
          pc' = [pc EXCEPT ![s] = st]
    BY <1>12 DEF Start, ReadClaims, EnterLoop, Exit
  <2>2. pc[s] \notin Running /\ held' = held /\ jobs' = jobs
    BY <1>12 DEF Start, ReadClaims, EnterLoop, Exit, Running
  <2>3. \A t \in Slot, i \in Job : Runs(t, i)' <=> Runs(t, i)
    <3>1. \A t \in Slot \ {s} : pc'[t] = pc[t]
      BY <1>0, <2>1 DEF TypeOK
    <3>2. pc'[s] \notin Running
      BY <1>0, <2>1 DEF Running, TypeOK
    <3> QED BY <2>2, <3>1, <3>2 DEF Runs
  <2> QED BY <1>0, <2>2, <2>3, MapStutter
<1>13. ASSUME jobs' = jobs, pc' = pc, held' = held PROVE [LC!Next]_mapped
  BY <1>0, <1>13, MapStutter DEF Runs
<1>14. ASSUME Tick \/ UNCHANGED qvars \/ \E s \in Slot : Signal(s) \/ Poll(s)
       PROVE  [LC!Next]_mapped
  BY <1>13, <1>14 DEF Tick, Signal, Poll, qvars
<1> QED
  BY <1>1, <1>2, <1>3, <1>4, <1>5, <1>7, <1>8, <1>9, <1>10, <1>11, <1>12, <1>14
  DEF Next, Client, Worker, Recovery, Work

\* While runs are bounded by the cutoff and recoveries undisturbed, the table,
\* the claims and the processes together give every job the life JobLifecycle
\* promises: one runner at a time, taken by a free worker, given back or
\* settled by nobody else, settled for good.
THEOREM QueueImplementsLifecycle == ASSUME Orderly PROVE Spec => ImplementsLifecycle
<1>1. Init => LC!Init
  BY MapInit
<1>2. OrderInv /\ OrderInv' /\ [Next]_qvars => [LC!Next]_mapped
  BY MapNext
<1> QED BY <1>1, <1>2, OrderInvariant, PTL DEF Spec, ImplementsLifecycle, LC!Spec, mapped
=============================================================================
