------------------------- MODULE MinutesStoreProofs -------------------------
(***************************************************************************)
(* Proofs about the minutes of a meeting, for every number of summarize    *)
(* jobs, requests, edits, slots, hosts, attempts, faults and ticks.        *)
(***************************************************************************)
EXTENDS MinutesStore, JobQueueProofs

MTypeOK ==
  /\ text \in Nat
  /\ read \in [Slot -> Nat]
  /\ minutes \in [by : Job \cup Patch \cup {None}, run : Nat, text : Nat]
  /\ req \in [Request -> [at : {"new", "insert", "done"}, saw : Nat,
                          job : Job \cup {None}, made : BOOLEAN]]
  /\ patch \in [Patch -> {"new", "render", "save", "done", "failed"}]

\* A run that has read the transcript.
HasRead(s) == pc[s] \in {"summarizing", "rendering", "stored", "saved"}

\* A job made for a request, its runs and its minutes come after the request.
FreshOK ==
  /\ \A r \in Request : req[r].saw <= text /\ (req[r].made => req[r].at = "done")
  /\ \A r \in Request : req[r].made =>
       req[r].job \in Job /\ jobs[req[r].job].stage # "unborn"
  /\ minutes.by \in Job => jobs[minutes.by].stage # "unborn"
  /\ \A r \in Request, s \in Slot :
       req[r].made /\ HasRead(s) /\ held[s] = req[r].job => read[s] >= req[r].saw
  /\ OwnJobIsFresh

FInv == TypeInv /\ MTypeOK /\ HeldKind /\ FreshOK

LEMMA FInvInit == MInit => FInv
<1> SUFFICES ASSUME MInit PROVE FInv
  OBVIOUS
<1> USE ConstantsAssumption, MinutesAssumption
<1>1. TypeInv
  BY TypeInvInit DEF MInit
<1>2. MTypeOK
  BY DEF MInit, MTypeOK, NoMinutes
<1>3. HeldKind /\ FreshOK
  BY DEF MInit, Init, NoMinutes, HeldKind, FreshOK, OwnJobIsFresh, HasRead, Running
<1> QED BY <1>1, <1>2, <1>3 DEF FInv

\* The queue's part of a step is a step of the queue.
LEMMA MProjects == [MNext]_vars => [Next]_qvars
BY DEF MNext, ReadTranscript, RenderRun, SaveRun, FailRun, OtherWork, EditTranscript, Ask, Insert,
       PatchRead, PatchRender, PatchSave, PatchFail, Next, Client, Worker, Work, vars

\* The steps of one process.
RunStep(s) == ReadTranscript(s) \/ RenderRun(s) \/ SaveRun(s) \/ FailRun(s) \/ OtherWork(s)

\* What such a step does to the minutes: only a first look at the transcript
\* begins a run that has read it.
LEMMA RunStepFacts ==
  ASSUME FInv, NEW s \in Slot, RunStep(s)
  PROVE  /\ Worker(s) /\ MTypeOK' /\ RowsMove /\ RunsEnd(s) /\ MovesAlone(s) /\ HeldKind'
         /\ text' = text /\ req' = req /\ patch' = patch
         /\ \A t \in Slot : t # s \/ pc[s] # "claimed" => read'[t] = read[t]
         /\ HasRead(s)' => \/ read'[s] = text
                           \/ HasRead(s) /\ held'[s] = held[s] /\ read'[s] = read[s]
         /\ \/ minutes' = minutes
            \/ HasRead(s) /\ held[s] \in Job /\ minutes' = ByRun(s)
<1> USE ConstantsAssumption, MinutesAssumption DEF dvars
<1>0. TypeInv /\ TypeOK /\ MTypeOK /\ HeldKind
  BY DEF FInv, TypeInv
<1>1. Worker(s)
  BY DEF RunStep, ReadTranscript, RenderRun, SaveRun, FailRun, OtherWork, Worker, Work
<1>2. RowsMove /\ RunsEnd(s) /\ MovesAlone(s) /\ HeldKind'
  BY <1>0, <1>1, WorkerStep DEF Moved
<1>3. text' = text /\ req' = req /\ patch' = patch
  BY DEF RunStep, ReadTranscript, RenderRun, SaveRun, FailRun, OtherWork
<1>4. \/ minutes' = minutes
      \/ HasRead(s) /\ held[s] \in Job /\ minutes' = ByRun(s)
  BY <1>0 DEF RunStep, ReadTranscript, RenderRun, SaveRun, Save, FailRun, OtherWork, HasRead, HeldKind,
              Running
<1>5. MTypeOK'
  <2>1. read' \in [Slot -> Nat]
    BY <1>0 DEF RunStep, ReadTranscript, RenderRun, SaveRun, FailRun, OtherWork, MTypeOK
  <2>2. held[s] \in Job => ByRun(s) \in [by : Job \cup Patch \cup {None}, run : Nat, text : Nat]
    BY <1>0 DEF ByRun, MTypeOK, TypeOK
  <2> QED BY <1>0, <1>3, <1>4, <2>1, <2>2 DEF MTypeOK
<1>6. \A t \in Slot : t # s \/ pc[s] # "claimed" => read'[t] = read[t]
  BY <1>0 DEF RunStep, ReadTranscript, RenderRun, SaveRun, FailRun, OtherWork, MTypeOK
<1>7. HasRead(s)' => \/ read'[s] = text
                     \/ HasRead(s) /\ held'[s] = held[s] /\ read'[s] = read[s]
  <2> SUFFICES ASSUME HasRead(s)'
               PROVE  \/ read'[s] = text
                      \/ HasRead(s) /\ held'[s] = held[s] /\ read'[s] = read[s]
    OBVIOUS
  <2>1. held'[s] = held[s] /\ pc[s] \in Before(pc'[s])
    BY <1>2 DEF MovesAlone, HasRead, Running
  <2>2. CASE ReadTranscript(s)
    BY <1>0, <2>2 DEF ReadTranscript, MTypeOK
  <2>3. CASE ~ReadTranscript(s)
    <3>1. read'[s] = read[s]
      BY <2>3 DEF RunStep, RenderRun, SaveRun, FailRun, OtherWork
    <3>2. pc[s] # "claimed"
      <4>1. CASE pc[s] # "claimed" /\ Advance(s)
        BY <4>1
      <4>2. CASE RenderRun(s) \/ SaveRun(s)
        BY <4>2 DEF RenderRun, SaveRun, Store, Save
      <4>3. CASE \/ Repeat(s) \/ Finish(s) \/ Retry(s) \/ GiveUp(s) \/ Start(s) \/ Recovery(s)
                 \/ Poll(s) \/ (\E j \in Job : ClaimJob(s, j))
                 \/ Signal(s) \/ Exit(s) \/ Crash(s)
        BY <1>0, <4>3
        DEF Repeat, Finish, Retry, GiveUp, Start, Recovery, Poll, SweepStale, ReadClaims,
            EnterLoop, RecoverOne, ClaimJob, Signal, Exit, Crash, TypeOK, qvars, HasRead
      <4> QED BY <2>3, <4>1, <4>2, <4>3 DEF RunStep, OtherWork, FailRun
    <3>3. pc[s] \notin {"normalizing", "diarizing", "transcribing"}
      BY <1>0 DEF HeldKind, Running
    <3> QED BY <2>1, <3>1, <3>2, <3>3 DEF HasRead, Before
  <2> QED BY <2>2, <2>3
<1> QED BY <1>1, <1>2, <1>3, <1>4, <1>5, <1>6, <1>7

\* What an update of a request's record leaves of it.
RequestRecord == [at : {"new", "insert", "done"}, saw : Nat, job : Job \cup {None}, made : BOOLEAN]

Handed(q, w, j) == [q EXCEPT !.at = "done", !.saw = w, !.job = j]
Inserting(q, w) == [q EXCEPT !.at = "insert", !.saw = w]
Made(q, j) == [q EXCEPT !.at = "done", !.job = j, !.made = TRUE]

LEMMA HandedRecord ==
  ASSUME NEW q \in RequestRecord, NEW w \in Nat, NEW j \in Job
  PROVE  /\ Handed(q, w, j) \in RequestRecord
         /\ Handed(q, w, j).saw = w /\ Handed(q, w, j).made = q.made
         /\ Handed(q, w, j).at = "done"
BY DEF RequestRecord, Handed

LEMMA InsertingRecord ==
  ASSUME NEW q \in RequestRecord, NEW w \in Nat
  PROVE  /\ Inserting(q, w) \in RequestRecord
         /\ Inserting(q, w).saw = w /\ Inserting(q, w).made = q.made
         /\ Inserting(q, w).at = "insert"
BY DEF RequestRecord, Inserting

LEMMA MadeRecord ==
  ASSUME NEW q \in RequestRecord, NEW j \in Job
  PROVE  /\ Made(q, j) \in RequestRecord
         /\ Made(q, j).saw = q.saw /\ Made(q, j).job = j /\ Made(q, j).at = "done"
BY DEF RequestRecord, Made

\* The two halves of a request: what they leave in its record.
LEMMA AskFacts ==
  ASSUME FInv, NEW r \in Request, Ask(r)
  PROVE  /\ req' \in [Request -> RequestRecord]
         /\ req'[r].saw = text /\ ~req'[r].made
         /\ req'[r].at = IF LatestActive = {} THEN "insert" ELSE "done"
         /\ \A q \in Request \ {r} : req'[q] = req[q]
<1>0. text \in Nat
  BY DEF FInv, MTypeOK
<1>1. req \in [Request -> RequestRecord] /\ req[r] \in RequestRecord /\ ~req[r].made
  BY DEF FInv, MTypeOK, FreshOK, Ask, RequestRecord
<1>2. CASE LatestActive # {}
  <2> DEFINE x == Handed(req[r], text, LatestJob)
  <2>1. LatestJob \in Job
    BY <1>2 DEF LatestJob, LatestActive
  <2>2. x \in RequestRecord /\ x.saw = text /\ x.made = req[r].made /\ x.at = "done"
    BY <1>0, <1>1, <2>1, HandedRecord
  <2>3. req' = [req EXCEPT ![r] = x]
    BY <1>1, <1>2 DEF Ask, Handed
  <2> HIDE DEF x
  <2> QED BY <1>1, <1>2, <2>2, <2>3
<1>3. CASE LatestActive = {}
  <2> DEFINE x == Inserting(req[r], text)
  <2>1. x \in RequestRecord /\ x.saw = text /\ x.made = req[r].made /\ x.at = "insert"
    BY <1>0, <1>1, InsertingRecord
  <2>2. req' = [req EXCEPT ![r] = x]
    BY <1>1, <1>3 DEF Ask, Inserting
  <2> HIDE DEF x
  <2> QED BY <1>1, <1>3, <2>1, <2>2
<1> QED BY <1>2, <1>3

LEMMA InsertFacts ==
  ASSUME MTypeOK, NEW r \in Request, NEW j \in Job,
         req' = [req EXCEPT ![r].at = "done", ![r].job = j, ![r].made = TRUE]
  PROVE  /\ req' \in [Request -> RequestRecord]
         /\ req'[r].saw = req[r].saw /\ req'[r].job = j /\ req'[r].at = "done"
         /\ \A q \in Request \ {r} : req'[q] = req[q]
<1> DEFINE x == Made(req[r], j)
<1>1. req \in [Request -> RequestRecord] /\ req[r] \in RequestRecord
  BY DEF MTypeOK, RequestRecord
<1>2. x \in RequestRecord /\ x.saw = req[r].saw /\ x.job = j /\ x.at = "done"
  BY <1>1, MadeRecord
<1>3. req' = [req EXCEPT ![r] = x]
  BY DEF Made
<1> HIDE DEF x
<1>4. req' \in [Request -> RequestRecord] /\ req'[r] = x
  <2> DEFINE R == RequestRecord
  <2>1. req \in [Request -> R] /\ x \in R
    BY <1>1, <1>2
  <2> HIDE DEF R
  <2>2. req' \in [Request -> R] /\ req'[r] = x
    BY <1>3, <2>1
  <2> QED BY <2>2 DEF R
<1>5. \A q \in Request \ {r} : req'[q] = req[q]
  BY <1>1, <1>3
<1> QED BY <1>2, <1>4, <1>5

LEMMA FInvNext == FInv /\ [MNext]_vars => FInv'
<1> SUFFICES ASSUME FInv, [MNext]_vars PROVE FInv'
  OBVIOUS
<1> USE ConstantsAssumption, MinutesAssumption DEF dvars
<1>0. /\ TypeInv /\ TypeOK /\ MTypeOK /\ HeldKind /\ FreshOK /\ OwnJobIsFresh
      /\ TypeInv' /\ [Next]_qvars
      /\ text \in Nat /\ minutes.text \in Nat /\ \A r \in Request : req[r].saw \in Nat
  BY TypeInvNext, MProjects DEF FInv, TypeInv, FreshOK, MTypeOK
<1>1. ASSUME NEW s \in Slot, RunStep(s) PROVE FInv'
  <2>1. /\ MTypeOK' /\ RowsMove /\ RunsEnd(s) /\ MovesAlone(s) /\ HeldKind'
        /\ text' = text /\ req' = req
        /\ \A t \in Slot \ {s} : read'[t] = read[t]
        /\ HasRead(s)' => \/ read'[s] = text
                          \/ HasRead(s) /\ held'[s] = held[s] /\ read'[s] = read[s]
        /\ \/ minutes' = minutes
           \/ HasRead(s) /\ held[s] \in Job /\ minutes' = ByRun(s)
    BY <1>1, RunStepFacts
  <2>2. \A j \in Job : jobs[j].stage # "unborn" => jobs'[j].stage # "unborn"
    BY <2>1 DEF RowsMove, Exists, Stage, Terminal, NoRow
  <2>3. minutes'.by \in Job => jobs'[minutes'.by].stage # "unborn"
    <3>1. CASE minutes' = minutes
      BY <1>0, <2>2, <3>1 DEF FreshOK
    <3>2. CASE HasRead(s) /\ held[s] \in Job /\ minutes' = ByRun(s)
      BY <1>0, <2>2, <3>2 DEF HasRead, HeldKind, Running, ByRun
    <3> QED BY <2>1, <3>1, <3>2
  <2>4. \A r \in Request, t \in Slot :
          req[r].made /\ HasRead(t)' /\ held'[t] = req[r].job => read'[t] >= req[r].saw
    <3> SUFFICES ASSUME NEW r \in Request, NEW t \in Slot,
                        req[r].made, HasRead(t)', held'[t] = req[r].job
                 PROVE  read'[t] >= req[r].saw
      OBVIOUS
    <3>1. CASE t # s
      <4>1. HasRead(t) /\ held[t] = req[r].job /\ read'[t] = read[t]
        BY <2>1, <3>1 DEF MovesAlone, HasRead
      <4> QED BY <1>0, <4>1 DEF FreshOK
    <3>2. CASE t = s
      BY <1>0, <2>1, <3>2 DEF FreshOK
    <3> QED BY <3>1, <3>2
  <2>5. OwnJobIsFresh'
    <3> SUFFICES ASSUME NEW r \in Request, req[r].made, minutes'.by = req[r].job
                 PROVE  minutes'.text >= req[r].saw
      BY <2>1 DEF OwnJobIsFresh
    <3>1. CASE minutes' = minutes
      BY <1>0, <3>1 DEF OwnJobIsFresh
    <3>2. CASE HasRead(s) /\ held[s] \in Job /\ minutes' = ByRun(s)
      BY <1>0, <3>2 DEF FreshOK, ByRun
    <3> QED BY <2>1, <3>1, <3>2
  <2>6. \A r \in Request : req[r].made => req[r].job \in Job /\ jobs'[req[r].job].stage # "unborn"
    BY <1>0, <2>2 DEF FreshOK
  <2>7. \A r \in Request : req[r].saw <= text /\ (req[r].made => req[r].at = "done")
    BY <1>0 DEF FreshOK
  <2> QED BY <1>0, <2>1, <2>3, <2>4, <2>5, <2>6, <2>7 DEF FInv, FreshOK
<1>2. CASE EditTranscript
  <2>1. /\ text' = text + 1
        /\ UNCHANGED <<jobs, pc, held, read, minutes, req, patch>>
    BY <1>2 DEF EditTranscript, qvars
  <2> QED BY <1>0, <2>1 DEF FInv, MTypeOK, HeldKind, FreshOK, OwnJobIsFresh, HasRead
<1>3. ASSUME NEW r \in Request, Ask(r) PROVE FInv'
  <2>1. UNCHANGED <<jobs, pc, held, text, read, minutes, patch>>
    BY <1>3 DEF Ask, qvars
  <2>2. /\ req' \in [Request -> RequestRecord]
        /\ req'[r].saw = text /\ ~req'[r].made
        /\ \A q \in Request \ {r} : req'[q] = req[q]
    BY <1>3, AskFacts
  <2>3. MTypeOK'
    BY <1>0, <2>1, <2>2 DEF MTypeOK, RequestRecord
  <2>4. \A q \in Request : req'[q].saw <= text /\ (req'[q].made => q # r /\ req'[q] = req[q])
    BY <1>0, <2>2 DEF MTypeOK, FreshOK
  <2>5. HeldKind'
    BY <1>0, <2>1 DEF HeldKind
  <2>6. FreshOK'
    BY <1>0, <2>1, <2>4 DEF FreshOK, OwnJobIsFresh, HasRead
  <2> QED BY <1>0, <2>3, <2>5, <2>6 DEF FInv
<1>4. ASSUME NEW r \in Request, Insert(r) PROVE FInv'
  <2>1. PICK j \in Job :
          /\ jobs[j].stage = "unborn" /\ CreateJob(j)
          /\ req' = [req EXCEPT ![r].at = "done", ![r].job = j, ![r].made = TRUE]
    BY <1>4 DEF Insert
  <2>2. /\ UNCHANGED <<pc, held, text, read, minutes, patch>>
        /\ jobs'[j].stage = "queued" /\ \A i \in Job \ {j} : jobs'[i] = jobs[i]
    BY <1>0, <1>4, <2>1 DEF Insert, CreateJob, Stamped, TypeOK
  <2>3. /\ req' \in [Request -> RequestRecord]
        /\ req'[r].saw = req[r].saw /\ req'[r].job = j /\ req'[r].at = "done"
        /\ \A q \in Request \ {r} : req'[q] = req[q]
    BY <1>0, <1>4, <2>1, InsertFacts
  <2>4. MTypeOK'
    BY <1>0, <2>2, <2>3 DEF MTypeOK, RequestRecord
  <2>5. HeldKind'
    BY <1>0, <2>1, <2>2 DEF HeldKind
  <2>6. \A i \in Job : jobs[i].stage # "unborn" => i # j /\ jobs'[i].stage # "unborn"
    BY <2>1, <2>2
  <2>7. \A s \in Slot : HasRead(s) => held[s] # j
    BY <1>0, <2>1 DEF HasRead, HeldKind, Running
  <2>8. minutes.by # j
    BY <1>0, <2>1 DEF FreshOK
  <2>9. FreshOK'
    <3>1. \A q \in Request : q # r => req'[q] = req[q]
      BY <1>0, <2>3 DEF MTypeOK
    <3>2. /\ req'[r].saw = req[r].saw /\ req'[r].job = j /\ req'[r].at = "done"
          /\ jobs'[j].stage # "unborn"
      BY <1>0, <2>2, <2>3 DEF MTypeOK
    <3>3. \A q \in Request : /\ req'[q].saw <= text /\ (req'[q].made => req'[q].at = "done")
                             /\ req'[q].made =>
                                  req'[q].job \in Job /\ jobs'[req'[q].job].stage # "unborn"
      BY <1>0, <2>6, <3>1, <3>2 DEF FreshOK
    <3>4. \A q \in Request, s \in Slot :
            req'[q].made /\ HasRead(s) /\ held[s] = req'[q].job => read[s] >= req'[q].saw
      BY <1>0, <2>7, <3>1, <3>2 DEF FreshOK
    <3>5. \A q \in Request : req'[q].made /\ minutes.by = req'[q].job => minutes.text >= req'[q].saw
      BY <1>0, <2>8, <3>1, <3>2 DEF OwnJobIsFresh
    <3>6. minutes.by \in Job => jobs'[minutes.by].stage # "unborn"
      BY <1>0, <2>6 DEF FreshOK
    <3> QED BY <2>2, <3>3, <3>4, <3>5, <3>6 DEF FreshOK, OwnJobIsFresh, HasRead
  <2> QED BY <1>0, <2>4, <2>5, <2>9 DEF FInv
<1>5. ASSUME NEW p \in Patch, PatchRead(p) \/ PatchRender(p) \/ PatchSave(p) \/ PatchFail(p)
      PROVE  FInv'
  <2>1. /\ UNCHANGED <<jobs, pc, held, text, read, req>>
        /\ minutes' = minutes \/ minutes' = ByEdit(p)
    BY <1>5 DEF PatchRead, PatchRender, PatchSave, PatchFail, qvars
  <2>2. MTypeOK'
    BY <1>0, <1>5 DEF PatchRead, PatchRender, PatchSave, PatchFail, MTypeOK, ByEdit
  <2>3. HeldKind'
    BY <1>0, <2>1 DEF HeldKind
  <2>4. p \notin Job
    OBVIOUS
  <2>5. FreshOK'
    BY <1>0, <2>1, <2>4 DEF FreshOK, OwnJobIsFresh, HasRead, ByEdit
  <2> QED BY <1>0, <2>2, <2>3, <2>5 DEF FInv
<1>6. CASE (Tick /\ UNCHANGED dvars) \/ UNCHANGED vars
  <2>1. UNCHANGED <<jobs, pc, held, text, read, minutes, req, patch>>
    BY <1>6 DEF Tick, vars, qvars
  <2> QED BY <1>0, <2>1 DEF FInv, MTypeOK, HeldKind, FreshOK, OwnJobIsFresh, HasRead
<1> QED BY <1>1, <1>2, <1>3, <1>4, <1>5, <1>6 DEF MNext, RunStep

LEMMA FInvariant == MSpec => []FInv
BY FInvInit, FInvNext, PTL DEF MSpec

\* Minutes of a job made for a request are from a transcript no older than the
\* one the request saw, on any deployment.
THEOREM FreshHolds == MSpec => []OwnJobIsFresh
<1>1. FInv => OwnJobIsFresh
  BY DEF FInv, FreshOK
<1> QED BY <1>1, FInvariant, PTL
-----------------------------------------------------------------------------
(***************************************************************************)
(* On an orderly deployment: as long as no two requests have raced.        *)
(***************************************************************************)

\* The rows in order of insertion: every one but the last is settled, and was
\* written no later than those after it.
RowsOK ==
  /\ \A j \in Job : /\ jobs[j].stage \in {"unborn", "queued", "failed"} \cup StagesOf("summarize")
                     /\ jobs[j].updatedAt <= now
  /\ \A i, j \in Job : i < j /\ Exists(j) =>
       jobs[i].stage \in Terminal /\ jobs[i].updatedAt <= jobs[j].updatedAt

\* A request that is about to insert is alone, and nothing has begun since it
\* looked.
AskOK ==
  /\ \A r \in Request : req[r].at = "insert" =>
       \A j \in Job : Exists(j) => jobs[j].stage \in Terminal
  /\ \A r, q \in Request : req[r].at = "insert" /\ req[q].at = "insert" => r = q

SInv == FInv /\ OrderInv /\ RowsOK /\ AskOK

LEMMA SInvInit == MInit => SInv
<1> SUFFICES ASSUME MInit PROVE SInv
  OBVIOUS
<1> USE ConstantsAssumption, MinutesAssumption
<1>1. FInv /\ OrderInv
  BY FInvInit, OrderInvInit DEF MInit
<1>2. RowsOK
  BY DEF MInit, Init, Blank, RowsOK, Exists, NoRow
<1>3. AskOK
  BY DEF MInit, AskOK
<1> QED BY <1>1, <1>2, <1>3 DEF SInv

\* An unsettled row is the last one, and the latest.
LEMMA UnsettledIsLast ==
  ASSUME SInv, NEW k \in Job, Unsettled(k)
  PROVE  /\ Active(k) /\ Latest(k)
         /\ \A j \in Job : Exists(j) => j <= k
<1> USE MinutesAssumption
<1>1. Exists(k) /\ jobs[k].stage \notin Terminal /\ k \in Nat
  BY DEF Unsettled
<1>2. Active(k)
  BY <1>1 DEF SInv, RowsOK, Exists, NoRow, Terminal, Active, ActiveStages, StagesOf
<1>3. ASSUME NEW j \in Job, Exists(j) PROVE j \in Nat /\ j <= k
  <2>1. j \in Nat /\ (j <= k \/ k < j)
    BY <1>1
  <2>2. ~(k < j)
    BY <1>1, <1>3 DEF SInv, RowsOK
  <2> QED BY <2>1, <2>2
<1>4. ASSUME NEW j \in Job, Exists(j), j # k PROVE jobs[j].updatedAt <= jobs[k].updatedAt
  <2>1. j < k
    BY <1>1, <1>3, <1>4
  <2> QED BY <1>1, <1>4, <2>1 DEF SInv, RowsOK
<1>5. \A j \in Job : jobs[j].updatedAt \in Nat
  BY ConstantsAssumption DEF SInv, FInv, TypeInv, TypeOK, Row, Time
<1>6. ASSUME NEW j \in Job, Exists(j)
      PROVE  \/ jobs[j].updatedAt < jobs[k].updatedAt
             \/ jobs[j].updatedAt = jobs[k].updatedAt /\ j <= k
  <2>1. jobs[j].updatedAt \in Nat /\ jobs[k].updatedAt \in Nat
    BY <1>5
  <2>2. jobs[j].updatedAt <= jobs[k].updatedAt
    <3>1. CASE j = k
      BY <2>1, <3>1
    <3>2. CASE j # k
      BY <1>4, <1>6, <3>2
    <3> QED BY <3>1, <3>2
  <2>3. j <= k
    BY <1>3, <1>6
  <2> QED BY <2>1, <2>2, <2>3
<1>7. Latest(k)
  BY <1>1, <1>6 DEF Latest
<1> QED BY <1>2, <1>3, <1>7

\* What the steps of a process do to the rows.
LEMMA RowsOKNext ==
  ASSUME Orderly, SInv, NEW s \in Slot, RunStep(s)
  PROVE  /\ RowsOK'
         /\ \A j \in Job : Exists(j)' <=> Exists(j)
         /\ \A j \in Job : jobs[j].stage \in Terminal => jobs'[j] = jobs[j]
<1> USE ConstantsAssumption, MinutesAssumption
<1>0. TypeInv /\ OrderInv /\ RowsOK /\ [Next]_qvars /\ RowsMove
  BY MProjects, RunStepFacts DEF SInv, FInv, MNext, RunStep
<1>1. \A j \in Job : Exists(j)' <=> Exists(j)
  BY <1>0 DEF RowsMove, Exists, NoRow, Stage, Terminal
<1>2. \A j \in Job : jobs[j].stage \in Terminal => jobs'[j] = jobs[j]
  <2> SUFFICES ASSUME NEW j \in Job, jobs[j].stage \in Terminal PROVE jobs'[j] = jobs[j]
    OBVIOUS
  <2>1. jobs'[j] = jobs[j] \/ jobs'[j].stage = "deleted"
    BY <1>0, SettledStays
  <2>2. jobs'[j].stage # "deleted"
    BY <1>0 DEF RowsMove, Exists, NoRow, Stage, Terminal
  <2> QED BY <2>1, <2>2
<1>3. \A j \in Job : jobs'[j].updatedAt <= now'
  BY <1>0, NotFuture DEF RowsOK
<1>4. \A j \in Job :
        jobs'[j].stage \in {"unborn", "queued", "failed"} \cup StagesOf("summarize")
  BY <1>0 DEF RowsMove, RowsOK
<1>5. ASSUME NEW i \in Job, NEW j \in Job, i < j, Exists(j)'
      PROVE  jobs'[i].stage \in Terminal /\ jobs'[i].updatedAt <= jobs'[j].updatedAt
  <2>1. /\ jobs[i].stage \in Terminal /\ jobs[i].updatedAt <= jobs[j].updatedAt
        /\ jobs[i].updatedAt <= now
    BY <1>0, <1>1, <1>5 DEF RowsOK
  <2>2. jobs'[i] = jobs[i]
    BY <1>2, <2>1
  <2>3. jobs'[j] = jobs[j] \/ jobs'[j].updatedAt = now
    BY <1>0, <1>5, StampsNow DEF Blank, Exists, NoRow
  <2> QED BY <2>1, <2>2, <2>3
<1>6. \A i, j \in Job : i < j /\ Exists(j)' =>
        jobs'[i].stage \in Terminal /\ jobs'[i].updatedAt <= jobs'[j].updatedAt
  BY <1>5
<1>7. RowsOK'
  BY <1>3, <1>4, <1>6 DEF RowsOK
<1> QED BY <1>1, <1>2, <1>7 DEF Exists

LEMMA SInvNext == ASSUME Orderly, SInv, [MNext]_vars, ~raced' PROVE SInv'
<1> USE ConstantsAssumption, MinutesAssumption DEF dvars
<1>0. /\ FInv /\ TypeInv /\ OrderInv /\ RowsOK /\ AskOK /\ MTypeOK
      /\ FInv' /\ TypeInv' /\ OrderInv'
  BY MProjects, FInvNext, OrderInvNext DEF SInv, FInv
<1>1. ASSUME NEW s \in Slot, RunStep(s) PROVE RowsOK' /\ AskOK'
  <2>1. req' = req
    BY <1>0, <1>1, RunStepFacts
  <2>2. SInv
    OBVIOUS
  <2>3. /\ RowsOK'
        /\ \A j \in Job : Exists(j)' <=> Exists(j)
        /\ \A j \in Job : jobs[j].stage \in Terminal => jobs'[j] = jobs[j]
    BY <1>1, <2>2, RowsOKNext
  <2>4. AskOK'
    <3>1. \A j \in Job : Exists(j)' /\ jobs[j].stage \in Terminal => jobs'[j].stage \in Terminal
      BY <2>3 DEF Exists
    <3>2. \A j \in Job : Exists(j)' => Exists(j)
      BY <2>3 DEF Exists
    <3> QED BY <1>0, <2>1, <3>1, <3>2 DEF AskOK, Exists
  <2> QED BY <2>3, <2>4
<1>2. ASSUME UNCHANGED <<jobs, req>>, now' = now \/ now' = now + 1 PROVE RowsOK' /\ AskOK'
  <2>1. now \in Nat /\ \A j \in Job : jobs[j].updatedAt \in Nat
    BY <1>0 DEF TypeInv, TypeOK, Row, Time
  <2>2. RowsOK'
    BY <1>0, <1>2, <2>1 DEF RowsOK, Exists
  <2>3. AskOK'
    BY <1>0, <1>2 DEF AskOK, Exists
  <2> QED BY <2>2, <2>3
<1>3. ASSUME NEW r \in Request, Ask(r) PROVE RowsOK' /\ AskOK'
  <2>1. UNCHANGED <<jobs, now>>
    BY <1>3 DEF Ask, qvars
  <2>2. /\ \A q \in Request \ {r} : req'[q] = req[q]
        /\ req'[r].at = "insert" => LatestActive = {}
    BY <1>0, <1>3, AskFacts
  <2>3. LatestActive = {} => \A q \in Request : req[q].at # "insert"
    BY <1>3 DEF Ask
  <2>4. LatestActive = {} => \A j \in Job : Exists(j) => jobs[j].stage \in Terminal
    BY UnsettledIsLast DEF LatestActive, Unsettled
  <2>5. AskOK'
    BY <1>0, <2>1, <2>2, <2>3, <2>4 DEF AskOK, Exists
  <2> QED BY <1>0, <2>1, <2>5 DEF RowsOK, Exists
<1>4. ASSUME NEW r \in Request, Insert(r) PROVE RowsOK' /\ AskOK'
  <2>1. PICK j \in Job :
          /\ jobs[j].stage = "unborn" /\ CreateJob(j)
          /\ \A i \in Job : jobs[i].stage = "unborn" => j <= i
          /\ req' = [req EXCEPT ![r].at = "done", ![r].job = j, ![r].made = TRUE]
    BY <1>4 DEF Insert
  <2>2. /\ now' = now /\ jobs'[j].stage = "queued" /\ jobs'[j].updatedAt = now
        /\ \A i \in Job \ {j} : jobs'[i] = jobs[i]
    BY <1>0, <2>1 DEF CreateJob, Stamped, TypeInv, TypeOK
  <2>3. \A q \in Request \ {r} : req'[q] = req[q]
    BY <1>0, <2>1, InsertFacts
  <2>4. req'[r].at = "done"
    BY <1>0, <2>1, InsertFacts
  <2>5. req[r].at = "insert" /\ \A q \in Request : req[q].at = "insert" => q = r
    BY <1>0, <1>4 DEF Insert, AskOK
  <2>6. AskOK'
    BY <2>3, <2>4, <2>5 DEF AskOK
  <2>7. \A i \in Job : Exists(i) => jobs[i].stage \in Terminal
    BY <1>0, <2>5 DEF AskOK
  <2>8. \A i \in Job : i < j => Exists(i)
    BY <1>0, <2>1 DEF RowsOK, StagesOf, Exists, NoRow
  <2>9. \A i \in Job : j < i => ~Exists(i)
    BY <1>0, <2>1 DEF RowsOK, Terminal
  <2>10. \A i \in Job : Exists(i)' <=> i = j \/ Exists(i)
    BY <2>1, <2>2 DEF Exists, NoRow
  <2>11. ASSUME NEW i \in Job, NEW k \in Job, i < k, Exists(k)'
         PROVE  jobs'[i].stage \in Terminal /\ jobs'[i].updatedAt <= jobs'[k].updatedAt
    <3>1. CASE k = j
      BY <1>0, <2>2, <2>7, <2>8, <2>11, <3>1 DEF RowsOK
    <3>2. CASE k # j
      <4>1. Exists(k) /\ i # j
        BY <2>9, <2>10, <2>11, <3>2
      <4> QED BY <1>0, <2>2, <2>11, <3>2, <4>1 DEF RowsOK
    <3> QED BY <3>1, <3>2
  <2>12. \A k \in Job :
           /\ jobs'[k].stage \in {"unborn", "queued", "failed"} \cup StagesOf("summarize")
           /\ jobs'[k].updatedAt <= now'
    <3>1. now \in Nat
      BY <1>0 DEF TypeInv, TypeOK, Time
    <3> QED BY <1>0, <2>2, <3>1 DEF RowsOK
  <2> QED BY <2>6, <2>11, <2>12 DEF RowsOK
<1>5. RowsOK' /\ AskOK'
  <2>1. CASE \/ EditTranscript \/ (\E p \in Patch : PatchRead(p) \/ PatchRender(p) \/ PatchSave(p) \/ PatchFail(p))
             \/ (Tick /\ UNCHANGED dvars) \/ UNCHANGED vars
    <3>1. UNCHANGED <<jobs, req>> /\ (now' = now \/ now' = now + 1)
      BY <2>1 DEF EditTranscript, PatchRead, PatchRender, PatchSave, PatchFail, Tick, vars, qvars
    <3> QED BY <1>2, <3>1
  <2> QED BY <1>1, <1>3, <1>4, <2>1 DEF MNext, RunStep
<1> QED BY <1>0, <1>5 DEF SInv

\* Two requests that have raced have raced for good.
RInv == FInv /\ OrderInv /\ raced \in BOOLEAN /\ (~raced => SInv)

LEMMA RInvInit == MInit => RInv
BY SInvInit DEF RInv, SInv, MInit

LEMMA RInvNext == ASSUME Orderly, RInv, [MNext]_vars PROVE RInv'
<1>1. FInv' /\ OrderInv'
  BY MProjects, FInvNext, OrderInvNext DEF RInv, FInv
<1>2. raced' \in BOOLEAN /\ (raced => raced')
  <2>1. raced' = raced \/ \E r \in Request : Ask(r)
    BY DEF MNext, ReadTranscript, RenderRun, SaveRun, FailRun, OtherWork, EditTranscript, Insert,
           PatchRead, PatchRender, PatchSave, PatchFail, vars, dvars
  <2>2. ASSUME NEW r \in Request, Ask(r) PROVE raced' \in BOOLEAN /\ (raced => raced')
    BY <2>2, Zenon DEF Ask
  <2> QED BY <2>1, <2>2 DEF RInv
<1>3. CASE raced'
  BY <1>1, <1>2, <1>3 DEF RInv
<1>4. CASE ~raced'
  <2>1. SInv
    BY <1>2, <1>4 DEF RInv
  <2>2. SInv'
    BY <1>4, <2>1, SInvNext
  <2> QED BY <1>1, <1>2, <2>2 DEF RInv
<1> QED BY <1>3, <1>4

LEMMA RInvariant == ASSUME Orderly PROVE MSpec => []RInv
<1>1. MInit => RInv
  BY RInvInit
<1>2. RInv /\ [MNext]_vars => RInv'
  BY RInvNext
<1> QED BY <1>1, <1>2, PTL DEF MSpec

\* On an orderly deployment, whatever requests, edits, runs, crashes and retries
\* there are and whenever they come, a meeting has two summarize jobs queued or
\* running only if two requests have both looked before either inserted.
THEOREM RaceHolds == ASSUME Orderly PROVE MSpec => []DoubledOnlyByRace
<1>1. RInv => DoubledOnlyByRace
  <2> SUFFICES ASSUME RInv, ~raced, NEW i \in Job, NEW j \in Job, Unsettled(i), Unsettled(j)
               PROVE  i = j
    BY DEF DoubledOnlyByRace, OneActiveJob, Unsettled
  <2>1. i <= j /\ j <= i
    BY UnsettledIsLast DEF Unsettled, RInv
  <2> QED BY <2>1, MinutesAssumption
<1> QED BY <1>1, RInvariant, PTL
-----------------------------------------------------------------------------
(***************************************************************************)
(* The document and the minutes, on an orderly deployment.                 *)
(***************************************************************************)

\* The document is of a job that will render another or fail: none of its runs
\* has saved it.
Owed == /\ docx.by \in Job /\ Unsettled(docx.by)
        /\ \A s \in Slot : Runs(s, docx.by) => pc[s] # "saved"

\* While nothing went wrong, the document is that of whoever is half way, and
\* apart from the minutes only while somebody is, or while it is owed.
TornOK ==
  ~torn => /\ \A s \in Slot : pc[s] = "stored" => docx = ByRun(s)
           /\ \A p \in Patch : patch[p] = "save" => docx = ByEdit(p)
           /\ docx # minutes => Halfway \/ Owed

Kept == \A j \in Job :
  jobs[j].stage \in {"unborn", "queued", "failed"} \cup StagesOf("summarize")

DInv == FInv /\ OrderInv /\ Kept /\ torn \in BOOLEAN /\ TornOK

LEMMA DInvInit == MInit => DInv
<1> SUFFICES ASSUME MInit PROVE DInv
  OBVIOUS
<1>1. FInv /\ OrderInv
  BY FInvInit, OrderInvInit DEF MInit
<1>2. Kept /\ TornOK /\ torn \in BOOLEAN
  BY DEF MInit, Init, Blank, Kept, TornOK
<1> QED BY <1>1, <1>2 DEF DInv

\* A run stands on an unsettled row, and a job has one run at most.
LEMMA RunStands ==
  ASSUME DInv, NEW s \in Slot, pc[s] \in Running
  PROVE  /\ held[s] \in Job /\ Unsettled(held[s])
         /\ \A t \in Slot : pc[t] \in Running /\ held[t] = held[s] => t = s
<1>1. held[s] \in Job /\ Runs(s, held[s]) /\ Exists(held[s]) /\ OrderInv
  BY DEF DInv, FInv, HeldKind, Runs, Kept, StagesOf, Exists, NoRow
<1>2. Unsettled(held[s])
  BY <1>1, RunnerUnsettled
<1>3. SoleRunner
  BY <1>1 DEF OrderInv
<1> QED BY <1>1, <1>2, <1>3 DEF SoleRunner, Runs

\* A job fails in no other step than FailRun.
LEMMA FailsInFailRun ==
  ASSUME DInv, NEW s \in Slot, RunStep(s), NEW k \in Job, jobs'[k].stage = "failed"
  PROVE  jobs[k].stage = "failed" \/ (FailRun(s) /\ held[s] = k)
<1> USE ConstantsAssumption
<1>0. TypeOK
  BY DEF DInv, FInv, TypeInv
<1>1. CASE RenderRun(s) \/ SaveRun(s)
  BY <1>1 DEF RenderRun, SaveRun, Store, Save
<1>2. CASE FailRun(s)
  BY <1>0, <1>2 DEF FailRun, GiveUp, Update, TypeOK
<1>3. CASE Advance(s)
  BY <1>0, <1>3 DEF Advance, Update, Written, Stamped, Next1, TypeOK
<1>4. CASE Repeat(s)
  BY <1>0, <1>4 DEF Repeat, Update, Written, Stamped, Running, TypeOK
<1>5. CASE Finish(s) \/ Retry(s)
  BY <1>0, <1>5 DEF Finish, Retry, Update, Released, Requeued, Stamped, TypeOK
<1>6. CASE Recovery(s)
  <2>1. \A j \in Job : Requeued(j).stage = "queued"
    BY DEF Requeued, Stamped
  <2>2. CASE SweepStale(s)
    BY <1>0, <2>1, <2>2 DEF SweepStale, TypeOK
  <2>3. ASSUME NEW c \in todo[s], RecoverOne(s, c) PROVE jobs[k].stage = "failed"
    <3>1. c[1] \in Job
      BY <1>0 DEF TypeOK
    <3> QED BY <1>0, <2>1, <2>3, <3>1 DEF RecoverOne, Update, TypeOK
  <2>4. CASE ReadClaims(s) \/ EnterLoop(s)
    BY <2>4 DEF ReadClaims, EnterLoop
  <2> QED BY <1>6, <2>2, <2>3, <2>4 DEF Recovery
<1>7. ASSUME NEW j \in Job, ClaimJob(s, j) PROVE jobs[k].stage = "failed"
  BY <1>0, <1>7 DEF ClaimJob, Update, Stamped, TypeOK
<1>8. CASE Start(s) \/ Poll(s) \/ Signal(s) \/ Exit(s) \/ Crash(s)
  BY <1>8 DEF Start, Poll, Signal, Exit, Crash, qvars
<1> QED BY <1>1, <1>2, <1>3, <1>4, <1>5, <1>6, <1>7, <1>8 DEF RunStep, ReadTranscript, OtherWork

\* The steps of a process that write neither file nor minutes: one that ends them
\* after a rendering, or after a save, was there before.
LEMMA PlainStep ==
  ASSUME DInv, NEW s \in Slot, ReadTranscript(s) \/ FailRun(s) \/ OtherWork(s)
  PROVE  /\ docx' = docx /\ minutes' = minutes
         /\ pc'[s] \in {"stored", "saved"} =>
              pc'[s] = pc[s] /\ held'[s] = held[s] /\ tries'[s] = tries[s] /\ read'[s] = read[s]
<1> USE ConstantsAssumption DEF dvars
<1>0. TypeOK
  BY DEF DInv, FInv, TypeInv
<1>1. docx' = docx /\ minutes' = minutes
  BY DEF ReadTranscript, FailRun, OtherWork
<1>2. CASE Advance(s)
  BY <1>0, <1>1, <1>2 DEF Advance, Next1, TypeOK
<1>3. CASE FailRun(s)
  BY <1>0, <1>1, <1>3 DEF FailRun, GiveUp, TypeOK
<1>4. CASE OtherWork(s) /\ ~Advance(s)
  <2>1. read' = read
    BY <1>4 DEF OtherWork
  <2>2. CASE Finish(s) \/ Retry(s) \/ Exit(s) \/ Crash(s) \/ Start(s)
    BY <1>0, <1>1, <2>2 DEF Finish, Retry, Exit, Crash, Start, TypeOK
  <2>3. CASE Recovery(s) \/ \E j \in Job : ClaimJob(s, j)
    BY <1>0, <1>1, <2>1, <2>3
    DEF Recovery, SweepStale, ReadClaims, EnterLoop, RecoverOne, ClaimJob, TypeOK
  <2>4. CASE Repeat(s) \/ Poll(s) \/ Signal(s)
    BY <1>1, <2>1, <2>4 DEF Repeat, Poll, Signal, qvars
  <2> QED BY <1>4, <2>2, <2>3, <2>4 DEF OtherWork
<1> QED BY <1>2, <1>3, <1>4 DEF ReadTranscript

\* The steps of one process.
LEMMA DRunStep ==
  ASSUME DInv, NEW s \in Slot, RunStep(s)
  PROVE  Kept' /\ torn' \in BOOLEAN /\ TornOK'
<1> USE ConstantsAssumption, MinutesAssumption
<1>0. FInv /\ TypeOK /\ Kept /\ TornOK /\ torn \in BOOLEAN
  BY DEF DInv, FInv, TypeInv
<1>1. /\ patch' = patch /\ RowsMove /\ RunsEnd(s)
      /\ \A t \in Slot \ {s} : pc'[t] = pc[t] /\ held'[t] = held[t] /\ read'[t] = read[t]
  BY <1>0, RunStepFacts DEF MovesAlone
<1>2. \A t \in Slot \ {s} : tries'[t] = tries[t]
  <2>1. CASE ReadTranscript(s) \/ RenderRun(s) \/ SaveRun(s)
    BY <2>1 DEF ReadTranscript, RenderRun, SaveRun, Advance, Store, Save
  <2>2. CASE FailRun(s) \/ OtherWork(s)
    BY <1>0, <2>2
    DEF FailRun, OtherWork, Advance, Repeat, Finish, Retry, GiveUp, Drop, Start, Recovery,
        SweepStale, ReadClaims, EnterLoop, RecoverOne, Poll, ClaimJob, Signal, Exit, Crash,
        qvars, TypeOK
  <2> QED BY <2>1, <2>2 DEF RunStep
<1>3. /\ \A t \in Slot \ {s} : ByRun(t)' = ByRun(t)
      /\ \A p \in Patch : ByEdit(p)' = ByEdit(p)
  BY <1>1, <1>2 DEF ByRun, ByEdit
<1>4. Kept'
  BY <1>0, <1>1, MinutesAssumption DEF Kept, RowsMove
<1>5. CASE RenderRun(s)
  <2>1. /\ torn' = Halfway /\ docx' = ByRun(s) /\ pc' = [pc EXCEPT ![s] = "stored"]
        /\ UNCHANGED <<held, tries, read>>
    BY <1>5 DEF RenderRun, Store
  <2>2. ByRun(s)' = ByRun(s) /\ pc'[s] = "stored"
    BY <1>0, <2>1 DEF ByRun, TypeOK
  <2>3. torn' \in BOOLEAN
    BY <2>1 DEF Halfway
  <2>4. Halfway'
    BY <2>2 DEF Halfway
  <2>5. TornOK'
    BY <1>1, <2>1, <2>2, <2>4 DEF TornOK, Halfway
  <2> QED BY <1>4, <2>3, <2>5
<1>6. CASE SaveRun(s)
  <2>1. /\ pc[s] = "stored" /\ pc' = [pc EXCEPT ![s] = "saved"]
        /\ torn' = torn /\ docx' = docx /\ minutes' = ByRun(s)
    BY <1>6 DEF SaveRun, Save
  <2>2. pc'[s] = "saved"
    BY <1>0, <2>1 DEF TypeOK
  <2>3. TornOK'
    BY <1>0, <1>1, <1>3, <2>1, <2>2 DEF TornOK
  <2> QED BY <1>0, <1>4, <2>1, <2>3
<1>7. CASE ReadTranscript(s) \/ FailRun(s) \/ OtherWork(s)
  <2>1. /\ docx' = docx /\ minutes' = minutes
        /\ pc'[s] \in {"stored", "saved"} =>
             pc'[s] = pc[s] /\ held'[s] = held[s] /\ tries'[s] = tries[s] /\ read'[s] = read[s]
    BY <1>7, PlainStep
  <2>2. /\ torn' \in BOOLEAN /\ (torn => torn')
        /\ FailRun(s) /\ docx.by = held[s] /\ pc[s] # "saved" => torn'
    <3>1. CASE torn' = torn /\ ~FailRun(s)
      BY <1>0, <3>1
    <3>2. CASE FailRun(s)
      BY <3>2, Zenon DEF FailRun
    <3>3. ~FailRun(s) => torn' = torn
      BY <1>7 DEF ReadTranscript, OtherWork, dvars
    <3> QED BY <3>1, <3>2, <3>3
  <2>3. ASSUME NEW k \in Job, Unsettled(k), ~torn', k = docx.by, Runs(s, k) => pc[s] # "saved"
        PROVE  Unsettled(k)'
    <3>1. jobs[k].stage \notin Terminal /\ Exists(k)
      BY <2>3 DEF Unsettled
    <3>2. jobs'[k].stage # "failed"
      <4>1. ~(FailRun(s) /\ held[s] = k)
        BY <2>2, <2>3 DEF FailRun, GiveUp, Runs
      <4> QED BY <3>1, <4>1, FailsInFailRun DEF Terminal
    <3>3. jobs'[k].stage \notin {"awaiting_review", "done"}
      BY <1>1, <2>3, <3>1 DEF RunsEnd, Terminal
    <3>4. jobs'[k].stage \in Stage
      BY <1>1, <3>1 DEF RowsMove
    <3> QED BY <3>2, <3>3, <3>4 DEF Unsettled, Exists, NoRow, Stage, Terminal
  <2>4. ASSUME ~torn', NEW t \in Slot, pc'[t] = "stored" PROVE docx' = ByRun(t)'
    <3>1. pc[t] = "stored" /\ ByRun(t)' = ByRun(t)
      BY <1>1, <1>3, <2>1, <2>4 DEF ByRun
    <3> QED BY <1>0, <2>1, <2>2, <2>4, <3>1 DEF TornOK
  <2>5. ASSUME ~torn', docx' # minutes' PROVE Halfway' \/ Owed'
    <3>1. ~torn /\ docx # minutes /\ (Halfway \/ Owed)
      BY <1>0, <2>1, <2>2, <2>5 DEF TornOK
    <3>2. CASE \/ \E p \in Patch : patch[p] = "save"
               \/ \E t \in Slot \ {s} : pc[t] = "stored"
               \/ pc'[s] = "stored"
      BY <1>1, <3>2 DEF Halfway
    <3>3. CASE pc[s] = "stored" /\ pc'[s] # "stored"
      <4>1. /\ held[s] \in Job /\ Unsettled(held[s])
            /\ \A t \in Slot : pc[t] \in Running /\ held[t] = held[s] => t = s
        BY <3>3, RunStands DEF Running
      <4>2. docx.by = held[s]
        BY <1>0, <3>1, <3>3 DEF TornOK, ByRun
      <4>3. Unsettled(docx.by)'
        BY <2>3, <2>5, <3>3, <4>1, <4>2, <2>1
      <4>4. ASSUME NEW t \in Slot, Runs(t, docx.by)' PROVE pc'[t] # "saved"
        <5>1. CASE t = s
          BY <2>1, <3>3, <5>1
        <5>2. CASE t # s
          BY <1>1, <2>1, <4>1, <4>2, <4>4, <5>2 DEF Runs
        <5> QED BY <5>1, <5>2
      <4> QED BY <2>1, <4>1, <4>2, <4>3, <4>4 DEF Owed
    <3>4. CASE Owed
      <4>1. /\ docx.by \in Job /\ Unsettled(docx.by)
            /\ \A t \in Slot : Runs(t, docx.by) => pc[t] # "saved"
        BY <3>4 DEF Owed
      <4>2. Unsettled(docx.by)'
        BY <2>1, <2>3, <2>5, <4>1
      <4>3. ASSUME NEW t \in Slot, Runs(t, docx.by)' PROVE pc'[t] # "saved"
        <5>1. CASE t = s
          BY <2>1, <4>1, <4>3, <5>1 DEF Runs
        <5>2. CASE t # s
          BY <1>1, <2>1, <4>1, <4>3, <5>2 DEF Runs
        <5> QED BY <5>1, <5>2
      <4> QED BY <2>1, <4>1, <4>2, <4>3 DEF Owed
    <3> QED BY <3>1, <3>2, <3>3, <3>4 DEF Halfway
  <2>6. ASSUME ~torn', NEW p \in Patch, patch'[p] = "save" PROVE docx' = ByEdit(p)'
    BY <1>0, <1>1, <1>3, <2>1, <2>2, <2>6 DEF TornOK
  <2>7. TornOK'
    BY <2>4, <2>5, <2>6 DEF TornOK
  <2> QED BY <1>4, <2>2, <2>7
<1> QED BY <1>5, <1>6, <1>7 DEF RunStep

LEMMA DInvNext == ASSUME Orderly, DInv, [MNext]_vars PROVE DInv'
<1> USE ConstantsAssumption, MinutesAssumption DEF dvars
<1>0. /\ FInv /\ TypeOK /\ MTypeOK /\ Kept /\ TornOK /\ torn \in BOOLEAN
      /\ FInv' /\ OrderInv'
  BY MProjects, FInvNext, OrderInvNext DEF DInv, FInv, TypeInv
<1>1. ASSUME NEW s \in Slot, RunStep(s) PROVE Kept' /\ torn' \in BOOLEAN /\ TornOK'
  BY <1>1, DRunStep
<1>2. ASSUME UNCHANGED <<jobs, pc, held, tries, read, minutes, docx, patch, torn>>
      PROVE  Kept' /\ TornOK'
  <2>1. Owed' = Owed /\ Halfway' = Halfway
    BY <1>2 DEF Owed, Halfway, Runs, Unsettled, Exists
  <2> QED BY <1>0, <1>2, <2>1 DEF Kept, TornOK, ByRun, ByEdit
<1>3. ASSUME NEW r \in Request, Insert(r) PROVE Kept' /\ torn' \in BOOLEAN /\ TornOK'
  <2>1. PICK j \in Job : jobs[j].stage = "unborn" /\ CreateJob(j)
    BY <1>3 DEF Insert
  <2>2. /\ UNCHANGED <<pc, held, tries, read, minutes, docx, patch, torn>>
        /\ jobs'[j].stage = "queued" /\ \A i \in Job \ {j} : jobs'[i] = jobs[i]
    BY <1>0, <1>3, <2>1 DEF Insert, CreateJob, Stamped, TypeOK
  <2>3. Kept'
    BY <1>0, <2>2 DEF Kept
  <2>4. Owed => Owed'
    <3>1. \A i \in Job : Unsettled(i) => jobs'[i] = jobs[i]
      BY <2>1, <2>2 DEF Unsettled, Exists, NoRow
    <3>2. \A i \in Job : Unsettled(i) => Unsettled(i)'
      BY <3>1 DEF Unsettled, Exists
    <3> QED BY <2>2, <3>2 DEF Owed, Runs
  <2>5. TornOK'
    BY <1>0, <2>2, <2>4 DEF TornOK, ByRun, ByEdit, Halfway
  <2> QED BY <1>0, <2>2, <2>3, <2>5
<1>4. ASSUME NEW p \in Patch, PatchRead(p) \/ PatchRender(p) \/ PatchSave(p) \/ PatchFail(p)
      PROVE  Kept' /\ torn' \in BOOLEAN /\ TornOK'
  <2>1. /\ UNCHANGED <<jobs, pc, held, tries, read>>
        /\ \A q \in Patch \ {p} : patch'[q] = patch[q]
    BY <1>0, <1>4 DEF PatchRead, PatchRender, PatchSave, PatchFail, qvars, MTypeOK
  <2>2. /\ Kept' /\ (\A s \in Slot : ByRun(s)' = ByRun(s))
        /\ \A q \in Patch : ByEdit(q)' = ByEdit(q)
    BY <1>0, <2>1 DEF Kept, ByRun, ByEdit
  <2>3. CASE \/ PatchRead(p) \/ (PatchFail(p) /\ patch[p] # "save")
    <3>1. /\ UNCHANGED <<minutes, docx>> /\ patch'[p] # "save"
          /\ torn' = torn /\ patch[p] # "save"
      BY <1>0, <2>3 DEF PatchRead, PatchFail, MTypeOK
    <3>2. (Owed => Owed') /\ (Halfway => Halfway')
      BY <2>1, <3>1 DEF Owed, Halfway, Runs, Unsettled, Exists
    <3> QED BY <1>0, <2>1, <2>2, <3>1, <3>2 DEF TornOK
  <2>4. CASE PatchFail(p) /\ patch[p] = "save"
    BY <2>2, <2>4 DEF PatchFail, TornOK
  <2>5. CASE PatchRender(p)
    <3>1. torn' = Halfway /\ docx' = ByEdit(p) /\ patch'[p] = "save"
      BY <1>0, <2>5 DEF PatchRender, MTypeOK
    <3>2. Halfway' /\ torn' \in BOOLEAN
      BY <3>1 DEF Halfway
    <3> QED BY <2>1, <2>2, <3>1, <3>2 DEF TornOK, Halfway
  <2>6. CASE PatchSave(p)
    <3>1. /\ patch[p] = "save" /\ patch'[p] = "done" /\ torn' = torn
          /\ docx' = docx /\ minutes' = ByEdit(p)
      BY <1>0, <2>6 DEF PatchSave, MTypeOK
    <3> QED BY <1>0, <2>1, <2>2, <3>1 DEF TornOK
  <2> QED BY <1>4, <2>3, <2>4, <2>5, <2>6
<1>5. ASSUME \/ EditTranscript \/ (\E r \in Request : Ask(r))
             \/ (Tick /\ UNCHANGED dvars) \/ UNCHANGED vars
      PROVE  Kept' /\ torn' \in BOOLEAN /\ TornOK'
  <2>1. UNCHANGED <<jobs, pc, held, tries, read, minutes, docx, patch, torn>>
    BY <1>5 DEF EditTranscript, Ask, Tick, vars, qvars
  <2>2. Kept' /\ TornOK'
    BY <1>2, <2>1
  <2>3. torn' \in BOOLEAN
    BY <1>0, <2>1
  <2> QED BY <2>2, <2>3
<1>6. Kept' /\ torn' \in BOOLEAN /\ TornOK'
  BY <1>1, <1>3, <1>4, <1>5 DEF MNext, RunStep
<1> QED BY <1>0, <1>6 DEF DInv

LEMMA DInvariant == ASSUME Orderly PROVE MSpec => []DInv
<1>1. MInit => DInv
  BY DInvInit
<1>2. DInv /\ [MNext]_vars => DInv'
  BY DInvNext
<1> QED BY <1>1, <1>2, PTL DEF MSpec

\* On an orderly deployment, whatever requests, edits, runs, crashes and retries
\* there are: once nobody writes, the document is that of the minutes, unless it
\* was rendered while another's minutes were not saved yet, or by a PATCH or a
\* job that then failed.
THEOREM DocumentHolds == ASSUME Orderly PROVE MSpec => []DiffersOnlyIfTorn
<1>1. DInv => DiffersOnlyIfTorn
  <2> SUFFICES ASSUME DInv, Quiet, docx # minutes, ~torn PROVE FALSE
    BY DEF DiffersOnlyIfTorn
  <2>1. \A j \in Job : Unsettled(j) => Active(j)
    BY DEF DInv, Kept, StagesOf, Unsettled, Exists, NoRow, Terminal, Active, ActiveStages
  <2>2. ~Owed
    BY <2>1 DEF Owed, Quiet, AnyActive
  <2>3. ASSUME NEW s \in Slot, pc[s] = "stored" PROVE FALSE
    BY <2>1, <2>3, RunStands DEF Running, Quiet, AnyActive
  <2> QED BY <2>2, <2>3 DEF DInv, TornOK, Halfway, Quiet
<1> QED BY <1>1, DInvariant, PTL
=============================================================================
