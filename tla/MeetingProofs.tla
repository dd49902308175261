---------------------------- MODULE MeetingProofs ----------------------------
(***************************************************************************)
(* Proofs about a meeting's files, its result rows and the list that shows *)
(* them, for every number of slots, hosts, attempts, faults and ticks.     *)
(***************************************************************************)
EXTENDS MeetingList, JobQueueProofs

-----------------------------------------------------------------------------
\* The rows against the two requests: nothing before the upload's commit,
\* nothing after the DELETE, and no process at work then that was not before.
RowsOK ==
  /\ delete = "new" => jobs[1].stage # "deleted" /\ jobs[2].stage # "deleted"
  /\ delete # "new" => jobs[1].stage = "deleted" /\ ~Exists(2)
  /\ upload # "done" => jobs[1].stage = "unborn"
  /\ jobs[1].stage = "unborn" => jobs[2].stage = "unborn"
  /\ jobs[1].stage # "done" /\ jobs[2].stage # "awaiting_review"
  /\ delete # "new" /\ ~inUse => ~Busy

\* The files against the two requests.
FilesOK ==
  /\ upload \in {"new", "refused"} => files = {}
  /\ upload = "streamed" => "upload" \in files
  /\ jobs[1].stage = "unborn" => files \subseteq {"upload"}
  /\ Exists(1) => "upload" \in files
  /\ delete = "done" /\ ~inUse => files = {}

\* What a run has written by the stage it is in.
WorkOK ==
  \A s \in Slot :
    /\ held[s] = 1 /\ Exists(1) =>
         /\ pc[s] \in {"diarizing", "transcribing", "stored", "saved"} => "wav" \in files
         /\ pc[s] \in {"stored", "saved"} => "transcript" \in results
    /\ held[s] = 2 /\ Exists(2) =>
         /\ pc[s] \in {"stored", "saved"} => "docx" \in files
         /\ pc[s] = "saved" => "summary" \in results

\* What is there by the stage a row shows.
ResultsOK ==
  /\ jobs[1].stage = "awaiting_review" => "wav" \in files /\ "transcript" \in results
  /\ Exists(2) => "transcript" \in results
  /\ jobs[2].stage = "done" => "docx" \in files /\ "summary" \in results

MInv == TypeInv /\ FTypeOK /\ HeldKind /\ RowsOK /\ FilesOK /\ WorkOK /\ ResultsOK

\* Of the two jobs, the kind tells which one a process holds.
LEMMA HeldNumber ==
  ASSUME HeldKind
  PROVE  \A s \in Slot :
           /\ pc[s] \in Running => held[s] \in {1, 2}
           /\ pc[s] \in {"normalizing", "diarizing", "transcribing"} => held[s] = 1
           /\ pc[s] \in {"summarizing", "rendering"} => held[s] = 2
BY FilesAssumption DEF HeldKind, Running

LEMMA MInvInit == FInit => MInv
<1> SUFFICES ASSUME FInit PROVE MInv
  OBVIOUS
<1> USE FilesAssumption
<1>0. TypeInv
  BY TypeInvInit DEF FInit
<1>1. /\ \A j \in Job : jobs[j].stage = "unborn" /\ ~Exists(j)
      /\ \A s \in Slot : pc[s] = "down"
  BY DEF FInit, Init, Blank, Exists, NoRow
<1>2. FTypeOK
  BY DEF FInit, FTypeOK
<1>3. HeldKind /\ WorkOK
  BY <1>1 DEF HeldKind, WorkOK, Running
<1>4. RowsOK /\ FilesOK /\ ResultsOK
  BY <1>1 DEF FInit, RowsOK, FilesOK, ResultsOK
<1> QED BY <1>0, <1>2, <1>3, <1>4 DEF MInv

\* The actions of one process on the meeting.
MeetingWork(s) ==
  \/ FindUpload(s) \/ Convert(s) \/ Normalize(s)
  \/ StoreResult(s) \/ SaveResult(s) \/ LeaveStage(s) \/ OtherWork(s)

\* What such an action does to the files and to the results: it writes only in
\* the middle of a run, takes nothing but a temporary file away, and enters a
\* stage with what the stage before it had to leave.
LEMMA FilesStep ==
  ASSUME MInv, NEW s \in Slot, MeetingWork(s)
  PROVE  /\ Worker(s) \/ UNCHANGED qvars
         /\ upload' = upload /\ delete' = delete /\ inUse' = inUse
         /\ files' # files => pc[s] \in Running
         /\ files' \subseteq File /\ results \subseteq results'
         /\ results' \subseteq {"transcript", "summary"}
         /\ \A f \in {"upload", "wav", "docx"} : f \in files => f \in files'
         /\ pc'[s] = "diarizing" /\ pc[s] # "diarizing" => "wav" \in files'
         /\ pc'[s] = "stored" /\ pc[s] # "stored" =>
              IF held[s] = 2 THEN "docx" \in files' ELSE "transcript" \in results'
         /\ pc'[s] = "saved" /\ pc[s] # "saved" /\ held[s] = 2 => "summary" \in results'
<1> USE FilesAssumption, ConstantsAssumption DEF dvars
<1>0. TypeOK /\ FTypeOK /\ HeldKind /\ pc[s] \in Control
  BY DEF MInv, TypeInv, TypeOK
<1>1. CASE FindUpload(s)
  <2>1. pc' = [pc EXCEPT ![s] = "normalizing"]
    BY <1>1 DEF FindUpload, Advance, Next1
  <2>2. Worker(s)
    BY <1>1 DEF FindUpload, Worker, Work
  <2> QED BY <1>0, <1>1, <2>1, <2>2 DEF FindUpload, FTypeOK, TypeOK
<1>2. CASE Convert(s)
  BY <1>0, <1>2 DEF Convert, FTypeOK, File, Running, qvars
<1>3. CASE Normalize(s)
  <2>1. held[s] = 1
    BY <1>0, <1>3, HeldNumber DEF Normalize
  <2>2. pc' = [pc EXCEPT ![s] = "diarizing"]
    BY <1>3, <2>1 DEF Normalize, Advance, Next1
  <2>3. Worker(s) /\ pc[s] \in Running
    BY <1>3 DEF Normalize, Worker, Work, Running
  <2> QED BY <1>0, <1>3, <2>2, <2>3 DEF Normalize, Replaced, FTypeOK, File, TypeOK
<1>4. CASE StoreResult(s)
  <2>1. /\ pc' = [pc EXCEPT ![s] = "stored"] /\ pc[s] \in Running
        /\ Worker(s)
    BY <1>4 DEF StoreResult, Store, Running, Worker, Work
  <2>2. KindOf[held[s]] = "summarize" <=> held[s] = 2
    BY <1>0, <2>1, HeldNumber
  <2> QED BY <1>0, <1>4, <2>1, <2>2 DEF StoreResult, FTypeOK, File, TypeOK
<1>5. CASE SaveResult(s)
  <2>1. /\ pc' = [pc EXCEPT ![s] = "saved"] /\ pc[s] \in Running
        /\ Worker(s)
    BY <1>5 DEF SaveResult, Save, Running, Worker, Work
  <2>2. KindOf[held[s]] = "summarize" <=> held[s] = 2
    BY <1>0, <2>1, HeldNumber
  <2> QED BY <1>0, <1>5, <2>1, <2>2 DEF SaveResult, FTypeOK, TypeOK
<1>6. CASE LeaveStage(s)
  <2>1. Worker(s)
    BY <1>6 DEF LeaveStage, Worker, Work
  <2>2. pc'[s] \in {"idle", "down"}
    BY <1>0, <1>6 DEF LeaveStage, Retry, GiveUp, Crash, TypeOK
  <2>3. files' \in Leftovers(s)
    BY <1>6 DEF LeaveStage
  <2>4. /\ files' # files => pc[s] \in Running
        /\ files' \subseteq File
        /\ \A f \in {"upload", "wav", "docx"} : f \in files => f \in files'
    <3>1. CASE pc[s] = "normalizing"
      <4>1. files' \in {files, files \ {"part"}, Replaced(files)}
        BY <2>3, <3>1 DEF Leftovers
      <4> QED BY <1>0, <3>1, <4>1 DEF Replaced, FTypeOK, File, Running
    <3>2. CASE pc[s] = "rendering"
      <4>1. files' \in {files, files \cup {"docx"}}
        BY <2>3, <3>2 DEF Leftovers
      <4> QED BY <1>0, <3>2, <4>1 DEF FTypeOK, File, Running
    <3>3. CASE pc[s] \notin {"normalizing", "rendering"}
      <4>1. files' = files
        BY <2>3, <3>3 DEF Leftovers
      <4> QED BY <1>0, <4>1 DEF FTypeOK
    <3> QED BY <3>1, <3>2, <3>3
  <2> QED BY <1>0, <1>6, <2>1, <2>2, <2>4 DEF LeaveStage, FTypeOK
<1>7. CASE OtherWork(s)
  <2>1. Worker(s) /\ UNCHANGED dvars
    BY <1>7 DEF OtherWork, Worker, Work
  <2>2. pc'[s] = pc[s] \/ pc'[s] \notin {"diarizing", "stored", "saved"}
    <3>1. CASE /\ Advance(s)
               /\ pc[s] \in {"claimed", "normalizing"} => KindOf[held[s]] = "summarize"
      <4>1. pc[s] = "normalizing" => held[s] = 1
        BY <1>0, HeldNumber
      <4> QED BY <1>0, <3>1, <4>1 DEF Advance, Next1, TypeOK
    <3>2. CASE \/ Repeat(s) \/ Finish(s) \/ Start(s) \/ Recovery(s) \/ Poll(s)
               \/ (\E j \in Job : ClaimJob(s, j))
               \/ Signal(s) \/ Exit(s)
      BY <1>0, <3>2
      DEF Repeat, Finish, Start, Recovery, Poll, SweepStale, ReadClaims,
          EnterLoop, RecoverOne, ClaimJob, Signal, Exit, TypeOK, qvars
    <3> QED BY <1>7, <3>1, <3>2 DEF OtherWork
  <2> QED BY <1>0, <2>1, <2>2 DEF FTypeOK
<1> QED BY <1>1, <1>2, <1>3, <1>4, <1>5, <1>6, <1>7 DEF MeetingWork

LEMMA MInvWork ==
  ASSUME MInv, NEW s \in Slot, MeetingWork(s), TypeInv' PROVE MInv'
<1> USE FilesAssumption
<1>0. /\ TypeOK /\ FTypeOK /\ HeldKind /\ RowsOK /\ FilesOK /\ WorkOK /\ ResultsOK
      /\ \A t \in Slot : pc[t] \in Control
  BY DEF MInv, TypeInv, TypeOK
<1>1. RowsMove /\ RunsEnd(s) /\ MovesAlone(s) /\ HeldKind'
  <2>1. CASE Worker(s)
    BY <1>0, <2>1, WorkerStep DEF MInv, Moved
  <2>2. CASE UNCHANGED qvars
    <3>1. HeldKind'
      BY <1>0, <2>2 DEF qvars, HeldKind
    <3> QED BY <2>2, <3>1, StillStep DEF MInv, Moved
  <2> QED BY <2>1, <2>2, FilesStep
<1>2. /\ upload' = upload /\ delete' = delete /\ inUse' = inUse
      /\ files' # files => pc[s] \in Running
      /\ files' \subseteq File /\ results \subseteq results'
      /\ results' \subseteq {"transcript", "summary"}
      /\ \A f \in {"upload", "wav", "docx"} : f \in files => f \in files'
  BY FilesStep
<1>3. /\ pc'[s] = "diarizing" /\ pc[s] # "diarizing" => "wav" \in files'
      /\ pc'[s] = "stored" /\ pc[s] # "stored" =>
           IF held[s] = 2 THEN "docx" \in files' ELSE "transcript" \in results'
      /\ pc'[s] = "saved" /\ pc[s] # "saved" /\ held[s] = 2 => "summary" \in results'
  BY FilesStep
<1>4. \A j \in Job : /\ Exists(j)' <=> Exists(j)
                     /\ jobs'[j].stage = "unborn" <=> jobs[j].stage = "unborn"
                     /\ jobs'[j].stage = "deleted" <=> jobs[j].stage = "deleted"
  BY <1>1 DEF RowsMove, Exists, Stage, Terminal, NoRow
<1>5. pc[s] \in Running => jobs[1].stage # "unborn"
  BY <1>0, HeldNumber DEF HeldKind, RowsOK
<1>6. FTypeOK'
  BY <1>0, <1>2 DEF FTypeOK
<1>7. RowsOK'
  <2>1. delete # "new" /\ ~inUse => ~Busy'
    <3> SUFFICES ASSUME delete # "new", ~inUse, NEW t \in Slot, pc'[t] \in Running
                 PROVE  FALSE
      BY DEF Busy
    <3>1. pc[s] \notin Running /\ pc[t] \notin Running
      BY <1>0 DEF RowsOK, Busy
    <3>2. t = s
      BY <1>1, <3>1 DEF MovesAlone
    <3>3. pc'[s] = "claimed"
      BY <1>1, <3>1, <3>2 DEF MovesAlone, Before, Running
    <3>4. ~Exists(1) /\ ~Exists(2)
      BY <1>0 DEF RowsOK, Exists, NoRow
    <3> QED BY <1>1, <3>1, <3>3, <3>4 DEF MovesAlone, Running
  <2>2. jobs'[1].stage # "done" /\ jobs'[2].stage # "awaiting_review"
    BY <1>0, <1>1 DEF RunsEnd, RowsOK
  <2> QED BY <1>0, <1>2, <1>4, <2>1, <2>2 DEF RowsOK
<1>8. FilesOK'
  <2>1. delete = "done" /\ ~inUse => files' = files
    BY <1>0, <1>2 DEF RowsOK, Busy
  <2>2. jobs[1].stage = "unborn" => files' = files
    BY <1>2, <1>5
  <2>3. upload \in {"new", "refused", "streamed"} => files' = files
    BY <1>0, <2>2 DEF RowsOK
  <2> QED BY <1>0, <1>2, <1>4, <2>1, <2>2, <2>3 DEF FilesOK
<1>9. WorkOK'
  <2> SUFFICES ASSUME NEW t \in Slot
               PROVE  /\ held'[t] = 1 /\ Exists(1) =>
                           /\ pc'[t] \in {"diarizing", "transcribing", "stored", "saved"}
                                => "wav" \in files'
                           /\ pc'[t] \in {"stored", "saved"} => "transcript" \in results'
                      /\ held'[t] = 2 /\ Exists(2) =>
                           /\ pc'[t] \in {"stored", "saved"} => "docx" \in files'
                           /\ pc'[t] = "saved" => "summary" \in results'
    BY <1>4 DEF WorkOK
  <2>1. CASE t # s
    <3>1. pc'[t] = pc[t] /\ held'[t] = held[t]
      BY <1>1, <2>1 DEF MovesAlone
    <3> QED BY <1>0, <1>2, <3>1 DEF WorkOK
  <2>2. CASE t = s
    <3>1. CASE pc'[s] = "diarizing"
      <4>1. held'[s] = held[s] /\ pc[s] \in {"normalizing", "diarizing"}
        BY <1>1, <3>1 DEF MovesAlone, Before, Running
      <4> QED BY <1>0, <1>2, <1>3, <2>2, <3>1, <4>1 DEF WorkOK
    <3>2. CASE pc'[s] = "transcribing"
      <4>1. held'[s] = held[s] /\ pc[s] \in {"diarizing", "transcribing"}
        BY <1>1, <3>2 DEF MovesAlone, Before, Running
      <4> QED BY <1>0, <1>2, <2>2, <3>2, <4>1 DEF WorkOK
    <3>3. CASE pc'[s] = "stored"
      <4>1. held'[s] = held[s] /\ pc[s] \in {"transcribing", "rendering", "stored"}
        BY <1>1, <3>3 DEF MovesAlone, Before, Running
      <4>2. pc[s] = "rendering" => held[s] = 2
        BY <1>0, HeldNumber
      <4> QED BY <1>0, <1>2, <1>3, <2>2, <3>3, <4>1, <4>2 DEF WorkOK
    <3>4. CASE pc'[s] = "saved"
      <4>1. held'[s] = held[s] /\ pc[s] \in {"stored", "saved"}
        BY <1>1, <3>4 DEF MovesAlone, Before, Running
      <4> QED BY <1>0, <1>2, <1>3, <2>2, <3>4, <4>1 DEF WorkOK
    <3> QED BY <2>2, <3>1, <3>2, <3>3, <3>4
  <2> QED BY <2>1, <2>2
<1>10. ResultsOK'
  <2>1. jobs'[1].stage = "awaiting_review" => "wav" \in files' /\ "transcript" \in results'
    <3> SUFFICES ASSUME jobs'[1].stage = "awaiting_review"
                 PROVE  "wav" \in files' /\ "transcript" \in results'
      OBVIOUS
    <3>1. jobs[1].stage = "awaiting_review" \/ (Runs(s, 1) /\ pc[s] = "saved")
      BY <1>1 DEF RunsEnd
    <3>2. Exists(1)
      BY <1>4 DEF Exists, NoRow
    <3> QED BY <1>0, <1>2, <3>1, <3>2 DEF WorkOK, ResultsOK, Runs
  <2>2. jobs'[2].stage = "done" => "docx" \in files' /\ "summary" \in results'
    <3> SUFFICES ASSUME jobs'[2].stage = "done"
                 PROVE  "docx" \in files' /\ "summary" \in results'
      OBVIOUS
    <3>1. jobs[2].stage = "done" \/ (Runs(s, 2) /\ pc[s] = "saved")
      BY <1>1 DEF RunsEnd
    <3>2. Exists(2)
      BY <1>4 DEF Exists, NoRow
    <3> QED BY <1>0, <1>2, <3>1, <3>2 DEF WorkOK, ResultsOK, Runs
  <2> QED BY <1>0, <1>2, <1>4, <2>1, <2>2 DEF ResultsOK
<1> QED BY <1>1, <1>6, <1>7, <1>8, <1>9, <1>10 DEF MInv

\* The DELETE takes all rows of the meeting at once.
LEMMA DeleteRowsType == TypeInv /\ DeleteRows => TypeInv'
<1> SUFFICES ASSUME TypeInv, DeleteRows PROVE TypeInv'
  OBVIOUS
<1> USE ConstantsAssumption, SlotCount
<1>1. TypeOK /\ HoldsJob
  BY DEF TypeInv
<1>2. Blank("deleted") \in Row
  BY DEF Blank, Row, NoRow, Time
<1> QED BY <1>1, <1>2 DEF DeleteRows, TypeInv, TypeOK, HoldsJob

\* A new row, for the upload or for the minutes.
LEMMA MInvCreate ==
  ASSUME MInv, NEW j \in Job, CreateJob(j), TypeInv',
         UNCHANGED <<files, results, delete, inUse>>,
         \/ (j = 1 /\ upload = "streamed" /\ upload' = "done")
         \/ (j = 2 /\ upload' = upload /\ Exists(1) /\ "transcript" \in results)
  PROVE  MInv'
<1> USE FilesAssumption
<1>0. /\ TypeOK /\ FTypeOK /\ HeldKind /\ RowsOK /\ FilesOK /\ WorkOK /\ ResultsOK
  BY DEF MInv, TypeInv
<1>1. /\ jobs[j].stage = "unborn" /\ jobs'[j].stage = "queued"
      /\ \A i \in Job \ {j} : jobs'[i] = jobs[i]
      /\ pc' = pc /\ held' = held
  BY <1>0 DEF CreateJob, Stamped, TypeOK
<1>2. \A s \in Slot : pc[s] \in Running => held[s] # j
  BY <1>0, <1>1 DEF HeldKind
<1>3. HeldKind'
  BY <1>0, <1>1 DEF HeldKind
<1>4. FTypeOK'
  BY <1>0 DEF FTypeOK
<1>5. RowsOK'
  BY <1>0, <1>1 DEF RowsOK, Busy, Exists, NoRow
<1>6. FilesOK'
  BY <1>0, <1>1 DEF FilesOK, RowsOK, Exists, NoRow
<1>7. WorkOK'
  <2>1. \A s \in Slot : pc[s] \in {"diarizing", "transcribing", "stored", "saved"}
                          => held[s] # j
    BY <1>2 DEF Running
  <2> QED BY <1>0, <1>1, <2>1 DEF WorkOK, Exists
<1>8. ResultsOK'
  BY <1>0, <1>1 DEF ResultsOK, Exists, NoRow
<1> QED BY <1>3, <1>4, <1>5, <1>6, <1>7, <1>8 DEF MInv

LEMMA MInvNext == MInv /\ [FNext]_vars => MInv'
<1> SUFFICES ASSUME MInv, [FNext]_vars PROVE MInv'
  OBVIOUS
<1> USE FilesAssumption DEF dvars
<1>0. /\ TypeInv /\ TypeOK /\ FTypeOK /\ HeldKind
      /\ RowsOK /\ FilesOK /\ WorkOK /\ ResultsOK
  BY DEF MInv, TypeInv
<1>a. ASSUME UNCHANGED qvars PROVE TypeInv' /\ UNCHANGED <<jobs, pc, held>>
  BY <1>0, <1>a, TypeInvNext DEF qvars
<1>1. CASE StreamUpload \/ RefuseUpload \/ LoseUpload
  <2>1. jobs[1].stage = "unborn" /\ delete = delete' /\ ~Exists(1)
    BY <1>0, <1>1 DEF StreamUpload, RefuseUpload, LoseUpload, RowsOK, Exists, NoRow
  <2>2. delete = "done" => FALSE
    BY <1>0, <2>1 DEF RowsOK, FTypeOK
  <2>3. jobs' = jobs
    BY <1>1 DEF StreamUpload, RefuseUpload, LoseUpload, qvars
  <2>4. FilesOK'
    BY <1>0, <1>1, <2>1, <2>2, <2>3
    DEF StreamUpload, RefuseUpload, LoseUpload, FilesOK, Exists
  <2>5. FTypeOK'
    BY <1>0, <1>1 DEF StreamUpload, RefuseUpload, LoseUpload, FTypeOK, File
  <2>6. HeldKind' /\ RowsOK' /\ WorkOK' /\ ResultsOK'
    <3>1. UNCHANGED <<jobs, pc, held>> /\ ~Exists(2)
      BY <1>0, <1>1, <1>a, <2>1
      DEF StreamUpload, RefuseUpload, LoseUpload, RowsOK, Exists, NoRow
    <3> QED BY <1>0, <1>1, <2>1, <3>1
        DEF StreamUpload, RefuseUpload, LoseUpload, HeldKind, RowsOK, WorkOK, ResultsOK,
            Exists, NoRow, Busy
  <2>7. TypeInv'
    BY <1>1, <1>a DEF StreamUpload, RefuseUpload, LoseUpload
  <2> QED BY <2>4, <2>5, <2>6, <2>7 DEF MInv
<1>2. CASE CommitUpload
  <2>1. CreateJob(1) /\ TypeInv'
    BY <1>0, <1>2, TypeInvNext DEF CommitUpload, Next, Client
  <2> QED BY <1>2, <2>1, MInvCreate DEF CommitUpload
<1>3. CASE StartSummarize
  <2>1. CreateJob(2) /\ TypeInv'
    BY <1>0, <1>3, TypeInvNext DEF StartSummarize, Next, Client
  <2> QED BY <1>3, <2>1, MInvCreate DEF StartSummarize, MeetingExists
<1>4. CASE DeleteRows
  <2>1. TypeInv'
    BY <1>0, <1>4, DeleteRowsType
  <2>2. /\ \A j \in Job : /\ ~Exists(j)'
                          /\ jobs'[j].stage = "unborn" <=> jobs[j].stage = "unborn"
                          /\ jobs'[j].stage \in NoRow
        /\ jobs'[1].stage = "deleted"
    BY <1>4 DEF DeleteRows, Blank, Exists, NoRow, MeetingExists
  <2>3. pc' = pc /\ held' = held /\ files' = files /\ upload' = upload
    BY <1>4 DEF DeleteRows
  <2>4. FTypeOK'
    BY <1>0, <1>4 DEF DeleteRows, FTypeOK, Busy
  <2>5. HeldKind' /\ WorkOK'
    BY <1>0, <2>2, <2>3 DEF HeldKind, WorkOK
  <2>6. upload = "done"
    BY <1>0, <1>4 DEF DeleteRows, MeetingExists, Exists, NoRow, RowsOK
  <2>7. RowsOK'
    BY <1>4, <2>2, <2>3, <2>6 DEF DeleteRows, RowsOK, Busy, NoRow
  <2>8. FilesOK' /\ ResultsOK'
    BY <1>0, <1>4, <2>2, <2>3, <2>6 DEF DeleteRows, FilesOK, ResultsOK, NoRow
  <2> QED BY <2>1, <2>4, <2>5, <2>7, <2>8 DEF MInv
<1>5. CASE Purge
  <2>1. jobs' = jobs /\ ~Exists(1) /\ jobs[1].stage # "unborn" /\ upload = "done"
    BY <1>0, <1>5 DEF Purge, qvars, RowsOK, Exists, NoRow
  <2>2. FilesOK'
    BY <1>5, <2>1 DEF Purge, FilesOK, Exists
  <2>3. ~Exists(2)
    BY <1>0, <1>5 DEF Purge, RowsOK
  <2>4. HeldKind' /\ RowsOK' /\ WorkOK' /\ ResultsOK' /\ FTypeOK'
    BY <1>0, <1>5, <2>1, <2>3
    DEF Purge, qvars, HeldKind, RowsOK, WorkOK, ResultsOK, FTypeOK, Exists, NoRow, Busy
  <2> QED BY <1>5, <1>a, <2>2, <2>4 DEF Purge, MInv
<1>6. ASSUME NEW s \in Slot, MeetingWork(s) PROVE MInv'
  <2>1. [Next]_qvars
    BY <1>6, FilesStep DEF Next
  <2> QED BY <1>0, <1>6, <2>1, TypeInvNext, MInvWork
<1>7. CASE (Tick /\ UNCHANGED dvars) \/ UNCHANGED vars
  <2>1. TypeInv' /\ UNCHANGED <<jobs, pc, held>> /\ UNCHANGED dvars
    BY <1>0, <1>7, TypeInvNext DEF Next, Tick, vars, qvars
  <2>2. FTypeOK' /\ FilesOK'
    BY <1>0, <2>1 DEF FTypeOK, FilesOK, Exists
  <2>3. HeldKind' /\ RowsOK' /\ WorkOK' /\ ResultsOK'
    BY <1>0, <2>1 DEF HeldKind, RowsOK, WorkOK, ResultsOK, Exists, Busy
  <2> QED BY <2>1, <2>2, <2>3 DEF MInv
<1> QED
  BY <1>1, <1>2, <1>3, <1>4, <1>5, <1>6, <1>7 DEF FNext, MeetingWork
-----------------------------------------------------------------------------
LEMMA MInvariant == LSpec => []MInv
<1>1. LInit => MInv
  BY MInvInit DEF LInit
<1>2. MInv /\ [LNext]_lvars => MInv'
  <2> SUFFICES ASSUME MInv, [LNext]_lvars PROVE [FNext]_vars
    BY MInvNext
  <2> QED BY DEF LNext, List, ListMeetings, ListJobs, ListTranscripts, ListSummaries,
                 AskAgain, Step, lvars
<1> QED BY <1>1, <1>2, PTL DEF LSpec

\* However the upload, the DELETE, the worker's runs and its crashes
\* interleave: a meeting in the list has its recording.
THEOREM AudioHolds == LSpec => []AudioStays
<1>1. MInv => AudioStays
  BY DEF MInv, FilesOK, AudioStays, MeetingExists
<1> QED BY <1>1, MInvariant, PTL

\* A transcript ready for review has its WAV and finished minutes their
\* document, whoever else was running the job.
THEOREM ResultsHold == LSpec => []ResultsOnDisk
<1>1. MInv => ResultsOnDisk
  BY DEF MInv, ResultsOK, ResultsOnDisk
<1> QED BY <1>1, MInvariant, PTL

\* A refused upload, and a meeting deleted while no worker ran it, leave no
\* file behind.
THEOREM OrphansHold == LSpec => []NoOrphanFiles
<1>1. MInv => NoOrphanFiles
  BY DEF MInv, FilesOK, NoOrphanFiles
<1> QED BY <1>1, MInvariant, PTL
-----------------------------------------------------------------------------
\* The list finds a latest job of a meeting that is there.
LEMMA LatestExists ==
  ASSUME TypeOK, Exists(1)
  PROVE  /\ LatestListed \in Job /\ Exists(LatestListed)
         /\ LatestListed \in LastWritten
         /\ \A i \in LastWritten : i <= LatestListed
<1> USE FilesAssumption
<1>1. jobs[1].updatedAt \in Nat /\ jobs[2].updatedAt \in Nat
  BY DEF TypeOK, Row, Time
<1>2. LastWritten \subseteq Job /\ \A i \in LastWritten : Exists(i)
  BY DEF LastWritten
<1>3. \E j \in LastWritten : \A i \in LastWritten : i <= j
  <2>1. CASE 2 \in LastWritten
    BY <1>2, <2>1
  <2>2. CASE 2 \notin LastWritten
    <3>1. 1 \in LastWritten
      BY <1>1, <2>2 DEF LastWritten
    <3> QED BY <1>2, <2>2, <3>1
  <2> QED BY <2>1, <2>2
<1> QED BY <1>2, <1>3 DEF LatestListed

\* What the request has read so far, of a meeting that is still there: the
\* later SELECTs find what the stage it read stands for.
ReadingOK ==
  /\ reading \in [at : {"meetings", "jobs", "transcripts", "summaries", "shown"},
                  listed : BOOLEAN, stage : Stage \cup NoRow \cup {None},
                  results : SUBSET {"transcript", "summary"}]
  /\ reading.listed => jobs[1].stage # "unborn"
  /\ reading.listed /\ Exists(1) =>
       /\ reading.at \in {"transcripts", "summaries", "shown"} =>
            /\ reading.stage \in {"awaiting_review", "done"} => "transcript" \in results
            /\ reading.stage = "done" => "summary" \in results
       /\ reading.at \in {"summaries", "shown"} /\ reading.stage \in {"awaiting_review", "done"}
            => "transcript" \in reading.results
       /\ reading.at = "shown" /\ reading.stage = "done" => "summary" \in reading.results

\* A meeting that is there keeps its results, and one that was inserted does
\* not come back.
LEMMA ResultsStay ==
  ASSUME MInv, [FNext]_vars
  PROVE  /\ jobs[1].stage # "unborn" => jobs'[1].stage # "unborn"
         /\ jobs[1].stage # "unborn" /\ Exists(1)' => Exists(1) /\ results \subseteq results'
<1> USE FilesAssumption DEF dvars
<1>0. /\ TypeInv /\ TypeOK /\ HeldKind
  BY DEF MInv, TypeInv
<1>1. CASE StreamUpload \/ RefuseUpload \/ LoseUpload \/ Purge \/ (Tick /\ UNCHANGED dvars)
           \/ UNCHANGED vars
  BY <1>1 DEF StreamUpload, RefuseUpload, LoseUpload, Purge, Tick, vars, qvars, Exists
<1>2. CASE CommitUpload \/ StartSummarize
  BY <1>0, <1>2 DEF CommitUpload, StartSummarize, CreateJob, TypeOK, Exists
<1>3. CASE DeleteRows
  BY <1>3 DEF DeleteRows, MeetingExists, Blank, Exists, NoRow
<1>4. ASSUME NEW s \in Slot, MeetingWork(s)
      PROVE  /\ jobs[1].stage # "unborn" => jobs'[1].stage # "unborn"
             /\ Exists(1)' => Exists(1) /\ results \subseteq results'
  <2>1. CASE Worker(s)
    BY <1>0, <1>4, <2>1, FilesStep, WorkerStep DEF Moved, RowsMove, Exists, Stage, Terminal, NoRow
  <2>2. CASE UNCHANGED qvars
    BY <1>4, <2>2, FilesStep DEF qvars, Exists
  <2> QED BY <1>4, <2>1, <2>2, FilesStep
<1> QED BY <1>1, <1>2, <1>3, <1>4 DEF FNext, MeetingWork

LEMMA ReadingNext == MInv /\ ReadingOK /\ [LNext]_lvars => ReadingOK'
<1> SUFFICES ASSUME MInv, ReadingOK, [LNext]_lvars PROVE ReadingOK'
  OBVIOUS
<1> USE FilesAssumption
<1>0. TypeOK /\ FTypeOK /\ RowsOK /\ ResultsOK
  BY DEF MInv, TypeInv
<1>1. CASE [FNext]_vars /\ reading' = reading
  BY <1>1, ResultsStay DEF ReadingOK
<1>2. CASE ListMeetings
  BY <1>2 DEF ListMeetings, Step, ReadingOK, MeetingExists, Exists, NoRow, vars, qvars, dvars
<1>3. CASE ListJobs
  <2>1. /\ reading' = [reading EXCEPT !.at = "transcripts",
                         !.stage = IF MeetingExists THEN jobs[LatestListed].stage ELSE None]
        /\ reading.at = "jobs" /\ jobs' = jobs /\ results' = results
    BY <1>3 DEF ListJobs, Step, vars, qvars, dvars
  <2>2. CASE Exists(1)
    <3> DEFINE st == jobs[LatestListed].stage
    <3>1. LatestListed \in Job /\ Exists(LatestListed)
      BY <1>0, <2>2, LatestExists
    <3>2. st \in Stage \cup NoRow
      BY <1>0, <3>1 DEF TypeOK, Row
    <3>3. /\ st \in {"awaiting_review", "done"} => "transcript" \in results
          /\ st = "done" => "summary" \in results
      BY <1>0, <3>1 DEF RowsOK, ResultsOK
    <3>4. reading' = [reading EXCEPT !.at = "transcripts", !.stage = st]
      BY <2>1, <2>2 DEF MeetingExists
    <3> HIDE DEF st
    <3> QED BY <2>1, <3>2, <3>3, <3>4 DEF ReadingOK, Exists
  <2>3. CASE ~Exists(1)
    <3>1. reading' = [reading EXCEPT !.at = "transcripts", !.stage = None]
      BY <2>1, <2>3 DEF MeetingExists
    <3> QED BY <2>1, <2>3, <3>1 DEF ReadingOK, Exists
  <2> QED BY <2>2, <2>3
<1>4. CASE ListTranscripts
  BY <1>0, <1>4
  DEF ListTranscripts, Step, ReadingOK, Exists, vars, qvars, dvars
<1>6. CASE ListSummaries
  <2>1. /\ reading' = [reading EXCEPT !.at = "shown",
                         !.results = reading.results \cup (results \cap {"summary"})]
        /\ reading.at = "summaries" /\ jobs' = jobs /\ results' = results
    BY <1>6 DEF ListSummaries, Step, ReadingOK, vars, qvars, dvars
  <2> QED BY <2>1 DEF ReadingOK, Exists
<1>5. CASE AskAgain
  BY <1>5 DEF AskAgain, Step, NoReading, ReadingOK, vars, qvars, dvars
<1> QED BY <1>1, <1>2, <1>3, <1>4, <1>5, <1>6 DEF LNext, List, lvars

\* A meeting the list shows as ready for review has its transcript, one it
\* shows as done both results, though the four SELECTs see four moments.
THEOREM ListHolds == LSpec => []ListIsCoherent
<1>1. LInit => ReadingOK
  BY DEF LInit, NoReading, ReadingOK
<1>2. MInv /\ ReadingOK /\ [LNext]_lvars => ReadingOK'
  BY ReadingNext
<1>3. ReadingOK => ListIsCoherent
  BY DEF ReadingOK, ListIsCoherent, MeetingExists
<1> QED BY <1>1, <1>2, <1>3, MInvariant, PTL DEF LSpec
-----------------------------------------------------------------------------
(***************************************************************************)
(* The latest job, in an orderly deployment.                               *)
(***************************************************************************)
LEMMA DeleteRowsOrder ==
  ASSUME Orderly, OrderInv, DeleteRows PROVE OrderInv'
<1> USE ConstantsAssumption, SlotCount
<1>0. TypeOK /\ HoldsJob /\ TypeOK'
  <2>1. HoldsJob
    BY HeldIsJob DEF OrderInv, HoldsJob
  <2> QED BY <2>1, DeleteRowsType DEF OrderInv, TypeInv
<1>a. /\ \A j \in Job : /\ ~Exists(j)' /\ jobs'[j].stage \in NoRow
                        /\ jobs'[j].stage = "unborn" => jobs[j].stage = "unborn"
                        /\ Claimed(j)' => Claimed(j) /\ jobs'[j] = jobs[j]
      /\ UNCHANGED <<now, pc, pid, held, tries, stop, todo, faults, starts>>
  BY DEF DeleteRows, Blank, Exists, NoRow, Claimed
<1>1. IdsUnique' /\ (~ReusePid => PidsGiven)'
  BY <1>a DEF OrderInv, IdsUnique, PidsGiven, Id, Up
<1>2. HeldOK' /\ OneRecovery'
  BY <1>0, <1>a DEF OrderInv, HeldOK, OneRecovery, HoldsJob, TypeOK
<1>3. RowMatchesRunner' /\ SoleRunner' /\ RunsAreFresh'
  BY <1>a DEF OrderInv, RowMatchesRunner, SoleRunner, RunsAreFresh, Runs
<1>4. TodoCurrent'
  BY <1>0, <1>a DEF OrderInv, TodoCurrent, TypeOK
<1>5. NoLostJob' /\ TerminalUnclaimed'
  BY <1>a DEF NoLostJob, TerminalUnclaimed, Terminal, NoRow
<1> QED BY <1>0, <1>1, <1>2, <1>3, <1>4, <1>5 DEF OrderInv

\* A summarize job asked for in time is there only after the transcribe job is
\* settled, and is never the older of the two.
AgesOK ==
  /\ \A j \in Job : jobs[j].updatedAt <= now
  /\ Exists(2) /\ ~early => /\ jobs[1].stage \in Terminal
                            /\ jobs[1].updatedAt <= jobs[2].updatedAt

LEMMA AgesNext ==
  ASSUME Orderly, MInv, OrderInv, AgesOK, [FNext]_vars, ~early' => ~early /\ ~AskedEarly
  PROVE  OrderInv' /\ AgesOK'
<1> USE FilesAssumption, ConstantsAssumption DEF dvars
<1>0. /\ TypeInv /\ TypeOK /\ HeldKind /\ RowsOK
      /\ now \in Nat /\ \A j \in Job : jobs[j].updatedAt \in Nat
  BY DEF MInv, TypeInv, TypeOK, Row, Time
<1>1. CASE DeleteRows
  <2>1. \A j \in Job : jobs'[j].stage \in NoRow /\ jobs'[j].updatedAt <= now' /\ now' = now
    BY <1>0, <1>1 DEF DeleteRows, Blank, AgesOK, Exists, NoRow
  <2> QED BY <1>1, <2>1, DeleteRowsOrder DEF AgesOK, Exists
<1>a. ASSUME [Next]_qvars
      PROVE  OrderInv' /\ \A j \in Job : jobs'[j].updatedAt <= now'
  BY <1>0, <1>a, OrderInvNext, NotFuture DEF AgesOK
<1>2. CASE CommitUpload
  <2>1. CreateJob(1) /\ jobs[2].stage = "unborn"
    BY <1>0, <1>2 DEF CommitUpload, RowsOK
  <2>2. ~Exists(2)'
    BY <1>0, <2>1 DEF CreateJob, TypeOK, Exists, NoRow
  <2> QED BY <1>a, <2>1, <2>2 DEF AgesOK, Next, Client
<1>3. CASE StartSummarize
  <2>1. CreateJob(2)
    BY <1>3 DEF StartSummarize
  <2>2. jobs'[1] = jobs[1] /\ jobs'[2].updatedAt = now /\ ~Exists(2) /\ Exists(2)'
    BY <1>0, <2>1 DEF CreateJob, Stamped, TypeOK, Exists, NoRow
  <2>3. ~early' => jobs[1].stage \in Terminal
    BY <2>2 DEF AskedEarly
  <2> QED BY <1>0, <1>a, <2>1, <2>2, <2>3 DEF AgesOK, Next, Client
<1>4. CASE [Next]_qvars /\ \A j \in Job : Exists(j)' <=> Exists(j)
  <2> SUFFICES ASSUME Exists(2), ~early
               PROVE  /\ jobs'[1].stage \in Terminal
                      /\ jobs'[1].updatedAt <= jobs'[2].updatedAt
    BY <1>4, <1>a DEF AgesOK
  <2>1. Exists(1) /\ Exists(2)' /\ Exists(1)' /\ jobs[1].stage \in Terminal
    BY <1>4 DEF AgesOK, Exists, NoRow, Terminal
  <2>2. jobs'[1] = jobs[1]
    BY <1>4, <2>1, SettledStays DEF Exists, NoRow
  <2>3. jobs'[2] = jobs[2] \/ jobs'[2].updatedAt = now
    BY <1>0, <1>4, <2>1, StampsNow DEF Exists, NoRow, Blank
  <2> QED BY <2>1, <2>2, <2>3 DEF AgesOK
<1>5. CASE \/ StreamUpload \/ RefuseUpload \/ LoseUpload \/ Purge
           \/ (Tick /\ UNCHANGED dvars) \/ UNCHANGED vars
  <2>1. [Next]_qvars /\ jobs' = jobs
    BY <1>5 DEF StreamUpload, RefuseUpload, LoseUpload, Purge, Tick, Next, vars, qvars
  <2> QED BY <1>4, <2>1 DEF Exists
<1>6. ASSUME NEW s \in Slot, MeetingWork(s) PROVE OrderInv' /\ AgesOK'
  <2>1. CASE Worker(s)
    BY <1>0, <1>4, <2>1, WorkerStep DEF Next, Moved, RowsMove, Exists, Stage, Terminal, NoRow
  <2>2. CASE UNCHANGED qvars
    BY <1>4, <2>2 DEF qvars, Exists
  <2> QED BY <1>6, <2>1, <2>2, FilesStep
<1> QED BY <1>1, <1>2, <1>3, <1>5, <1>6 DEF FNext, MeetingWork

\* While runs are bounded by the cutoff and recoveries undisturbed: the list
\* and the detail show the same job of a meeting, and minutes asked for once the
\* transcribe job had settled are that job, even when both jobs were written
\* within one second.
THEOREM NewestHolds == ASSUME Orderly PROVE LSpec => []NewestIsShown
<1> USE FilesAssumption
<1>1. LInit => OrderInv /\ AgesOK
  <2> SUFFICES ASSUME LInit PROVE OrderInv /\ AgesOK
    OBVIOUS
  <2>1. OrderInv
    BY OrderInvInit DEF LInit, FInit
  <2>2. AgesOK
    BY ConstantsAssumption DEF LInit, FInit, Init, Blank, AgesOK, Exists, NoRow
  <2> QED BY <2>1, <2>2
<1>2. MInv /\ OrderInv /\ AgesOK /\ [LNext]_lvars => OrderInv' /\ AgesOK'
  <2> SUFFICES ASSUME MInv, OrderInv, AgesOK, [LNext]_lvars
               PROVE  [FNext]_vars /\ (~early' => ~early /\ ~AskedEarly)
    BY AgesNext
  <2>1. CASE FNext /\ early' = (early \/ AskedEarly)
    BY <2>1
  <2>2. CASE UNCHANGED <<vars, early>>
    <3>1. ~AskedEarly
      BY <2>2 DEF AskedEarly, vars, qvars, Exists
    <3> QED BY <2>2, <3>1
  <2> QED BY <2>1, <2>2 DEF LNext, List, ListMeetings, ListJobs, ListTranscripts,
                            ListSummaries, AskAgain, Step, lvars
<1>3. MInv /\ AgesOK => NewestIsShown
  <2> SUFFICES ASSUME MInv, AgesOK, Exists(1)
               PROVE  /\ LatestListed = LatestDetailed
                      /\ Exists(2) /\ ~early => LatestListed = 2
    BY DEF NewestIsShown, MeetingExists
  <2>0. /\ TypeOK
        /\ jobs[1].updatedAt \in Nat /\ jobs[2].updatedAt \in Nat
    BY DEF MInv, TypeInv, TypeOK, Row, Time
  <2>1. /\ LatestListed \in LastWritten /\ LatestListed \in Job /\ Exists(LatestListed)
        /\ \A i \in LastWritten : i <= LatestListed
    BY <2>0, LatestExists
  <2>2. CASE Exists(2) /\ jobs[1].updatedAt <= jobs[2].updatedAt
    <3>1. 2 \in LastWritten
      BY <2>0, <2>2 DEF LastWritten
    <3>2. LatestListed = 2
      BY <2>1, <3>1
    <3>3. LatestDetailed = 2
      BY <2>0, <2>2 DEF LatestDetailed
    <3> QED BY <3>2, <3>3
  <2>3. CASE Exists(2) => jobs[2].updatedAt < jobs[1].updatedAt
    <3>1. 2 \notin LastWritten
      BY <2>0, <2>3 DEF LastWritten
    <3>2. LatestListed = 1
      BY <2>1, <3>1
    <3>3. LatestDetailed = 1
      BY <2>0, <2>3 DEF LatestDetailed
    <3>4. ~(Exists(2) /\ ~early)
      BY <2>0, <2>3 DEF AgesOK
    <3> QED BY <3>2, <3>3, <3>4
  <2> QED BY <2>0, <2>2, <2>3
<1> QED BY <1>1, <1>2, <1>3, MInvariant, PTL DEF LSpec
=============================================================================
