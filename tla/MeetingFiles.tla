---------------------------- MODULE MeetingFiles ----------------------------
(***************************************************************************)
(* The files and the results of one meeting -- upload, normalized WAV and  *)
(* its temporary file, minutes; transcript and summary rows -- against its *)
(* jobs: the upload (routes/meetings.py create_meeting), the worker's      *)
(* writes (audio.normalize, the saves of worker/main.py and stages.py),    *)
(* and DELETE /meetings/{id} (db.delete_meeting, then storage.purge).      *)
(* Composed with JobQueue: job 1                                           *)
(* is the transcribe job inserted with the meetings row and deleted with   *)
(* it, so Exists(1) is "the meeting exists"; job 2 is a summarize job.     *)
(***************************************************************************)
EXTENDS JobQueue

ASSUME FilesAssumption ==
  /\ Job = {1, 2}
  /\ KindOf[1] = "transcribe" /\ KindOf[2] = "summarize"

VARIABLES
  files,    \* the meeting's files on disk
  results,  \* its rows in transcripts and summaries
  upload,   \* the POST /meetings that brings it
  delete,   \* the DELETE that ends it
  inUse     \* history: a worker was running the meeting when it was deleted

dvars == <<files, results, upload, delete, inUse>>
vars == <<qvars, dvars>>

File == {"upload", "part", "wav", "docx"}

FInit == /\ Init
         /\ files = {} /\ results = {} /\ upload = "new" /\ delete = "new"
         /\ inUse = FALSE

MeetingExists == Exists(1)
Busy == \E s \in Slot : pc[s] \in Running
-----------------------------------------------------------------------------
CommitFirst ==
  /\ upload = "new"
  /\ upload' = "done"
  /\ CreateJob(1)
  /\ UNCHANGED <<files, results, delete, inUse>>

\* create_meeting: the file is streamed to disk first, ...
StreamUpload ==
  /\ upload = "new"
  /\ upload' = "streamed"
  /\ files' = files \cup {"upload"}
  /\ UNCHANGED <<qvars, results, delete, inUse>>

\* ... unlinked when it is too long, empty, or not audio, ...
RefuseUpload ==
  /\ upload = "streamed"
  /\ upload' = "refused"
  /\ files' = files \ {"upload"}
  /\ UNCHANGED <<qvars, results, delete, inUse>>

\* ... and given its rows in one transaction, outside the try.
CommitUpload ==
  /\ upload = "streamed"
  /\ upload' = "done"
  /\ CreateJob(1)
  /\ UNCHANGED <<files, results, delete, inUse>>

\* The commit may fail, or the API die before it.
LoseUpload ==
  /\ upload = "streamed"
  /\ upload' = "lost"
  /\ UNCHANGED <<qvars, files, results, delete, inUse>>

\* POST summarize: all it takes is a transcript row, which is there from the
\* first save of the transcribe job on, also while that job is run again.
StartSummarize ==
  /\ MeetingExists /\ "transcript" \in results
  /\ CreateJob(2)
  /\ UNCHANGED dvars

\* db.delete_meeting: all rows of the meeting in one transaction.
DeleteRows ==
  /\ MeetingExists
  /\ jobs' = [j \in Job |-> IF Exists(j) THEN Blank("deleted") ELSE jobs[j]]
  /\ delete' = "rows"
  /\ inUse' = Busy
  /\ results' = {}
  /\ UNCHANGED <<now, pc, pid, held, tries, stop, todo, faults, starts>>
  /\ UNCHANGED <<files, upload>>

PurgeRecorded ==
  /\ delete = "rows"
  /\ delete' = "done"
  /\ files' = files \ {"wav", "docx"}
  /\ UNCHANGED <<qvars, results, upload, inUse>>

\* storage.purge: every file of the meeting there is at that moment.
Purge ==
  /\ delete = "rows"
  /\ delete' = "done"
  /\ files' = {}
  /\ UNCHANGED <<qvars, results, upload, inUse>>

-----------------------------------------------------------------------------
\* tmp.replace(dest)
Replaced(fs) == IF "part" \in fs THEN (fs \ {"part"}) \cup {"wav"} ELSE fs

\* What a process may have written when it leaves its stage by an exception:
\* ffmpeg failed and its file was unlinked, or ran into its timeout and it was
\* not, or the WAV is there and could not be probed; doc.save came to an end or
\* did not.  Killed, it leaves what it has.
Leftovers(s) ==
  CASE pc[s] = "normalizing" -> {files, files \ {"part"}, Replaced(files)}
    [] pc[s] = "rendering" -> {files, files \cup {"docx"}}
    [] OTHER -> {files}

FindUpload(s) ==
  /\ pc[s] = "claimed" /\ KindOf[held[s]] = "transcribe"
  /\ "upload" \in files
  /\ Advance(s)
  /\ UNCHANGED dvars

\* audio.normalize: ffmpeg reads the upload and writes a file of its own, over
\* one an earlier run may have left, ...
Convert(s) ==
  /\ pc[s] = "normalizing"
  /\ "upload" \in files
  /\ files' = files \cup {"part"}
  /\ UNCHANGED <<qvars, results, upload, delete, inUse>>

NormalizeSkipped(s) ==
  /\ pc[s] = "normalizing"
  /\ Advance(s)
  /\ UNCHANGED dvars

\* ... which takes the WAV's name when it is whole, unless a purge took it.
Normalize(s) ==
  /\ pc[s] = "normalizing"
  /\ "part" \in files
  /\ Advance(s)
  /\ files' = Replaced(files)
  /\ UNCHANGED <<results, upload, delete, inUse>>

\* save_transcript; docgen.render, which writes its file whether or not the
\* meeting is still there.
StoreResult(s) ==
  /\ Store(s)
  /\ IF KindOf[held[s]] = "summarize"
       THEN files' = files \cup {"docx"} /\ UNCHANGED results
       ELSE results' = results \cup {"transcript"} /\ UNCHANGED files
  /\ UNCHANGED <<upload, delete, inUse>>

\* save_speakers; save_summary.
SaveResult(s) ==
  /\ Save(s)
  /\ results' = IF KindOf[held[s]] = "summarize" THEN results \cup {"summary"} ELSE results
  /\ UNCHANGED <<files, upload, delete, inUse>>

LeaveStage(s) ==
  /\ Retry(s) \/ GiveUp(s) \/ Crash(s)
  /\ files' \in Leftovers(s)
  /\ UNCHANGED <<results, upload, delete, inUse>>

OtherWork(s) ==
  /\ \/ /\ Advance(s)
        /\ pc[s] \in {"claimed", "normalizing"} => KindOf[held[s]] = "summarize"
     \/ Repeat(s) \/ Finish(s)
     \/ Start(s) \/ Recovery(s) \/ Poll(s)
     \/ \E j \in Job : ClaimJob(s, j)
     \/ Signal(s) \/ Exit(s)
  /\ UNCHANGED dvars

FNext ==
  \/ StreamUpload \/ RefuseUpload \/ CommitUpload \/ LoseUpload
  \/ StartSummarize \/ DeleteRows \/ Purge
  \/ \E s \in Slot : \/ FindUpload(s) \/ Convert(s) \/ Normalize(s)
                     \/ StoreResult(s) \/ SaveResult(s) \/ LeaveStage(s) \/ OtherWork(s)
  \/ Tick /\ UNCHANGED dvars

FSpec == FInit /\ [][FNext]_vars
-----------------------------------------------------------------------------
\* Types of the files, the result rows and the two requests.
FTypeOK == /\ files \subseteq File
           /\ results \subseteq {"transcript", "summary"}
           /\ upload \in {"new", "streamed", "refused", "done", "lost"}
           /\ delete \in {"new", "rows", "done"}
           /\ inUse \in BOOLEAN

\* A meeting in the list has its recording: GET /audio and normalize find it.
AudioStays == MeetingExists => "upload" \in files

\* A transcript ready for review has its WAV, finished minutes their document.
ResultsOnDisk ==
  /\ jobs[1].stage = "awaiting_review" => "wav" \in files
  /\ jobs[2].stage = "done" => "docx" \in files

\* Once an upload was refused, or a meeting that no worker was running was
\* deleted and purged, none of its files is left: nothing would ever remove it.
\* (A run in progress writes its file after the purge, and an upload whose
\* commit fails stays on disk.)
NoOrphanFiles ==
  \/ upload = "refused"
  \/ delete = "done" /\ ~inUse
  => files = {}
=============================================================================
