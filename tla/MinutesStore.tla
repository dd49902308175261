---------------------------- MODULE MinutesStore ----------------------------
(***************************************************************************)
(* The minutes of one meeting: the requests that ask for them              *)
(* (routes/summary.py start_summarize), the summarize jobs that write them *)
(* (stages.summarize), the edits of the minutes screen (update_summary),   *)
(* and the .docx both render.  Composed with JobQueue; every job here is a *)
(* summarize job of that meeting, and job ids are the rowids, in order of  *)
(* insertion.  The transcript exists from the start.  Deletion is left to  *)
(* MeetingFiles.                                                           *)
(***************************************************************************)
EXTENDS JobQueue

CONSTANTS
  Request,       \* POST /summarize calls
  Patch,         \* PATCH /summary calls
  MaxEdits       \* bound: transcript edits

ASSUME MinutesAssumption ==
  /\ Job \subseteq Nat \ {0}
  /\ \A j \in Job : KindOf[j] = "summarize"
  /\ None \notin Patch \cup Request
  /\ Patch \cap Job = {}
  /\ MaxEdits \in Nat

VARIABLES
  text,      \* the version of the transcript
  read,      \* per slot: the version its job read
  minutes,   \* the summaries row
  docx,      \* the file it was rendered to
  req,       \* per POST: where it is, the version it saw, the job it returned
  patch,     \* per PATCH: where it is
  raced,     \* history: two POSTs have looked before either inserted
  torn       \* history: what made the present document went wrong before its save

dvars == <<text, read, minutes, docx, req, patch, raced, torn>>
vars == <<qvars, dvars>>

\* Minutes are told apart by who made them (a run of a job, or an edit) and,
\* for a run, by the transcript it read.
Content == [by: Job \cup Patch \cup {None}, run: Nat, text: 0 .. MaxEdits]
NoMinutes == [by |-> None, run |-> 0, text |-> 0]
ByRun(s) == [by |-> held[s], run |-> tries[s], text |-> read[s]]
ByEdit(p) == [by |-> p, run |-> 0, text |-> 0]

MInit == /\ Init
         /\ text = 0
         /\ read = [s \in Slot |-> 0]
         /\ minutes = NoMinutes /\ docx = NoMinutes
         /\ req = [r \in Request |-> [at |-> "new", saw |-> 0, job |-> None, made |-> FALSE]]
         /\ patch = [p \in Patch |-> "new"]
         /\ raced = FALSE /\ torn = FALSE

ActiveStagesNoQueued == {"summarizing", "rendering"}
ActiveStages == {"queued", "summarizing", "rendering"}
Active(j) == jobs[j].stage \in ActiveStages
AnyActive == \E j \in Job : Active(j)

\* ORDER BY updated_at DESC, rowid DESC LIMIT 1.
Latest(j) ==
  /\ Exists(j)
  /\ \A i \in Job : Exists(i) =>
       \/ jobs[i].updatedAt < jobs[j].updatedAt
       \/ jobs[i].updatedAt = jobs[j].updatedAt /\ i <= j
LatestActive == {j \in Job : Latest(j) /\ Active(j)}   \* one or none
LatestJob == CHOOSE j \in LatestActive : TRUE
-----------------------------------------------------------------------------
ReadOnce(s) ==
  /\ pc[s] = "claimed"
  /\ Advance(s)
  /\ read' = IF \E j \in Job : jobs[j].stage = "done" THEN read
             ELSE [read EXCEPT ![s] = text]
  /\ UNCHANGED <<text, minutes, docx, req, patch, raced, torn>>

\* summarize() reads the transcript once, before its first progress write.
ReadTranscript(s) ==
  /\ pc[s] = "claimed"
  /\ Advance(s)
  /\ read' = [read EXCEPT ![s] = text]
  /\ UNCHANGED <<text, minutes, docx, req, patch, raced, torn>>

\* A document is rendered and its minutes are not saved yet.
Halfway == \/ \E s \in Slot : pc[s] = "stored"
           \/ \E p \in Patch : patch[p] = "save"

\* docgen.render, then save_summary.
RenderRun(s) ==
  /\ Store(s)
  /\ docx' = ByRun(s)
  /\ torn' = Halfway
  /\ UNCHANGED <<text, read, minutes, req, patch, raced>>

SaveRunOnce(s) ==
  /\ Save(s)
  /\ minutes' = IF minutes = NoMinutes THEN ByRun(s) ELSE minutes
  /\ UNCHANGED <<text, read, docx, req, patch, raced, torn>>

SaveRun(s) ==
  /\ Save(s)
  /\ minutes' = ByRun(s)
  /\ UNCHANGED <<text, read, docx, req, patch, raced, torn>>

\* A run fails for good: nothing undoes what the job rendered, if it did not
\* come to save it.
FailRun(s) ==
  /\ GiveUp(s)
  /\ torn' = (torn \/ (docx.by = held[s] /\ pc[s] # "saved"))
  /\ UNCHANGED <<text, read, minutes, docx, req, patch, raced>>

OtherWork(s) ==
  /\ \/ pc[s] # "claimed" /\ Advance(s)
     \/ Repeat(s) \/ Finish(s) \/ Retry(s)
     \/ Start(s) \/ Recovery(s) \/ Poll(s)
     \/ \E j \in Job : ClaimJob(s, j)
     \/ Signal(s) \/ Exit(s) \/ Crash(s)
  /\ UNCHANGED dvars
-----------------------------------------------------------------------------
\* PATCH /transcript.
EditTranscript ==
  /\ text < MaxEdits
  /\ text' = text + 1
  /\ UNCHANGED <<qvars, read, minutes, docx, req, patch, raced, torn>>

\* start_summarize up to its SELECT: return the meeting's latest summarize job
\* if that is active, otherwise go on to insert one.
Ask(r) ==
  /\ req[r].at = "new"
  /\ req' = [req EXCEPT ![r] =
       IF LatestActive # {}
         THEN [@ EXCEPT !.at = "done", !.saw = text, !.job = LatestJob]
         ELSE [@ EXCEPT !.at = "insert", !.saw = text]]
  /\ raced' = (raced \/ (LatestActive = {} /\ \E q \in Request : req[q].at = "insert"))
  /\ UNCHANGED <<qvars, text, read, minutes, docx, patch, torn>>

\* ... and the INSERT, in a transaction of its own.
Insert(r) ==
  /\ req[r].at = "insert"
  /\ \E j \in Job :
       /\ jobs[j].stage = "unborn"
       /\ \A i \in Job : jobs[i].stage = "unborn" => j <= i
       /\ CreateJob(j)
       /\ req' = [req EXCEPT ![r].at = "done", ![r].job = j, ![r].made = TRUE]
  /\ UNCHANGED <<text, read, minutes, docx, patch, raced, torn>>

\* update_summary: read the current row (404 without one), render in a thread,
\* then save.  The await leaves the other steps free to happen in between, other
\* PATCHes and the run of a job among them.
PatchRead(p) ==
  /\ patch[p] = "new"
  /\ minutes # NoMinutes
  /\ patch' = [patch EXCEPT ![p] = "render"]
  /\ UNCHANGED <<qvars, text, read, minutes, docx, req, raced, torn>>

PatchRender(p) ==
  /\ patch[p] = "render"
  /\ docx' = ByEdit(p)
  /\ patch' = [patch EXCEPT ![p] = "save"]
  /\ torn' = Halfway
  /\ UNCHANGED <<qvars, text, read, minutes, req, raced>>

PatchSave(p) ==
  /\ patch[p] = "save"
  /\ minutes' = ByEdit(p)
  /\ patch' = [patch EXCEPT ![p] = "done"]
  /\ UNCHANGED <<qvars, text, read, docx, req, raced, torn>>

\* render or save_summary raises (a full disk, a locked database, a deleted
\* meeting) or the API stops: nothing undoes what was rendered.
PatchFail(p) ==
  /\ patch[p] \in {"render", "save"}
  /\ patch' = [patch EXCEPT ![p] = "failed"]
  /\ torn' = (torn \/ patch[p] = "save")
  /\ UNCHANGED <<qvars, text, read, minutes, docx, req, raced>>

MNext ==
  \/ \E s \in Slot : ReadTranscript(s) \/ RenderRun(s) \/ SaveRun(s)
                    \/ FailRun(s) \/ OtherWork(s)
  \/ EditTranscript
  \/ \E r \in Request : Ask(r) \/ Insert(r)
  \/ \E p \in Patch : PatchRead(p) \/ PatchRender(p) \/ PatchSave(p) \/ PatchFail(p)
  \/ Tick /\ UNCHANGED dvars

MSpec == MInit /\ [][MNext]_vars
-----------------------------------------------------------------------------
\* Nobody is writing the minutes: no active job, no PATCH under way.
Quiet == ~AnyActive /\ \A p \in Patch : patch[p] \notin {"render", "save"}

\* "The file on disk always matches what the screen showed": once nobody writes,
\* the document is that of the minutes, through crashes, retries and reruns between
\* a rendering and its save, and edits between them.  What the code does not
\* prevent is excepted, until the next rendering: the document was rendered while
\* another's minutes were not saved yet, or by a PATCH or a job that then failed.
DiffersOnlyIfTorn == Quiet /\ docx # minutes => torn

\* "A summarize job that is already queued or running should not be duplicated by
\* an impatient second click."
OneActiveJob ==
  \A i, j \in Job : /\ Exists(i) /\ jobs[i].stage \notin Terminal
                    /\ Exists(j) /\ jobs[j].stage \notin Terminal
                    => i = j

\* It is duplicated by nothing but two clicks of which each looked before the
\* other's INSERT: a look at the latest job only does not miss an active one,
\* through crashes, retries, sweeps and updates in the same second.
DoubledOnlyByRace == OneActiveJob \/ raced

\* Minutes of a job made for a request are from a transcript no older than the
\* one the request was made about, whatever retries came between.  (A job the
\* request was handed may have read an older one before.)
OwnJobIsFresh ==
  \A r \in Request :
    req[r].made /\ minutes.by = req[r].job => minutes.text >= req[r].saw
=============================================================================
