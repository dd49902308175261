----------------------------- MODULE MeetingList -----------------------------
(***************************************************************************)
(* GET /meetings against everything that writes: db.list_meetings reads    *)
(* meetings, latest jobs, transcripts and summaries in four SELECTs that   *)
(* each see another moment, and the page polls it (web MeetingsPage).      *)
(* db.get_meeting_detail reads the same four for one meeting, and chooses  *)
(* its latest job by another query.  Jobs are numbered by rowid.           *)
(***************************************************************************)
EXTENDS MeetingFiles

VARIABLES
  reading,  \* the request: which SELECT comes next, and what it has read
  early     \* history: minutes were asked for before the transcribe job settled

lvars == <<vars, reading, early>>

NoReading == [at |-> "meetings", listed |-> FALSE, stage |-> None, results |-> {}]

LInit == FInit /\ reading = NoReading /\ early = FALSE

\* _latest_job_rows: the rows with the greatest updated_at, ordered by rowid; a
\* later row of the meeting replaces an earlier one in the dict.
LastWritten == {j \in Job : /\ Exists(j)
                            /\ \A i \in Job : Exists(i) => jobs[i].updatedAt <= jobs[j].updatedAt}

LatestAnyOrder ==
  CHOOSE j \in LastWritten : \A i \in LastWritten : j <= i

LatestListed == CHOOSE j \in LastWritten : \A i \in LastWritten : i <= j

\* get_meeting_detail: ORDER BY updated_at DESC, rowid DESC LIMIT 1.
LatestDetailed ==
  CHOOSE j \in Job :
    /\ Exists(j)
    /\ \A i \in Job \ {j} : Exists(i) =>
         \/ jobs[j].updatedAt > jobs[i].updatedAt
         \/ jobs[j].updatedAt = jobs[i].updatedAt /\ j > i
-----------------------------------------------------------------------------
Step(from, to) == reading.at = from /\ reading' = to /\ UNCHANGED <<vars, early>>

ListMeetings ==
  Step("meetings", [reading EXCEPT !.at = "jobs", !.listed = MeetingExists])

\* A meeting whose jobs are gone by now is listed without a stage.
ListJobs ==
  Step("jobs", [reading EXCEPT !.at = "transcripts",
                  !.stage = IF MeetingExists THEN jobs[LatestListed].stage ELSE None])

ListTranscripts ==
  Step("transcripts", [reading EXCEPT !.at = "summaries",
                         !.results = results \cap {"transcript"}])

ListSummaries ==
  Step("summaries", [reading EXCEPT !.at = "shown",
                       !.results = @ \cup (results \cap {"summary"})])

\* The page shows the answer and asks again, every five seconds.
AskAgain == Step("shown", NoReading)

ResultsFirst ==
  \/ Step("meetings", [reading EXCEPT !.at = "transcripts", !.listed = MeetingExists])
  \/ Step("transcripts", [reading EXCEPT !.at = "summaries",
                            !.results = results \cap {"transcript"}])
  \/ Step("summaries", [reading EXCEPT !.at = "jobs",
                          !.results = @ \cup (results \cap {"summary"})])
  \/ Step("jobs", [reading EXCEPT !.at = "shown",
                     !.stage = IF MeetingExists THEN jobs[LatestListed].stage ELSE None])

\* list_meetings, in the order of its SELECTs.
List == ListMeetings \/ ListJobs \/ ListTranscripts \/ ListSummaries

AskedEarly == ~Exists(2) /\ Exists(2)' /\ jobs[1].stage \notin Terminal

LNext == \/ FNext /\ UNCHANGED reading /\ early' = (early \/ AskedEarly)
         \/ List \/ AskAgain

LSpec == LInit /\ [][LNext]_lvars
-----------------------------------------------------------------------------
\* The list and the detail agree on a meeting's latest job, though they ask in
\* different words.  Minutes asked for once the transcribe job had settled are
\* that job from then on, not even hidden within one second.  (Asked for
\* before, they are hidden by what the transcribe job writes after them.)
NewestIsShown ==
  MeetingExists =>
    /\ LatestListed = LatestDetailed
    /\ Exists(2) /\ ~early => LatestListed = 2

\* Four moments in one answer: a meeting shown as ready for review has its
\* transcript and one shown as done has both results, as long as it was not
\* deleted meanwhile.  The jobs are read first, and written last.
ListIsCoherent ==
  reading.at = "shown" /\ reading.listed /\ MeetingExists =>
    /\ reading.stage = "awaiting_review" => "transcript" \in reading.results
    /\ reading.stage = "done" => reading.results = {"transcript", "summary"}
=============================================================================
