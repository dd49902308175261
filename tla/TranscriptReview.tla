-------------------------- MODULE TranscriptReview --------------------------
(***************************************************************************)
(* The transcript and the speaker labels of a meeting, between the worker  *)
(* that writes them (stages.diarize_and_transcribe), the API that edits    *)
(* them (routes/transcript.py) and the review page that shows them         *)
(* (web ReviewPage).  Composed with JobQueue: the worker's saves are steps *)
(* of a job, which may be retried, reclaimed or run again.                 *)
(*                                                                         *)
(* Every job is a meeting's one transcribe job, so a job id stands for its *)
(* meeting.  Of a transcript the properties need who wrote it last and     *)
(* which speaker keys its segments carry.                                  *)
(***************************************************************************)
EXTENDS JobQueue

CONSTANTS
  Voices      \* speaker keys the diarization of a recording finds

ASSUME VoicesAssumption == /\ Voices # {}
                           /\ \A j \in Job : KindOf[j] = "transcribe"

VARIABLES
  transcript,   \* per meeting: the transcripts row
  labels,       \* per meeting: speaker key -> kind of label
  cache,        \* per meeting: what the browser's query cache has of it
  page,         \* per meeting: the review page's own copy, once seeded
  rejected      \* the API has refused a rename made on the page

dvars == <<transcript, labels, cache, page, rejected>>
vars == <<qvars, dvars>>

Keys == SUBSET Voices
Label == {"none", "raw", "named"}   \* no row, label = key, a name
NoTranscript == [there |-> FALSE, edited |-> FALSE, keys |-> {}]
NoCopy == [there |-> FALSE, keys |-> {}, speakers |-> [k \in Voices |-> "none"]]

TInit == /\ Init
         /\ transcript = [j \in Job |-> NoTranscript]
         /\ labels = [j \in Job |-> [k \in Voices |-> "none"]]
         /\ cache = [j \in Job |-> NoCopy]
         /\ page = [j \in Job |-> NoCopy]
         /\ rejected = FALSE
-----------------------------------------------------------------------------
StoreAnything(s) ==
  /\ pc[s] = "transcribing"
  /\ Store(s)
  /\ \E kept \in Keys :
       transcript' = [transcript EXCEPT ![held[s]] =
                        [there |-> TRUE, edited |-> FALSE, keys |-> kept]]
  /\ UNCHANGED <<labels, cache, page, rejected>>

\* save_transcript(edited=False): some turns are dropped as hallucinations,
\* and with them perhaps a speaker's every turn; nothing left is an error.
\* The upsert does not look at what it overwrites.
StoreTranscript(s) ==
  /\ pc[s] = "transcribing"
  /\ Store(s)
  /\ \E kept \in Keys \ {{}} :
       transcript' = [transcript EXCEPT ![held[s]] =
                        [there |-> TRUE, edited |-> FALSE, keys |-> kept]]
  /\ UNCHANGED <<labels, cache, page, rejected>>

\* save_speakers: every speaker of every turn, the dropped ones included.
SaveSpeakers(s) ==
  /\ Save(s)
  /\ labels' = [labels EXCEPT ![held[s]] = [k \in Voices |-> "raw"]]
  /\ UNCHANGED <<transcript, cache, page, rejected>>

\* The remaining steps of the queue and of its clients; a deleted meeting
\* takes its transcript and speakers with it.
DeleteMeeting(j) ==
  /\ DeleteJob(j)
  /\ transcript' = [transcript EXCEPT ![j] = NoTranscript]
  /\ labels' = [labels EXCEPT ![j] = [k \in Voices |-> "none"]]
  /\ UNCHANGED <<cache, page, rejected>>

OtherWork(s) ==
  /\ \/ Advance(s) \/ Repeat(s) \/ Finish(s) \/ Retry(s) \/ GiveUp(s)
     \/ Start(s) \/ Recovery(s) \/ Poll(s)
     \/ \E j \in Job : ClaimJob(s, j)
     \/ Signal(s) \/ Exit(s) \/ Crash(s)
  /\ UNCHANGED dvars
-----------------------------------------------------------------------------
HasTranscript(j) == Exists(j) /\ transcript[j].there

Fetched(j) == [there |-> TRUE, keys |-> transcript[j].keys, speakers |-> labels[j]]

\* The page is mounted and seeds its copy once, from the query cache if that has
\* the transcript, else from the server.
OpenPage(j) ==
  /\ ~page[j].there
  /\ cache[j].there \/ HasTranscript(j)
  /\ cache' = [cache EXCEPT ![j] = IF @.there THEN @ ELSE Fetched(j)]
  /\ page' = [page EXCEPT ![j] = cache'[j]]
  /\ UNCHANGED <<qvars, transcript, labels, rejected>>

\* A mount of the page with a cached copy older than staleTime fetches it again
\* behind the page, which has its seed by then.
Refetch(j) ==
  /\ page[j].there
  /\ HasTranscript(j)
  /\ cache' = [cache EXCEPT ![j] = Fetched(j)]
  /\ UNCHANGED <<qvars, transcript, labels, page, rejected>>

ClosePage(j) ==
  /\ page[j].there
  /\ page' = [page EXCEPT ![j] = NoCopy]
  /\ UNCHANGED <<qvars, transcript, labels, cache, rejected>>

\* The cache drops what no page uses after some minutes, or with a reload.
Evict(j) ==
  /\ ~page[j].there /\ cache[j].there
  /\ cache' = [cache EXCEPT ![j] = NoCopy]
  /\ UNCHANGED <<qvars, transcript, labels, page, rejected>>

\* Editing text keeps the page's speaker keys; reassigning a segment to another
\* of them may leave a speaker with none.  update_transcript then replaces the
\* whole row: 404 without one.
EditSegments(j) ==
  /\ page[j].there
  /\ HasTranscript(j)
  /\ \E keys \in (SUBSET page[j].keys) \ {{}} :
       /\ page' = [page EXCEPT ![j].keys = keys]
       /\ transcript' = [transcript EXCEPT ![j] =
                           [there |-> TRUE, edited |-> TRUE, keys |-> keys]]
  /\ UNCHANGED <<qvars, labels, cache, rejected>>

\* update_speakers: every key of the payload must be a segment's speaker.
Unknown(j, speakers) ==
  {k \in Voices : speakers[k] # "none"} \ transcript[j].keys

\* renameSpeaker: the page sends its whole label map with one entry changed,
\* to a name or to blank, which the API turns into the raw key.
RenameSpeaker(j) ==
  /\ page[j].there
  /\ HasTranscript(j)
  /\ \E k \in page[j].keys, l \in {"raw", "named"} :
       LET sent == [page[j].speakers EXCEPT ![k] = l]
       IN /\ page' = [page EXCEPT ![j].speakers = sent]
          /\ IF Unknown(j, sent) = {}
               THEN /\ labels' = [labels EXCEPT ![j] =
                         [i \in Voices |-> IF sent[i] = "none" THEN @[i] ELSE sent[i]]]
                    /\ rejected' = rejected
               ELSE rejected' = TRUE /\ UNCHANGED labels
  /\ UNCHANGED <<qvars, transcript, cache>>

User(j) == OpenPage(j) \/ Refetch(j) \/ ClosePage(j) \/ Evict(j) \/ EditSegments(j) \/ RenameSpeaker(j)

TNext ==
  \/ \E j \in Job : \/ CreateJob(j) /\ UNCHANGED dvars
                    \/ DeleteMeeting(j)
                    \/ User(j)
  \/ Tick /\ UNCHANGED dvars
  \/ \E s \in Slot : StoreTranscript(s) \/ SaveSpeakers(s) \/ OtherWork(s)

TSpec == TInit /\ [][TNext]_vars
-----------------------------------------------------------------------------
\* A meeting shown as ready for review has a transcript, and every speaker of
\* its segments has a label to show and to rename, through crashes between
\* save_transcript and save_speakers and through the user's reassignments.
ReadyIsComplete ==
  \A j \in Job : jobs[j].stage = "awaiting_review" =>
    /\ transcript[j].there /\ transcript[j].keys # {}
    /\ \A k \in transcript[j].keys : labels[j][k] # "none"

\* Once its job is settled a transcript is the user's: no worker step, of any
\* process, with or without a claim, writes it or its labels again.  (Before
\* that, a rerun of the job writes over an edit.  Only worker steps move a pc.)
SettledIsTheUsers ==
  [][\A j \in Job : jobs[j].stage \in Terminal /\ pc' # pc =>
       transcript'[j] = transcript[j] /\ labels'[j] = labels[j]]_vars

\* A speaker shown on the review page can be renamed.
RenamesAccepted == ~rejected

\* A speaker once named keeps the name until that speaker is renamed on the page,
\* whatever else the user renames, also after the page was left and opened again.
RenamesStay ==
  [][\A j \in Job, k \in Voices :
       pc' = pc /\ labels[j][k] = "named" /\ labels'[j][k] = "raw" =>
         page'[j].speakers[k] # page[j].speakers[k]]_vars
=============================================================================
