# SarAI in TLA+

SarAI records a meeting, transcribes it with speaker labels, lets the user
correct the transcript, and writes minutes with a language model. This
directory holds TLA+ models of the parts of it that have state and concurrency,
the TLC configurations that check them, and TLAPS proofs of every safety property
that the passing ones check.

Contents: [Inventory](#inventory) · [Modules](#modules) · [Runs](#runs) ·
[Assumptions](#assumptions) · [Fairness](#fairness) · [Proofs](#proofs) ·
[Disagreements](#where-the-code-and-its-documentation-disagree) ·
[Not modelled](#not-modelled) · [Plan](#plan)

To check: `tlc -workers 2 -config <run>.cfg <module>` for a run of the table
below, and `tlapm <module>.tla` for the proofs of `JobQueueProofs`,
`TranscriptReviewProofs`, `MinutesStoreProofs`, `MeetingProofs`, `AutoSaveProofs`,
`WorkerHealthProofs`, `SummarizerProofs` and `RecognitionProofs`.

## Inventory

Paths are relative to the repository. One API process (FastAPI, handlers in a
thread pool and in an event loop), any number of worker processes and a browser
share a SQLite database and a data directory; nothing else connects them.

| Component | State it keeps | Operations | What is hard about it |
|---|---|---|---|
| Job queue: `sarai/db.py`, `sarai/models.py` | one `jobs` row per job: stage, claim (`host:pid`, time), attempts, error, updated_at | `create_job`, `claim_job`, `update_job`, `requeue_job`, `release_stale_claims`, `claims_by_host`, `delete_meeting` | each statement commits by itself, so workers interleave between any two; updates go by id and look neither at the claim nor at the stage |
| Worker: `sarai/worker/main.py` | `_stop`, the job in hand | start-up sweep and local recovery, poll, run, `handle_failure`, signals | crash between any two statements; restart with the same pid; liveness of a claim judged by pid or by age |
| Pipeline: `sarai/worker/stages.py` | none of its own | normalize, diarize and transcribe, summarize; progress writes; saves; release | results are stored in several transactions, then the job is released |
| Transcript review: `api/routes/transcript.py`, `web ReviewPage` | `transcripts`, `speakers`; the page's copy | read, replace segments, relabel | the page seeds its copy once and sends whole values; the worker may still write |
| Minutes: `api/routes/summary.py` | `summaries`, the `.docx` | ask for minutes, edit them, download | look-then-insert; an `await` between a read and a write; two renderers of one file |
| Upload and deletion: `api/routes/meetings.py`, `sarai/storage.py` | `meetings`, files | upload, list, delete, stream audio | rows and files have no common transaction; deletion during a run |
| Event stream: `api/routes/events.py` | one generator per client | frames until the end of the job | client disconnects, meeting vanishes |
| Event hook and meeting page: `useJobEvents.ts`, `MeetingPage.tsx` | EventSource, status, last event, query cache | subscribe, retry, give up, poll | reconnection by the browser, lost last frame, two sources for one stage |
| Debounced autosave: `useDebouncedSave.ts` | pending value, timer, request in flight, status | schedule, flush, run, unload warning | edits during a save, failures, unmounting |
| Chunking: `sarai/llm/chunk.py` | none | `split_segments` | boundaries: empty, full, oversized, overlap 0 |
| Minutes generation: `sarai/llm/summarize.py` | none | validate and retry once, map and reduce, verify quotes | retries inside a job that has retries |
| Diarization: `sarai/worker/diarize.py` | loaded pipeline | merge, split and shape turns | numeric boundaries: adjacent, nested and long turns, cuts at a window's edge |
| Speech recognition: `sarai/worker/asr.py`, the loop in `stages.py` | loaded model | transcribe a turn, drop the prompt's echo, drop hallucinations | boundaries of the repeat filter; the text may repeat the prompt |
| Startup: `db.init_db`, `db.run_migrations` | `schema_migrations` | read what is applied, run statements, record | API and workers start side by side on an empty database, each statement commits by itself |
| Heartbeat: `worker/main.py`, `db.beat`, `api/routes/health.py`, `web App.tsx` | one heartbeat row; the banner | beat, read, judge freshness, poll | one row for all workers, a thread beside a busy main thread, writes delayed by the lock |
| Meeting list: `db.list_meetings`, `db.get_meeting_detail`, `MeetingsPage` | query cache | list, detail, poll | four SELECTs that see four moments; latest job chosen by two queries |
| Audio conversion: `sarai/audio.py` | files | convert to a temporary file, take the WAV's name | timeout, death and purge in the middle |
| docx, Thai text, LLM clients, other screens | none | conversions, calls of third parties | |

What makes each one correct:

- queue and worker: no job is run by two processes; the row of a running job
  says who runs it and where it stands; no unfinished job is out of sight of
  every process; a finished job stays finished; every job finishes;
- transcript: what is offered for review is complete, and is not written by a
  worker once the job is settled;
- minutes: one run at a time, from the transcript the user asked about, and the
  document equal to what the screen shows (the code keeps the second of the three,
  the first unless two requests race, the third unless two writers cross or one
  fails half way);
- files: what a row promises is on disk, and what no row refers to is not;
- events: both ends of a stream come to an end, and the page comes to know how
  the job ended (it should come to show it: see the disagreements);
- autosave: the status line is true, values arrive in order, and nothing is lost
  without a warning (it is: likewise);
- turns: all speech kept but scraps, nobody's twice, in pieces of a usable
  length cut where it is quiet;
- recognition: of what was said, all that is neither a loop nor boilerplate, word
  for word, and nothing else;
- startup and health: everybody comes up on a complete schema; a worker that
  beats is never reported dead, one that is gone is, and the banner follows;
- list: what it shows of a meeting was true together, and is the newest;
- minutes generation: chunks with nothing left out and exact overlaps, every part
  merged, a bounded number of calls, and no quote of what nobody said.

`PROJECT.json` lists these components with their status, the hazards of the code
at their lines, and the properties that cover each.

## Modules

| Module | Models | Extends |
|---|---|---|
| `JobLifecycle` | abstract: what the queue promises about a job | |
| `JobQueue` | the jobs table, claim, sweep, recovery, worker main loop, pipeline order, crashes | |
| `JobQueueProps` | properties, refinement mapping, inductive invariant of `JobQueue` | `JobQueue` |
| `JobQueueProofs` | proofs: types, ownership, what one step does to rows and processes, the refinement of `JobLifecycle`, attempts, claims of live processes | `JobQueueProps` |
| `TranscriptReview` | transcript, labels, review page, composed with the queue | `JobQueue` |
| `MinutesStore` | requests for minutes, edits, document, composed with the queue | `JobQueue` |
| `MeetingFiles` | upload, conversion, results and purge, composed with the queue | `JobQueue` |
| `MeetingList` | the four SELECTs of the list, the latest job | `MeetingFiles` |
| `JobEvents` | stream generator, network, hook, page, composed with the queue | `JobQueue` |
| `TranscriptReviewProofs`, `MinutesStoreProofs`, `MeetingProofs` | proofs of the composed modules' properties | the module, `JobQueueProofs` |
| `AutoSave`, `AutoSaveProofs` | `useDebouncedSave`, its requests, the generate button; proofs | |
| `Chunking` | `split_segments` | |
| `Summarizer` | `summarize`: calls, validation and retry, map and reduce, quotes | `Chunking` |
| `Turns` | `merge_turns`, `split_long_turn`, `shape_turns` | |
| `Recognition` | the loop over the turns, prompt, guard, segments | `Turns` |
| `SummarizerProofs` | proofs: chunking, parts, quotes | `Summarizer` |
| `RecognitionProofs` | proofs: shaping turns, the guard, the transcript | `Recognition` |
| `Migrations` | `init_db` by several processes at once | |
| `WorkerHealth`, `WorkerHealthProofs` | heartbeat threads, `/health`, banner; proofs | `Migrations` |
| `MC*` | values of the constants for TLC | |

A composing module takes the queue's actions as they are, conjoins what the
same statement of the code does to its own variables (`StoreTranscript(s) ==
Store(s) /\ transcript' = ...`), and gives every other queue action an
`UNCHANGED`.

### JobQueue

`jobs` is the table; a row keeps stage, claim, claim time, updated_at and
attempts. `now` is the clock at the resolution of the timestamps. Per *slot*, a
place where one worker process runs at a time, `pc` says where its program
stands, `pid` which process it is, `held` and `tries` the `Job` object it got
from the claim, `stop` the `_stop` flag, and `todo` the claims
`recover_local_claims` read and has not yet looked at.

| Action | Code |
|---|---|
| `CreateJob`, `DeleteJob` | `db.create_job`; `db.delete_meeting` |
| `Start`, `SweepStale`, `ReadClaims`, `RecoverOne`, `EnterLoop` | `main()` up to its loop, `db.release_stale_claims`, `recover_local_claims` |
| `ClaimJob`, `Poll` | `db.claim_job`, found or not |
| `Advance`, `Repeat` | `_progress` in a new stage, and again in the same |
| `Store`, `Save`, `Finish` | the two saves at the end of each kind of job, and the release |
| `Retry`, `GiveUp` | `handle_failure` |
| `Signal`, `Exit`, `Crash` | `_handle_signal`; leaving the loop; death at any point |
| `Tick` | time passing |

`Update(j, row)` is an `UPDATE ... WHERE id = j`: without a row it does nothing.
A row that is gone makes the pipeline raise only where the code looks the
meeting up or a foreign key fails; elsewhere a worker goes on with a deleted job,
as the code does.

`pid` is fresh at every start, or, with `ReusePid`, the same every time: a
container's worker keeps its pid and its hostname through `restart:
unless-stopped`.

### JobLifecycle and the refinement

`JobLifecycle` knows a job's status and its runner: submitted, taken by a worker
with nothing in hand, given back, settled for good, deleted. The mapping in
`JobQueueProps` takes "running" from the processes (`RunnerOf`: some process has
the job in hand) and not from the row, so it holds only if rows and processes
agree. The run `JobQueue` checks `LC!Spec` as a property, and the theorem
`QueueImplementsLifecycle` proves it for every instance.

### TranscriptReview

Every job is its meeting's transcribe job. A transcript is: whether it is there,
whether the user wrote it, and which speaker keys its segments carry. A
speaker's label is the raw key, a name, or no row. `StoreTranscript` and
`SaveSpeakers` are the queue's `Store` and `Save`; the hallucination filter of
ASR may drop every turn of a speaker from the segments and never drops the
speaker's label. `cache` is the browser's query cache: `OpenPage` seeds the page's copy from
it when it has the transcript, else from the server, `Refetch` renews it behind
the page, `Evict` drops it. `EditSegments` and
`RenameSpeaker` change the copy and send it whole; the API's 404 and 422
refusals are guards.

### MinutesStore

One meeting; jobs are summarize jobs, numbered in order of insertion (rowids).
Contents of minutes are told apart by who made them: a run of a job, with the
transcript version it read, or an edit. `Ask` and `Insert` are the two
transactions of `POST /summarize`; `PatchRead`, `PatchRender` and `PatchSave`
are `PATCH /summary` around its `await`, and `PatchFail` its end before either of
the last two: an exception, or the API stopped. `ReadTranscript`, `RenderRun` and
`SaveRun` ride on the queue's `Advance`, `Store` and `Save`. Nothing keeps requests,
edits and jobs apart. The history variable `raced` remembers whether two requests
have both looked before either inserted; `torn`, whether the present document was
rendered while another's minutes were not saved yet (`Halfway`), or by a PATCH that
ended before its save (`PatchFail`) or a job that failed before it (`FailRun`). The
next rendering that starts alone clears it.

### MeetingFiles

Job 1 is the transcribe job inserted in the same transaction as the meeting, and
deleted with it; job 2 a summarize job, which a client may ask for as soon as there
is a transcript row (`StartSummarize`): also before the transcribe job is released,
and while it runs again. `files` is what is on disk, `results`
which of the rows of `transcripts` and `summaries` are there. `Convert` is ffmpeg
at work on its `.part` file, over one an earlier run may have left; `Normalize`
the `replace` that gives it the WAV's name, with the next progress write. A stage
left by an exception or a crash may or may not have finished its file
(`Leftovers`). The history variable `inUse` remembers whether a worker was
running the meeting when its rows were deleted.

### MeetingList

`reading` is one `GET /meetings`: which of its SELECTs comes next and what the
ones before returned. `LatestListed` and `LatestDetailed` are the two ways the
code asks for a meeting's latest job. The history variable `early` remembers that
minutes were asked for before the transcribe job had settled: what that job writes
afterwards makes it the latest again, and `NewestIsShown` says nothing of it.

### JobEvents

One meeting with one job and a page kept open. The queue moves the row;
`Send` is a turn of `stream_job` with something to say; `wire` holds frames in
flight, in order; `Fail` is a transport error, on which EventSource reconnects
and the hook counts; `Refuse` an error status, on which EventSource gives up;
`FetchMeeting` the page's query, with the effect of the hook that its new data
triggers, and `FailFetch` the query's failure, its retry included: it keeps its
data, shows an error (`failed`), and is not sent again unless the page polls. A
generator whose client has gone counts as an orphan until it looks
(`Notice`).

### AutoSave

A value is the number of the edit that made it. `Run` is `run()` up to its
`await`, `Answer` what follows; the JavaScript between two awaits is one step.
Requests are handled (`Store`) or fail (`Fail`), before or after the server
stored the value; a request reported as failed is not handled later. `Generate`
flushes without awaiting, as `ReviewPage` does, and `Leave` may follow at once.
`CloseTab` needs that no `beforeunload` listener is there, on the screen; after
`Leave` there is none, whatever is owed. It may abort the request that is out.

### Chunking

The loop of `split_segments` is the next-state relation, so every prefix of
every bounded input is a state. It has no specification of its own: `Summarizer` runs
it as one of its phases and checks its properties.

### Summarizer

`summarize` calls the language model once for a short transcript, and for a long
one once per chunk and once to merge. `asked` is the list of prompts, each with
what it was about and whether it showed a validation error (`_call_validated`).
The model may answer anything: something valid with any quotes, something invalid,
or fail. `verify_quotes` takes all white space out of the transcript and of the
quote, joins the segments whoever speaks them, and looks for the one in the other.
So a quote is a sequence of segments, in the words of `thai.normalize`, which the
prompts show (`Lines`), or in other words; `RunsOn` says when it is a piece of what
some segments say. Segments are taken whole, and no two say the same. Quotes over
several lines are kept, also when a speaker's words are spliced with the next one's,
or the last line of one chunk with the first of another, which no single prompt
showed: `QuotesWereShown` says no more than the code does.
The job around it, with its own attempts, is `JobQueue`.

### Turns

`shape_turns` as a state machine: one step for the merge, which is a fold, and
one for each call of `split_long_turn`. A piece carries the slice of the energy
envelope it was given (`from`, `to`), which is that of the merged turn it comes
from; `Offset` is `quietest_offset` with its fallback. Time is in samples, of
which a set is quiet.

### Recognition

Continues where `Turns` ends. Each turn is heard (`Transcribe`) with a text from
a small set, or skipped for want of samples; in front of what it hears the model
puts its prompt, or the end of it, or nothing (`echo`, `Decoded`: a long prompt is
cut to its last 224 tokens), `Heard` is what `transcribe` makes of that, and
`LooksHallucinated` decides. A word is a sequence of letters, because
`has_repeat_run` looks at words first and then at the letters without spaces. Its
loops are translated as they are, and `MCRecognition` compares them with a
definition by periods (`Repeats`) on every text of up to three words of up to
three letters over an alphabet of two; that they agree on every text is proved.

### Migrations and WorkerHealth

`Migrations` is `init_db`: `Boot`, `ReadApplied`, `Execute` (one statement of a
file, which raises when somebody else ran it before) and `Record` (the INSERT,
with the same fate); a process that raises is started again. `WorkerHealth` goes
on from there: `Begin` starts a worker's heartbeat thread, whose `beater` is
connecting, writing or waiting, for a time; `Beat` writes the time taken *before*
the wait for the lock, so a slow worker may put an older time over a newer one.
Only ages are kept, in units of five seconds.

## Runs

Passing runs finish with no error; those marked *violation* check one property
that the repository's own words state and the code does not keep.

| Run | Properties | Shows |
|---|---|---|
| `JobQueue` | `TypeOK`, `SoleRunner`, `RowMatchesRunner`, `NoLostJob`, `AttemptsBounded`, `LiveClaimIsRun`, `ImplementsLifecycle`, `EveryJobSettles`, `TerminalIsFinal` | two workers of one machine: a running job is nobody else's, recovery tells live pids from dead, no job is lost or run without limit, all end and stay ended, and the queue implements `JobLifecycle` |
| `TranscriptReview` | `ReadyIsComplete`, `SettledIsTheUsers` | a crash between the two saves never shows; a settled transcript is the user's |
| `MinutesStore` | `DoubledOnlyByRace`, `OwnJobIsFresh`, `DiffersOnlyIfTorn` | with requests, edits and jobs crossing each other, failing and retried: a second active job comes only of two requests that each looked before the other inserted; minutes are no older than the request their job was made for; at rest the document is that of the minutes, unless writers crossed or the one that rendered it failed |
| `MeetingList` | `AudioStays`, `ResultsOnDisk`, `NoOrphanFiles`, `NewestIsShown`, `ListIsCoherent` | uploads lost, conversions cut short and deletions at any time cost no file a row promises and leave none behind if no worker was at it; the list shows what was true together, and the same job as the detail: the summarize job, if asked for after the transcribe job had settled |
| `JobEvents` | `StreamStops`, `PageLearnsTheEnd` | through lost frames, dropped connections, refusals and failed queries nothing reconnects or polls for ever, and the page gets to know the end of the job, or says that it could not |
| `AutoSave` | `SavedIsTrue`, `ClosingLosesNothing`, `ServerNeverGoesBack`, `TypingIsSaved` | the status line is true, a closed tab loses nothing but what is reported as an error or was owed when the screen was left, saves stay in order, and what is typed is saved unless a save fails, the screen is left before the value was sent, or the tab is closed |
| `Summarizer` | `CoversInOrder`, `ChunksFit`, `EveryPartMerged`, `QuotesWereShown` | chunks are the transcript, the minutes are made of all of them, in a bounded number of calls; a quote a prompt showed is kept, and none is made of lines far apart |
| `Recognition` | `MergeKeepsSpeech`, `SplitKeepsAudio`, `StaysExclusive`, `CutInSilence`, `TranscriptIsExact`, `RecognitionEnds` | turns keep all speech but scraps, apart from one another; the transcript is what was said in them, after what the model repeats of its prompt if that is not the whole; the recursion and the loop end |
| `WorkerHealth` | `SchemaComplete`, `BusyIsAlive`, `DeadIsNoticed`, `EveryoneStarts`, `BannerFollows` | side by side on an empty database everybody comes up with every table there; then health and banner tell the truth about the workers |
| `JobQueue_pid_reuse` *violation* | `EveryJobSettles` | a restarted container takes its predecessor for alive |
| `TranscriptReview_rename` *violation* | `RenamesAccepted` | a label without segments blocks every rename |
| `TranscriptReview_reopen` *violation* | `RenamesStay` | a page opened again works on an old copy and writes it back |

Type invariants other than `TypeOK` are no runs' business: they are conjuncts of
the invariants the proofs carry, and proved there.

### Bounds

- *JobQueue.* Two slots: every hazard here is a conflict of two processes, or of
  a process and its predecessor. They share a host, so that recovery meets a
  living neighbour's claims. One job with two attempts, `StaleAfter` 1, three
  ticks, so that a claim goes stale and is claimed again, and two faults: a crash
  in the first run and another in the rerun. Two hosts, more jobs, more of
  anything are left to the proofs, which have no bounds. `MaxFaults` counts
  crashes and signals; `Start` is limited to one more per fault, which never
  keeps a slot down that has no faults left.
- *TranscriptReview.* Two voices, so that a segment can be moved from one to the
  other and a voice left empty; one slot and one crash, after which recovery has
  the job run again. Two processes at one job are `JobQueue`'s question.
- *MinutesStore.* Two requests, two jobs, one edit of the transcript and one of the
  minutes, one crash: the conflicts are between two of them. One slot, so an edit and a
  run may cross; two runs, or two edits, that cross are in the proofs. Its clock takes one
  tick, so jobs are ordered both by
  time and, at a tie, by insertion.
- *MeetingList.* One meeting: files of two meetings have different names, and
  the list takes each meeting by itself. Two jobs, two ticks (jobs written in the
  same second and in different ones), one crash, so that the transcribe job is run
  again under a summarize job; one slot, since two processes at one meeting are in
  the proofs.
- *JobEvents.* Two transport failures, of the stream or of a query, against a
  `MAX_RETRIES` of 1 (3 in the code): below and above the number at which the hook
  gives up. `MaxWire` frames in flight.
- *AutoSave.* Four edits: saved, in flight, pending and one more; two failures.
- *Summarizer.* Four segments of up to three characters, chunks of two: empty,
  fitting, exactly full and oversized ones, up to four chunks, and overlaps 0 to 2,
  so shorter than, equal to and longer than a chunk. A transcript of four characters
  fits one call. One quote per answer, because quotes are verified one by one, of up
  to three segments, so over a seam and over a chunk.
- *Recognition.* Three raw turns between five points in time: apart by less than
  the gap, adjacent, nested, overlapping, equal, and up to twice as long as a turn
  may be, so that pieces are split again on both sides. The audio ends within a
  turn or covers all, and is quiet nowhere or in four places. Halves of odd lengths
  are rounded to a sample. One turn of a recording is heard as one of four texts
  (silence, boilerplate, a unit across words, a plain one), the others as the plain
  one: turns are judged one by one, and on every text by the proof. The model repeats
  any end of a prompt of two terms. A limit of two repeats and of two letters (3 and 12 in the code).
- *WorkerHealth.* An API and two workers, two files of two and one statements;
  two crashes, one missed beat. Five seconds a unit: a beat every 2 (10 s), fresh
  below 6 (30 s), a statement waits up to 1 (`busy_timeout`).

Deadlock is checked except in `AutoSave`, where the user may stop typing or close
the tab, and in `Summarizer` and `Recognition`, where the function returns.

## Assumptions

Constants that name what a deployment or a user must do for a property to hold;
each is TRUE in the passing runs. The last column says how to see that it is
needed: change the value in that configuration and check that property alone.

| Constant | Assumes | To see it needed |
|---|---|---|
| `BoundedJobs` | a run is never older than `worker_stale_claim_minutes` | FALSE in `JobQueue`: `SoleRunner` fails, a starting worker sweeps a live job and runs it as well |
| `AtomicRecovery` | no other worker moves during a recovery loop, which lasts milliseconds at start-up | FALSE in `JobQueue`: `ImplementsLifecycle` fails, a recovery releases what another process runs |
| `~ReusePid` | a restarted worker has a new pid (liveness only) | `JobQueue_pid_reuse` |
| `WholeMigrations` | no process is killed inside `run_migrations` | FALSE in `WorkerHealth`: `EveryoneStarts` fails, a table is there and not recorded |

What needs none of the first two is proved without them: see the table of
theorems.

## Fairness

- *Worker* (`JobQueue!Fairness`): weak fairness of starting, recovering and
  leaving, because `docker-compose.yml` restarts a worker unless it is stopped,
  and the main program is sequential; of claiming, because the loop polls; of the
  work, because every stage returns or raises. Nothing makes a client submit, a
  worker crash, a signal arrive, or a progress write repeat. That a claim is
  `WF` in each slot needs no more: while a slot is idle and a job claimable, the
  slot's poll will find it or another slot will.
- *Work* ends: `Work(s)` is one conjunct for all outcomes of a stage, so fairness
  forces a stage to come to an end and never says which.
- *JobEvents*: the page's timers fire; a query that can be sent is answered in the
  end, or fails (`FailFetch`, a bounded number of times), after which it is sent again
  only by polling; the generator takes its turns, frames are delivered unless the connection drops.
- *AutoSave* (`SFairSpec`): timers fire, requests are handled or fail, answers
  are delivered. Nothing makes the user type, leave or generate.
- *Recognition* (`RSpec`): the stage runs until it returns or raises.
- *WorkerHealth* (`HFairSpec`): processes that ended are started again
  (`restart: unless-stopped`) and run, time passes, heartbeat threads run, the
  page polls. No job need come or end, nothing need fail.

The *violation* run of liveness, `JobQueue_pid_reuse`, uses the same
specification.

## Proofs

Everything below holds for every number of jobs, slots, hosts, attempts, clock
ticks, faults, voices, requests, edits, processes, migrations, segments, turns,
samples, words and letters.
`Orderly == BoundedJobs /\ AtomicRecovery`, and it holds of the reused pids of a
container as well as of fresh ones. The only other facts used are the named
assumptions on the constants, which TLC evaluates in every run: types, and of the
numbers `Interval + 2 * Patience < Fresh` (`WorkerHealth`), `2 * MaxLen >= 5 *
MinLen` and `MinSegment <= MinLen` (`Turns` and `Recognition`: 30 s against 0.3 s, and
0.3 s twice).

| Module | Theorem | States | Assumes |
|---|---|---|---|
| `JobQueueProofs` | `TypeCorrect` | `TypeOK` | |
| | `OrderInvariant` | `OrderInv` | `Orderly` |
| | `ExclusiveRuns` | `SoleRunner` | `Orderly` |
| | `TruthfulRows` | `RowMatchesRunner` | `Orderly` |
| | `NothingLost` | `NoLostJob` | `Orderly` |
| | `SettledForGood` | `TerminalIsFinal` | `Orderly` |
| | `QueueImplementsLifecycle` | `ImplementsLifecycle` | `Orderly` |
| | `RunsAreBounded` | `AttemptsBounded` | `Orderly` |
| | `LiveClaimsRun` | `LiveClaimIsRun` | `Orderly`, `~ReusePid` |
| `TranscriptReviewProofs` | `ReadyHolds` | `ReadyIsComplete` | |
| | `SettledHolds` | `SettledIsTheUsers` | `Orderly` |
| `MinutesStoreProofs` | `FreshHolds` | `OwnJobIsFresh` | |
| | `RaceHolds`, `DocumentHolds` | `DoubledOnlyByRace`, `DiffersOnlyIfTorn` | `Orderly` |
| `MeetingProofs` | `AudioHolds`, `ResultsHold`, `OrphansHold` | `AudioStays`, `ResultsOnDisk`, `NoOrphanFiles` | |
| | `ListHolds` | `ListIsCoherent` | |
| | `NewestHolds` | `NewestIsShown` | `Orderly` |
| `AutoSaveProofs` | `SavedHolds`, `CloseHolds`, `NeverGoesBack` | `SavedIsTrue`, `ClosingLosesNothing`, `ServerNeverGoesBack` | |
| `WorkerHealthProofs` | `TablesFirst`, `BeatingIsAlive`, `GoneIsNoticed` | `SchemaComplete`, `BusyIsAlive`, `DeadIsNoticed` | |
| `SummarizerProofs` | `CoverHolds`, `FitHolds` | `CoversInOrder`, `ChunksFit` | |
| | `MergedHolds`, `QuotesHold` | `EveryPartMerged`, `QuotesWereShown` | |
| `RecognitionProofs` | `MergeHolds`, `SplitHolds` | `MergeKeepsSpeech`, `SplitKeepsAudio` | |
| | `ExclusiveHolds`, `SilenceHolds` | `StaysExclusive`, `CutInSilence` | |
| | `GuardFindsLoops` | `HasRepeatRun(text) <=> Repeats(text)`, for every text | |
| | `ExactHolds` | `TranscriptIsExact` | |

*Ownership.* `SoleRunner` is not inductive: that no second process takes a
running job needs that its row carries the runner's claim (`RowMatchesRunner`);
that the row keeps it needs that the sweep cannot find it stale (`RunsAreFresh`,
from `BoundedJobs`), that a recovery acts only on what is still so
(`TodoCurrent`, `OneRecovery`, from `AtomicRecovery`) and that a pid it finds
dead is no live process's (`IdsUnique`, `PidsGiven`). `NoLostJob` needs that a
progress write of a running process meets a claimed row, which is
`RowMatchesRunner` again. `OrderInv` is the conjunction. The argument has one
step per action, and a lemma (`ReleaseStep`) for the three actions by which a
worker lets go of a job.

*Refinement.* Under `OrderInv` every step of the queue that changes neither the
status nor the runner of a job maps to a stutter (`MapStutter`), and each of the
others to the life-cycle action of the one job it touches: rows set by one
statement (`SetJob`), jobs let go of (`MapRelease`), and the sweep, which can
touch only jobs nobody runs and so changes no status.

*Bounds.* Recoveries look at no attempt count; that attempts stay bounded is
because each one above the limit is paid for by a process that ended
(`AttemptsInv` counts them against `faults`). `ClaimInv`, for `LiveClaimIsRun`,
needs a process to have the job it claimed in hand from the claim to the release.

*The composed modules* rest on lemmas of `JobQueueProofs` about one step
(`WorkerStep`): rows move only between stages of their kind, a job ends only at
the end of its run (`RunsEnd`), a process moves alone and from stage to stage
(`MovesAlone`). With that, `ReadyIsComplete` and the properties of files and list
need no assumption on who runs what: results and files never shrink while the
meeting stays, and a run that stands at a stage has left its results behind it,
also when another process runs the same job. `NewestIsShown` adds that
timestamps do not run ahead of the clock and that a summarize job that is not `early`
was born after its transcribe job was settled for good; `SettledIsTheUsers` that a
settled job has no runner.

*Minutes.* `OwnJobIsFresh`: a job made for a request is read by its runs only
after the request. `DoubledOnlyByRace`: until two requests have raced, the rows in
order of insertion are all settled but the last, and each was written no later than
the next (`RowsOK`); so an unsettled row is always the one a look at the latest job
finds (`UnsettledIsLast`), and while a request is about to insert, none is unsettled.
After a race the property says nothing, and could not: the later of two active jobs
may end, and hide the other from the next request. `DiffersOnlyIfTorn`: while nothing
was torn, the document is that of the one run or PATCH that is half way (`TornOK`), and
apart from the minutes only while somebody is, or while the job that rendered it has
yet to run again or fail (`Owed`), which a crash or a retry between the two leaves.

*Autosave.* At most one call is out; its value lies between the server's and the
editor's, and whichever of status, pending value and timer is set says where the
newest value is. The listener stays for as long as a value is pending or out on the
screen, so what is not saved when the tab closes there had failed; elsewhere what is
neither pending, out nor saved had failed (`StatusOK`).

*Health.* `BusyIsAlive` needs a bound on the age the row will have reached when
the next beat is written: `Left(w)` is the longest time until then, and a beat
may itself be as old as a statement can wait, hence `Interval + 2 * Patience <
Fresh`. `DeadIsNoticed` needs that the row is never younger than the time since a
worker was there. `SchemaComplete` needs that what is recorded was run whole.

*Induction and recursion.* The library's induction theorems take a predicate as a
parameter, which the provers cannot instantiate; one about sets does as well. That
every non-empty set of numbers has a least element follows from `WFMin` and
`NatLessThanWellFounded`, and from that `Induction`, for a set that has 0 and, with
n, n + 1. With it, a recursive function is first shown to exist (built for ever
larger arguments: `FoldExists`, `StepsExist`) and then stands for the `CHOOSE` by
which folds, `FlattenSeq` and recursive definitions are defined. Both modules that
need this state these lemmas.

*Chunks.* `ChunkInv`: the chunks are runs of segments, each following the one
before with its overlap, and so does the chunk under way (`ChunkPlace`); together
they are all that has been read (`ChunkCover`). The overlap taken over is never
measured with the segment it precedes, so a chunk either fits or has no more than
one new segment (`ChunkFits`), and no more than that is promised.

*Minutes of chunks.* `SumInv`: the parts there are belong to the first chunks, each
paid with one or two calls, and at most one more call, an invalid answer, was about
the next (`SumCalls`). `verify_quotes` searches the whole transcript where prompts
showed chunks of it. A quote that runs over lines of one prompt without a gap does so
in the transcript too, because a chunk leaves no segment out (`ChunkConvex`,
`ShownIsVerified`); that all of the transcript was shown is `CoversInOrder` with one
prompt per chunk (`AllShown`).

*Turns.* `MergedUpTo(k, acc)` says what the fold has made of the first k turns:
their speech and no more than short pauses, and that the last turn ends where some
turn of its speaker does. That is inductive because the turns are sorted by start.
For the split, `AudioKept` counts what is shaped with what is still to visit,
leaving out scraps, and so needs that no cut makes one: both sides of the middle
fifth of a turn longer than `MaxLen` are longer than `MinLen`. `CutsKept` follows a
merged turn with a silence to cut in until a piece that ends there is shaped.

*Transcript.* What is said in a turn is what `Heard` returns when the model repeats
the whole prompt, which is removed once; otherwise what it repeats stays in front, as
long as that does not make the whole prompt of it (`HeardIsSaid`). No shaped
turn is shorter than `MIN_SEGMENT_SECONDS` (`KeptPieces`), so the guard judges by
the text alone (`GuardIsRight`). That it judges right, `GuardFindsLoops`, has two
halves: the count `RunAt` exceeds the limit somewhere just when there is a stretch
of equal words that long (`RunsAreMaximal`, `WordLoops`); and a stretch of letters is
a number of copies of its first unit just when every letter of it recurs one unit
later (`CopiesShape`, `CopiesOnly`, `LetterLoops`). `ToldInOrder` then relates the
m-th segment to the m-th turn that is kept.

Only model-checked: liveness (`EveryJobSettles`, `StreamStops`,
`PageLearnsTheEnd`, `TypingIsSaved`, `RecognitionEnds`, `EveryoneStarts`,
`BannerFollows`), which is out of the prover's reach.

## Where the code and its documentation disagree

Three disagreements have a run, and `PROJECT.json` quotes the lines they contradict:

- a container's restart strands its job (`JobQueue_pid_reuse`);
- a speaker without segments blocks every rename (`TranscriptReview_rename`);
- a review page that is left and opened again is seeded from the query cache, which no
  save updates, and writes old values back (`TranscriptReview_reopen`).

The models show more, which the passing runs exclude by an assumption of the
table above or by a condition in the property. Some contradict the repository's own
words too:

- a run longer than the cutoff is swept by a worker that starts, and run twice
  (`BoundedJobs`): `claimed_at` is not renewed, `db.py:317` takes an old claim for a
  dead worker's, and `docker-compose.yml:38-39` calls two workers "safe for the queue";
- overlapping requests for minutes insert two jobs, against `summary.py:25-26` ("should
  not be duplicated by an impatient second click"): check `OneActiveJob` in
  `MinutesStore`;
- an edit that fails between its rendering and its save, or crosses a job or another
  edit, leaves a document that differs from the minutes, against `summary.py:5-6`
  ("the file on disk always matches what the screen showed"); so does a job that fails
  for good between the two: drop `torn` from `DiffersOnlyIfTorn`;
- after the event hook has given up, the page goes on showing the last event and
  ignores the row it polls, against `MeetingPage.tsx:50` ("the fetched row is the
  starting point and the fallback"): check `PageCatchesUp` in `JobEvents`;
- a value typed within the delay before leaving the screen, or on its way then, is lost
  with a tab that closes unwarned, and one whose save failed also on the screen, against
  `useDebouncedSave.ts:7-8` ("blocks the tab from closing while a save is still owed"):
  check `OwedBlocksClosing` and `UnsavedIsGuarded` in `AutoSave`.

The others:

- a job that two recoveries race for may be taken from the worker that runs it
  (`AtomicRecovery`);
- after the stream's `end`, one query is sent and, if it fails, none again: the page
  says that there was an error, and the row it has is still that of a running job
  (`failed` in `PageLearnsTheEnd`);
- minutes asked for while their transcribe job is run again, or before its release, are
  hidden in the list and the detail by what that job writes later (drop `~early` from
  `NewestIsShown`). The pages offer the button later; the API does not ask;
- a request that finds an active job is handed it, though that job may have read
  the transcript before the edits the request is about: `OwnJobIsFresh` speaks
  only of the job a request inserted;
- a transcript can be edited before its job is released, and a rerun writes over
  the edit: `SettledIsTheUsers` begins with the release;
- a meeting deleted while a worker runs it leaves files that nothing removes:
  drop `~inUse` from `NoOrphanFiles`; so does an upload whose commit fails;
- "generate" does not wait for the saves it flushes, so its job may read the
  transcript before they arrive (`ReviewPage.tsx:103`);
- `db.py:92` says of migrations that an applied one is never re-run; a process
  killed after a CREATE and before the record leaves one that every later start
  runs again, and fails at (`WholeMigrations`);
- `SPEC.md:250` and the docstring at `asr.py:67` speak of repeated tokens, but the
  second pass takes the spaces out and counts letters, also within one word: a
  turn in which somebody says 10000 is dropped. `Repeats` states the code's rule;
- `asr.py:210` has the prompt dropped from what the model answers, "or every segment
  starts with the glossary"; if the model repeats only the end of it, that stays, and
  a turn in which nothing was said is stored with it. If it repeats nothing and a
  speaker begins with the very terms, they are lost;
- a quote may run from one speaker's line into the next one's and be kept;
- a turn shorter than `MIN_SEGMENT_SECONDS` cannot reach the guard, since
  `shape_turns` has dropped it already (`KeptPieces` is proved);
- a chunk that begins with an overlap may exceed `max_chars` by it: drop the
  premise of `ChunksFit`;
- the right-hand piece of a turn split twice looks for silence in the envelope of
  the whole turn, from its start (`diarize.py:174`), where `split_long_turn`
  promises its quietest point: extend `CutInSilence` to the pieces.

## Not modelled

- What ASR, diarization and the language model return, beyond returning or
  raising, the prompt repeated in front, and the texts of `Recognition`:
  third-party inference. Confidence values, loading of models.
- Layout of the document (`docgen`), of the pages and of logs; translation of
  labels; types generated from the models. They keep no state, and a model of
  them would restate them.
- `thai.py` rule by rule: normalisation of strings; `Summarizer` has its effect.
- What ffprobe answers; `audio.slice_wav`, which nothing calls. The 400 characters
  of `build_prompt` are counted in terms.
- Parsing of form fields, the disk-space test of an upload, range requests.
- SQLite itself: a statement is atomic (WAL, `BEGIN IMMEDIATE` in the claim), a
  transaction is one step. A "database is locked" error is a `Crash` or a stage
  that raises.
- A pid reused by an unrelated process of the same host, beyond `ReusePid`.
- The clock running backwards.
- A `.docx` cut off in the middle of its writing: rendering is one step.
- A quote that begins or ends within a segment, and one found by accident across the
  joint of two.
- `stages.chain_summarize`, which `tests/test_transcribe_stage.py:209-240` describe and
  no file under `sarai/` has.

## Plan

What could be added, most useful first:

1. `JobEvents` with a second job on an open page, whose first render still has
   the first job's event (`MeetingPage.tsx:45`).
2. `MinutesPage`: seeded from the query cache like the review page, it may write
   old minutes over regenerated ones; composed with `MinutesStore` and `AutoSave`.
3. Fairness between jobs in the queue: an old job is not overtaken for ever, ties
   within a second included.
4. The algorithms left out: Buddhist years (`thai.be_to_ce`), the overriding of
   title and date in `summarize`.
5. Proofs: what of `JobEvents` is safety (one generator per socket, frames in
   order), which its two liveness properties rest on.
