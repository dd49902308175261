----------------------- MODULE TranscriptReviewProofs -----------------------
(***************************************************************************)
(* Proofs about the transcript under review, for every number of meetings, *)
(* speakers, slots, hosts, attempts, faults and ticks.                     *)
(***************************************************************************)
EXTENDS TranscriptReview, JobQueueProofs

TranscriptRow == [there : BOOLEAN, edited : BOOLEAN, keys : Keys]
Copy == [there : BOOLEAN, keys : Keys, speakers : [Voices -> Label]]

TTypeOK ==
  /\ transcript \in [Job -> TranscriptRow]
  /\ labels \in [Job -> [Voices -> Label]]
  /\ cache \in [Job -> Copy]
  /\ page \in [Job -> Copy]
  /\ rejected \in BOOLEAN

\* The result of a job: a transcript with segments, a label for every speaker.
Stored(j) == transcript[j].there /\ transcript[j].keys # {}
Labelled(j) == \A k \in Voices : labels[j][k] # "none"

\* A run has stored what its place in the pipeline says, a job shown as ready
\* all of it.
RunsStore ==
  \A s \in Slot : \A j \in Job :
    Runs(s, j) /\ Exists(j) =>
      /\ pc[s] \in {"stored", "saved"} => Stored(j)
      /\ pc[s] = "saved" => Labelled(j)
ReadyStored ==
  \A j \in Job : jobs[j].stage = "awaiting_review" => Stored(j) /\ Labelled(j)

TInv == TypeInv /\ TTypeOK /\ HeldKind /\ RunsStore /\ ReadyStored

LEMMA TInvInit == TInit => TInv
<1> SUFFICES ASSUME TInit PROVE TInv
  OBVIOUS
<1>1. TypeInv
  BY TypeInvInit DEF TInit
<1>2. TTypeOK
  BY DEF TInit, TTypeOK, NoTranscript, NoCopy, TranscriptRow, Copy, Keys, Label
<1>3. HeldKind /\ RunsStore /\ ReadyStored
  BY DEF TInit, Init, Blank, HeldKind, RunsStore, ReadyStored, Runs, Running
<1> QED BY <1>1, <1>2, <1>3 DEF TInv

\* The queue's part of a step is a step of the queue.
LEMMA TProjects == [TNext]_vars => [Next]_qvars
BY DEF TNext, DeleteMeeting, User, OpenPage, Refetch, ClosePage, Evict, EditSegments,
       RenameSpeaker, StoreTranscript, SaveSpeakers, OtherWork, Next, Client, Worker, Work,
       vars

LEMMA TypesNext == TInv /\ [TNext]_vars => TTypeOK'
<1> SUFFICES ASSUME TInv, [TNext]_vars PROVE TTypeOK'
  OBVIOUS
<1>0. TTypeOK
  BY DEF TInv
<1>a. /\ NoTranscript \in TranscriptRow /\ NoCopy \in Copy
      /\ \A k \in Keys, e \in BOOLEAN : [there |-> TRUE, edited |-> e, keys |-> k] \in TranscriptRow
  BY DEF NoTranscript, NoCopy, TranscriptRow, Copy, Keys, Label
<1>b. ASSUME NEW j \in Job
      PROVE  /\ transcript[j].keys \in Keys /\ page[j].keys \in Keys
             /\ page[j].speakers \in [Voices -> Label] /\ labels[j] \in [Voices -> Label]
  <2>1. transcript[j] \in TranscriptRow /\ page[j] \in Copy
    BY <1>0 DEF TTypeOK
  <2> QED BY <1>0, <2>1 DEF TTypeOK, TranscriptRow, Copy
<1>1. ASSUME NEW j \in Job, DeleteMeeting(j) PROVE TTypeOK'
  <2>1. [k \in Voices |-> "none"] \in [Voices -> Label]
    BY DEF Label
  <2> QED BY <1>0, <1>1, <1>a, <2>1 DEF DeleteMeeting, TTypeOK
<1>2. ASSUME NEW j \in Job, OpenPage(j) \/ Refetch(j) \/ ClosePage(j) \/ Evict(j)
      PROVE  TTypeOK'
  <2>1. Fetched(j) \in Copy
    BY <1>b DEF Fetched, Copy
  <2>2. CASE OpenPage(j)
    <3>1. cache' \in [Job -> Copy]
      BY <1>0, <2>1, <2>2 DEF OpenPage, TTypeOK
    <3>2. page' \in [Job -> Copy]
      BY <1>0, <2>2, <3>1 DEF OpenPage, TTypeOK
    <3> QED BY <1>0, <2>2, <3>1, <3>2 DEF OpenPage, TTypeOK
  <2>3. CASE Refetch(j) \/ ClosePage(j) \/ Evict(j)
    BY <1>0, <1>a, <2>1, <2>3 DEF Refetch, ClosePage, Evict, TTypeOK
  <2> QED BY <1>2, <2>2, <2>3
<1>3. ASSUME NEW j \in Job, EditSegments(j) PROVE TTypeOK'
  <2>1. PICK keys \in (SUBSET page[j].keys) \ {{}} :
          /\ page' = [page EXCEPT ![j].keys = keys]
          /\ transcript' = [transcript EXCEPT ![j] =
                              [there |-> TRUE, edited |-> TRUE, keys |-> keys]]
    BY <1>3 DEF EditSegments
  <2>2. keys \in Keys
    BY <1>b, <2>1 DEF Keys
  <2>3. page' \in [Job -> Copy]
    <3>1. [page[j] EXCEPT !.keys = keys] \in Copy
      BY <1>0, <2>2 DEF TTypeOK, Copy
    <3> QED BY <1>0, <2>1, <3>1 DEF TTypeOK
  <2>4. transcript' \in [Job -> TranscriptRow]
    BY <1>0, <1>a, <2>1, <2>2 DEF TTypeOK
  <2> QED BY <1>0, <1>3, <2>3, <2>4 DEF EditSegments, TTypeOK
<1>4. ASSUME NEW j \in Job, RenameSpeaker(j) PROVE TTypeOK'
  <2>1. PICK k \in page[j].keys, l \in {"raw", "named"} :
          LET sent == [page[j].speakers EXCEPT ![k] = l]
          IN /\ page' = [page EXCEPT ![j].speakers = sent]
             /\ \/ labels' = [labels EXCEPT ![j] =
                      [i \in Voices |-> IF sent[i] = "none" THEN @[i] ELSE sent[i]]]
                \/ labels' = labels
             /\ rejected' \in BOOLEAN
    BY <1>0, <1>4 DEF RenameSpeaker, TTypeOK
  <2> DEFINE sent == [page[j].speakers EXCEPT ![k] = l]
  <2>2. sent \in [Voices -> Label]
    BY <1>b DEF Label
  <2>3. page' = [page EXCEPT ![j].speakers = sent]
    BY <2>1
  <2>4. \/ labels' = [labels EXCEPT ![j] =
                        [i \in Voices |-> IF sent[i] = "none" THEN labels[j][i] ELSE sent[i]]]
        \/ labels' = labels
    BY <1>0, <2>1 DEF TTypeOK
  <2> HIDE DEF sent
  <2>5. page' \in [Job -> Copy]
    <3>1. [page[j] EXCEPT !.speakers = sent] \in Copy
      BY <1>0, <2>2 DEF TTypeOK, Copy
    <3> QED BY <1>0, <2>3, <3>1 DEF TTypeOK
  <2>6. labels' \in [Job -> [Voices -> Label]]
    <3>1. [i \in Voices |-> IF sent[i] = "none" THEN labels[j][i] ELSE sent[i]]
            \in [Voices -> Label]
      BY <1>b, <2>2
    <3> QED BY <1>0, <2>4, <3>1 DEF TTypeOK
  <2> QED BY <1>0, <1>4, <2>1, <2>5, <2>6 DEF RenameSpeaker, TTypeOK
<1>5. ASSUME NEW s \in Slot, StoreTranscript(s) \/ SaveSpeakers(s) PROVE TTypeOK'
  <2>1. [k \in Voices |-> "raw"] \in [Voices -> Label]
    BY DEF Label
  <2> QED BY <1>0, <1>5, <1>a, <2>1 DEF StoreTranscript, SaveSpeakers, TTypeOK
<1>6. CASE UNCHANGED dvars
  BY <1>0, <1>6 DEF dvars, TTypeOK
<1> QED BY <1>1, <1>2, <1>3, <1>4, <1>5, <1>6 DEF TNext, User, OtherWork, vars

\* No step takes a transcript or a label away from a meeting that stays, be it
\* an edit, a rename or another run.
LEMMA ResultsStay ==
  ASSUME TInv, [TNext]_vars, NEW j \in Job, Exists(j)'
  PROVE  /\ Stored(j) => Stored(j)'
         /\ Labelled(j) => Labelled(j)'
<1>0. TTypeOK /\ TypeOK /\ HeldKind
  BY DEF TInv, TypeInv
<1>1. ASSUME NEW i \in Job, DeleteMeeting(i) PROVE Stored(j)' = Stored(j) /\ Labelled(j)' = Labelled(j)
  <2>1. i # j
    BY <1>0, <1>1 DEF DeleteMeeting, DeleteJob, Blank, TypeOK, Exists, NoRow
  <2> QED BY <1>0, <1>1, <2>1 DEF DeleteMeeting, Stored, Labelled, TTypeOK
<1>2. ASSUME NEW i \in Job, EditSegments(i) PROVE (Stored(j) => Stored(j)') /\ labels' = labels
  <2>1. PICK keys \in (SUBSET page[i].keys) \ {{}} :
          transcript' = [transcript EXCEPT ![i] =
                           [there |-> TRUE, edited |-> TRUE, keys |-> keys]]
    BY <1>2 DEF EditSegments
  <2>2. transcript'[j] = IF i = j THEN [there |-> TRUE, edited |-> TRUE, keys |-> keys]
                                  ELSE transcript[j]
    BY <1>0, <2>1 DEF TTypeOK
  <2>3. keys # {}
    BY <2>1
  <2>4. Stored(j) => Stored(j)'
    BY <2>2, <2>3 DEF Stored
  <2>5. labels' = labels
    BY <1>2 DEF EditSegments
  <2> QED BY <2>4, <2>5
<1>3. ASSUME NEW i \in Job, RenameSpeaker(i)
      PROVE  transcript' = transcript /\ (Labelled(j) => Labelled(j)')
  <2>1. PICK k \in page[i].keys, l \in {"raw", "named"} :
          LET sent == [page[i].speakers EXCEPT ![k] = l]
          IN \/ labels' = [labels EXCEPT ![i] =
                      [v \in Voices |-> IF sent[v] = "none" THEN @[v] ELSE sent[v]]]
             \/ labels' = labels
    BY <1>3 DEF RenameSpeaker
  <2>2. \A v \in Voices : labels[j][v] # "none" => labels'[j][v] # "none"
    BY <1>0, <2>1 DEF TTypeOK
  <2>3. transcript' = transcript
    BY <1>3 DEF RenameSpeaker
  <2> QED BY <2>2, <2>3 DEF Labelled
<1>4. ASSUME NEW s \in Slot, StoreTranscript(s)
      PROVE  (Stored(j) => Stored(j)') /\ labels' = labels
  BY <1>0, <1>4 DEF StoreTranscript, Stored, TTypeOK
<1>5. ASSUME NEW s \in Slot, SaveSpeakers(s)
      PROVE  transcript' = transcript /\ (Labelled(j) => Labelled(j)')
  BY <1>0, <1>5 DEF SaveSpeakers, Labelled, TTypeOK
<1>6. CASE UNCHANGED <<transcript, labels>>
  BY <1>6 DEF Stored, Labelled
<1> QED
  BY <1>1, <1>2, <1>3, <1>4, <1>5, <1>6
  DEF TNext, User, OpenPage, Refetch, ClosePage, Evict, OtherWork, dvars, vars, Stored, Labelled

LEMMA TInvNext == TInv /\ [TNext]_vars => TInv'
<1> SUFFICES ASSUME TInv, [TNext]_vars PROVE TInv'
  OBVIOUS
<1> USE ConstantsAssumption, VoicesAssumption
<1>0. /\ TypeInv /\ TypeOK /\ TTypeOK /\ HeldKind /\ RunsStore /\ ReadyStored
      /\ TypeInv' /\ TypeOK' /\ TTypeOK' /\ [Next]_qvars
  BY TypesNext, TProjects, TypeInvNext DEF TInv, TypeInv
<1>1. ASSUME UNCHANGED <<pc, held>>,
             \A j \in Job : /\ Exists(j)' /\ jobs[j].stage # "unborn" =>
                                 Exists(j) /\ jobs'[j].stage = jobs[j].stage
                            /\ jobs[j].stage # "unborn" => jobs'[j].stage # "unborn"
                            /\ jobs[j].stage = "unborn" =>
                                 jobs'[j].stage \in {"unborn", "queued"}
      PROVE  TInv'
  <2>1. HeldKind'
    BY <1>0, <1>1 DEF HeldKind
  <2>2. RunsStore'
    <3> SUFFICES ASSUME NEW s \in Slot, NEW j \in Job, Runs(s, j), Exists(j)'
                 PROVE  /\ pc[s] \in {"stored", "saved"} => Stored(j)'
                        /\ pc[s] = "saved" => Labelled(j)'
      BY <1>1 DEF RunsStore, Runs
    <3>1. jobs[j].stage # "unborn"
      BY <1>0 DEF HeldKind, Runs
    <3> QED BY <1>0, <1>1, <3>1, ResultsStay DEF RunsStore
  <2>3. ReadyStored'
    <3> SUFFICES ASSUME NEW j \in Job, jobs'[j].stage = "awaiting_review"
                 PROVE  Stored(j)' /\ Labelled(j)'
      BY DEF ReadyStored
    <3>1. Exists(j)' /\ jobs[j].stage = "awaiting_review"
      BY <1>1 DEF Exists, NoRow
    <3> QED BY <1>0, <3>1, ResultsStay DEF ReadyStored
  <2> QED BY <1>0, <2>1, <2>2, <2>3 DEF TInv
<1>2. ASSUME NEW s \in Slot, Worker(s),
             pc'[s] = "stored" /\ pc[s] # "stored" => Stored(held[s])',
             pc'[s] = "saved" /\ pc[s] # "saved" => Labelled(held[s])'
      PROVE  TInv'
  <2>1. RowsMove /\ RunsEnd(s) /\ MovesAlone(s) /\ HeldKind'
    BY <1>0, <1>2, WorkerStep DEF Moved
  <2>2. \A j \in Job : Exists(j)' <=> Exists(j)
    BY <2>1 DEF RowsMove, Exists, Stage, Terminal, NoRow
  <2>3. RunsStore'
    <3> SUFFICES ASSUME NEW t \in Slot, NEW j \in Job, Runs(t, j)', Exists(j)'
                 PROVE  /\ pc'[t] \in {"stored", "saved"} => Stored(j)'
                        /\ pc'[t] = "saved" => Labelled(j)'
      BY DEF RunsStore
    <3>1. CASE t # s
      <4>1. Runs(t, j) /\ pc'[t] = pc[t]
        BY <2>1, <3>1 DEF MovesAlone, Runs
      <4> QED BY <1>0, <2>2, <4>1, ResultsStay DEF RunsStore
    <3>2. CASE t = s /\ pc'[s] = "stored"
      <4>1. held[s] = j /\ held'[s] = j /\ pc[s] \in Before("stored")
        BY <2>1, <3>2 DEF MovesAlone, Runs, Running
      <4>2. pc[s] = "stored" => Runs(s, j)
        BY <4>1 DEF Runs, Running
      <4> QED BY <1>0, <1>2, <2>2, <3>2, <4>1, <4>2, ResultsStay DEF RunsStore
    <3>3. CASE t = s /\ pc'[s] = "saved"
      <4>1. held[s] = j /\ held'[s] = j /\ pc[s] \in {"stored", "saved"}
        BY <2>1, <3>3 DEF MovesAlone, Runs, Running, Before
      <4>2. Runs(s, j)
        BY <4>1 DEF Runs, Running
      <4> QED BY <1>0, <1>2, <2>2, <3>3, <4>1, <4>2, ResultsStay DEF RunsStore
    <3> QED BY <3>1, <3>2, <3>3
  <2>4. ReadyStored'
    <3> SUFFICES ASSUME NEW j \in Job, jobs'[j].stage = "awaiting_review"
                 PROVE  Stored(j)' /\ Labelled(j)'
      BY DEF ReadyStored
    <3>1. Exists(j)' /\ Exists(j)
      BY <2>2 DEF Exists, NoRow
    <3>2. jobs[j].stage = "awaiting_review" \/ (Runs(s, j) /\ pc[s] = "saved")
      BY <2>1 DEF RunsEnd
    <3> QED BY <1>0, <3>1, <3>2, ResultsStay DEF ReadyStored, RunsStore
  <2> QED BY <1>0, <2>1, <2>3, <2>4 DEF TInv
<1>3. ASSUME NEW j \in Job, CreateJob(j) \/ DeleteMeeting(j) PROVE TInv'
  BY <1>0, <1>1, <1>3
  DEF CreateJob, DeleteMeeting, DeleteJob, Stamped, Blank, TypeOK, Exists, NoRow
<1>4. CASE UNCHANGED <<jobs, pc, held>>
  BY <1>1, <1>4 DEF Exists, NoRow
<1>5. ASSUME NEW s \in Slot, StoreTranscript(s) PROVE TInv'
  <2>1. held[s] \in Job
    BY <1>0, <1>5 DEF StoreTranscript, HeldKind, Running
  <2>2. Worker(s) /\ pc'[s] = "stored"
    BY <1>0, <1>5 DEF StoreTranscript, Store, Worker, Work, TypeOK
  <2>3. Stored(held[s])'
    BY <1>0, <1>5, <2>1 DEF StoreTranscript, Store, Stored, TTypeOK
  <2> QED BY <1>2, <2>2, <2>3
<1>6. ASSUME NEW s \in Slot, SaveSpeakers(s) PROVE TInv'
  <2>1. held[s] \in Job
    BY <1>0, <1>6 DEF SaveSpeakers, Save, HeldKind, Running
  <2>2. Worker(s) /\ pc'[s] = "saved"
    BY <1>0, <1>6 DEF SaveSpeakers, Save, Worker, Work, TypeOK
  <2>3. Labelled(held[s])'
    BY <1>0, <1>6, <2>1 DEF SaveSpeakers, Save, Labelled, TTypeOK
  <2> QED BY <1>2, <2>2, <2>3
<1>7. ASSUME NEW s \in Slot, OtherWork(s) PROVE TInv'
  <2>1. Worker(s)
    BY <1>7 DEF OtherWork, Worker, Work
  <2>2. pc'[s] = pc[s] \/ pc'[s] \notin {"stored", "saved"}
    <3>1. CASE Advance(s)
      BY <1>0, <3>1 DEF Advance, Next1, TypeOK
    <3>2. CASE \/ Repeat(s) \/ Finish(s) \/ Retry(s) \/ GiveUp(s) \/ Start(s) \/ Recovery(s)
               \/ Poll(s) \/ (\E j \in Job : ClaimJob(s, j))
               \/ Signal(s) \/ Exit(s) \/ Crash(s)
      BY <1>0, <3>2
      DEF Repeat, Finish, Retry, GiveUp, Start, Recovery, Poll, SweepStale, ReadClaims,
          EnterLoop, RecoverOne, ClaimJob, Signal, Exit, Crash, TypeOK, qvars
    <3> QED BY <1>7, <3>1, <3>2 DEF OtherWork
  <2> QED BY <1>2, <2>1, <2>2
<1> QED
  BY <1>3, <1>4, <1>5, <1>6, <1>7
  DEF TNext, User, OpenPage, Refetch, ClosePage, Evict, EditSegments, RenameSpeaker, Tick,
      vars, qvars
-----------------------------------------------------------------------------
LEMMA TInvariant == TSpec => []TInv
BY TInvInit, TInvNext, PTL DEF TSpec

\* A meeting shown as ready for review has a transcript and a label for every
\* speaker in it, whatever crashed, ran again or was edited, and on any
\* deployment.
THEOREM ReadyHolds == TSpec => []ReadyIsComplete
<1>1. TInv => ReadyIsComplete
  <2> SUFFICES ASSUME TInv, NEW j \in Job, jobs[j].stage = "awaiting_review"
               PROVE  /\ transcript[j].there /\ transcript[j].keys # {}
                      /\ \A k \in transcript[j].keys : labels[j][k] # "none"
    BY DEF ReadyIsComplete
  <2>1. Stored(j) /\ Labelled(j)
    BY DEF TInv, ReadyStored
  <2>2. transcript[j].keys \subseteq Voices
    BY DEF TInv, TTypeOK, TranscriptRow, Keys
  <2> QED BY <2>1, <2>2 DEF Stored, Labelled
<1> QED BY <1>1, TInvariant, PTL

\* While runs are bounded by the cutoff and recoveries undisturbed, no step of
\* a worker writes the transcript or the labels of a settled job.
THEOREM SettledHolds == ASSUME Orderly PROVE TSpec => SettledIsTheUsers
<1>1. TSpec => Spec
  <2>1. TInit => Init
    BY DEF TInit
  <2> QED BY <2>1, TProjects, PTL DEF TSpec, Spec
<1>2. TInv /\ OrderInv /\ [TNext]_vars =>
        [\A j \in Job : jobs[j].stage \in Terminal /\ pc' # pc =>
           transcript'[j] = transcript[j] /\ labels'[j] = labels[j]]_vars
  <2> SUFFICES ASSUME TInv, OrderInv, TNext, NEW j \in Job,
                      jobs[j].stage \in Terminal, pc' # pc
               PROVE  transcript'[j] = transcript[j] /\ labels'[j] = labels[j]
    OBVIOUS
  <2>0. TypeOK /\ TTypeOK /\ HeldKind
    BY DEF TInv, TypeInv
  <2>1. \A s \in Slot : ~Runs(s, j)
    BY RunnerUnsettled DEF Unsettled, Exists, NoRow, Terminal
  <2>2. ASSUME NEW s \in Slot, StoreTranscript(s) \/ SaveSpeakers(s)
        PROVE  transcript'[j] = transcript[j] /\ labels'[j] = labels[j]
    <3>1. held[s] # j
      BY <2>1, <2>2 DEF StoreTranscript, SaveSpeakers, Save, Runs, Running
    <3> QED BY <2>0, <2>2, <3>1 DEF StoreTranscript, SaveSpeakers, TTypeOK
  <2>3. CASE pc' = pc
    BY <2>3
  <2>4. CASE UNCHANGED dvars
    BY <2>4 DEF dvars
  <2> QED
    BY <2>2, <2>3, <2>4
    DEF TNext, CreateJob, DeleteMeeting, DeleteJob, User, OpenPage, Refetch, ClosePage, Evict,
        EditSegments, RenameSpeaker, OtherWork, Tick, qvars
<1> QED BY <1>1, <1>2, TInvariant, OrderInvariant, PTL DEF TSpec, SettledIsTheUsers
=============================================================================
