-------------------------------- MODULE Turns --------------------------------
(***************************************************************************)
(* Turn shaping (sarai/worker/diarize.py): the raw speaker turns of the    *)
(* diarization are merged across short pauses, long ones split where it is *)
(* quiet, and scraps dropped.  shape_turns is a state machine here: the    *)
(* merge is one step, each call of split_long_turn another.                *)
(*                                                                         *)
(* Time is in samples.  A sample of the envelope is quiet or loud.         *)
(***************************************************************************)
EXTENDS Integers, Sequences, FiniteSets, FiniteSetsExt, SequencesExt

CONSTANTS
  Speakers,
  RawTimes,    \* where raw turns start and end
  MaxRaw,      \* bound: raw turns
  Gap,         \* MERGE_GAP_SECONDS
  MaxLen,      \* MAX_TURN_SECONDS
  MinLen,      \* MIN_TURN_SECONDS
  MinPiece,    \* MIN_SPLIT_PIECE_SECONDS
  Samples,     \* lengths of the decoded audio, 0 if there is none
  QuietSets    \* where it may be quiet

ASSUME TurnsAssumption ==
  /\ RawTimes \subseteq Nat
  /\ {MaxRaw, Gap, MaxLen, MinLen, MinPiece} \subseteq Nat
  \* Both ends of the middle fifth of a long turn leave more than a scrap.
  /\ 2 * MaxLen >= 5 * MinLen /\ MinLen > 0
  /\ MinPiece >= 1
  /\ Samples \subseteq Nat /\ QuietSets \subseteq SUBSET Nat

VARIABLES
  raw,       \* the turns of the diarization, sorted by (start, end)
  samples,   \* length of the decoded audio
  quiet,     \* its quiet samples
  merged,    \* what merge_turns made of them
  todo,      \* turns and pieces split_long_turn has yet to visit, in order
  shaped,    \* the result so far
  step       \* "merge", "split", "done"

vars == <<raw, samples, quiet, merged, todo, shaped, step>>

Turn == {t \in [start: RawTimes, end: RawTimes, speaker: Speakers] : t.start < t.end}
Duration(t) == t.end - t.start
Before(a, b) == a.start < b.start \/ (a.start = b.start /\ a.end <= b.end)
Sorted(s) == \A k \in 1 .. Len(s) - 1 : Before(s[k], s[k + 1])

Init == /\ \E n \in 0 .. MaxRaw : raw \in {s \in [1 .. n -> Turn] : Sorted(s)}
        /\ samples \in Samples /\ quiet \in QuietSets
        /\ merged = <<>> /\ todo = <<>> /\ shaped = <<>>
        /\ step = "merge"
-----------------------------------------------------------------------------
JoinNoMax(t, acc) ==
  LET last == acc[Len(acc)] IN
  IF acc # <<>> /\ t.speaker = last.speaker /\ t.start - last.end < Gap
    THEN [acc EXCEPT ![Len(acc)].end = t.end]
    ELSE Append(acc, t)

\* One turn of the loop of merge_turns: the same speaker after less than Gap.
Join(t, acc) ==
  LET last == acc[Len(acc)] IN
  IF acc # <<>> /\ t.speaker = last.speaker /\ t.start - last.end < Gap
    THEN [acc EXCEPT ![Len(acc)].end = Max({last.end, t.end})]
    ELSE Append(acc, t)

WithWholeEnvelope(t) ==
  [start |-> t.start, end |-> t.end, speaker |-> t.speaker, from |-> 0, to |-> samples]

\* The slice of the envelope shape_turns hands to split_long_turn with a turn.
\* All its pieces get the same one.
WithEnvelope(t) ==
  [start |-> t.start, end |-> t.end, speaker |-> t.speaker,
   from |-> t.start, to |-> Min({samples, t.end})]

Merge == /\ step = "merge"
         /\ merged' = FoldLeft(LAMBDA acc, t : Join(t, acc), <<>>, raw)
         /\ todo' = [k \in DOMAIN merged' |-> WithEnvelope(merged'[k])]
         /\ step' = "split"
         /\ UNCHANGED <<raw, samples, quiet, shaped>>

\* The last line of shape_turns: no scraps.
Keep(t) == Duration(t) >= MinLen

AsTurn(p) == [start |-> p.start, end |-> p.end, speaker |-> p.speaker]

\* A turn that is short enough.
Visit == /\ step = "split"
         /\ todo # <<>> /\ Duration(Head(todo)) <= MaxLen
         /\ shaped' = IF Keep(Head(todo)) THEN Append(shaped, AsTurn(Head(todo))) ELSE shaped
         /\ todo' = Tail(todo)
         /\ UNCHANGED <<raw, samples, quiet, merged, step>>

\* Where quietest_offset looks: the middle fifth of a turn of length d, as far
\* as an envelope of length l has it.
Window(d, l) == Max({MinPiece, (2 * d) \div 5})
                  .. Min({l, d - MinPiece, (3 * d) \div 5}) - 1

OffsetAnywhere(p) ==
  LET d == Duration(p)
      window == {k \in 0 .. p.to - p.from - 1 : p.from + k \in quiet}
  IN IF window = {} THEN Min({MaxLen, d \div 2}) ELSE Min(window)

\* Where split_long_turn cuts: at the first of the quietest samples of the
\* window, counted from the start of the envelope and not of the piece; with
\* nothing to search in the middle, and at max_len at the latest.
Offset(p) ==
  LET d      == Duration(p)
      window == Window(d, p.to - p.from)
      best   == {k \in window : p.from + k \in quiet}
  IN CASE window = {} -> Min({MaxLen, d \div 2})
       [] best # {}   -> Min(best)
       [] OTHER       -> Min(window)

SplitOverlap ==
  /\ step = "split"
  /\ todo # <<>> /\ Duration(Head(todo)) > MaxLen
  /\ LET p   == Head(todo)
         cut == p.start + Offset(p)
     IN todo' = <<[p EXCEPT !.end = cut], [p EXCEPT !.start = cut - 1]>> \o Tail(todo)
  /\ UNCHANGED <<raw, samples, quiet, merged, shaped, step>>

Split == /\ step = "split"
         /\ todo # <<>> /\ Duration(Head(todo)) > MaxLen
         /\ LET p   == Head(todo)
                cut == p.start + Offset(p)
            IN todo' = <<[p EXCEPT !.end = cut], [p EXCEPT !.start = cut]>> \o Tail(todo)
         /\ UNCHANGED <<raw, samples, quiet, merged, shaped, step>>

Return == /\ step = "split" /\ todo = <<>>
          /\ step' = "done"
          /\ UNCHANGED <<raw, samples, quiet, merged, todo, shaped>>

Next == Merge \/ Visit \/ Split \/ Return
-----------------------------------------------------------------------------
Spoken(turns, s) ==
  UNION {t.start .. t.end - 1 : t \in {u \in turns : u.speaker = s}}
Exclusive(turns) ==
  \A m, n \in DOMAIN turns : m < n => turns[m].end <= turns[n].start

\* Merging loses nobody's speech and gives nobody more than pauses shorter than
\* Gap between turns of their own.
MergeKeepsSpeech ==
  step # "merge" =>
    \A s \in Speakers :
      /\ Spoken(ToSet(raw), s) \subseteq Spoken(ToSet(merged), s)
      /\ \A x \in Spoken(ToSet(merged), s) \ Spoken(ToSet(raw), s) :
           \E a, b \in ToSet(raw) :
             /\ a.speaker = s /\ b.speaker = s
             /\ a.end <= x /\ x < b.start /\ b.start - a.end < Gap

\* Splitting neither loses nor invents audio, in pieces short enough for one
\* call of speech recognition: only the merged turns that are scraps as a whole
\* are dropped, and no piece of a longer one.
SplitKeepsAudio ==
  step = "done" =>
    /\ \A s \in Speakers :
         Spoken(ToSet(shaped), s) =
           Spoken({t \in ToSet(merged) : Duration(t) >= MinLen}, s)
    /\ \A k \in DOMAIN shaped : Duration(shaped[k]) <= MaxLen

\* What exclusive diarization promises is kept: no moment is transcribed twice,
\* and the turns are in the order of the recording.
StaysExclusive == Exclusive(raw) => Exclusive(shaped)

\* A turn too long for one call is cut in a silence when its middle fifth has
\* one: a word is cut only when there is nothing quieter to cut.  (Of the turns
\* as merged; a piece that is split again searches the envelope of the whole.)
CutInSilence ==
  step = "done" =>
    \A t \in {u \in ToSet(merged) : Duration(u) > MaxLen} :
      LET silence == {x \in quiet : x < samples /\ x - t.start \in Window(Duration(t), Duration(t))}
      IN silence # {} =>
           \E p \in ToSet(shaped) : p.speaker = t.speaker /\ p.end \in silence
=============================================================================
