----------------------------- MODULE Recognition -----------------------------
(***************************************************************************)
(* Speech recognition turn by turn (diarize_and_transcribe, worker/asr.py) *)
(* of the turns that shape_turns returned: what is heard in a turn, the    *)
(* guard against hallucinations, and the segments that are stored.         *)
(*                                                                         *)
(* A text is a sequence of words, a word a sequence of letters, after NFC, *)
(* strip and lower.  Progress writes are JobQueue's.                       *)
(***************************************************************************)
EXTENDS Turns

CONSTANTS
  Texts,        \* what a speaker may say, or the model make of silence
  Plain,        \* one of them
  MaxOdd,       \* bound: turns of a recording with another text
  Boilerplate,  \* texts the model makes of silence
  MaxRepeats,   \* MAX_REPEATS
  MaxUnit,      \* the longest run of letters has_repeat_run looks for, 12
  MinSegment,   \* MIN_SEGMENT_SECONDS
  Glossary,     \* the meeting's glossary and the names of its attendees
  MaxPrompt     \* terms of them that fit in the prompt

ASSUME RecognitionAssumption ==
  /\ Texts \subseteq Seq(Seq(Nat)) /\ Plain \in Texts
  /\ Glossary \in Seq(Seq(Nat))
  /\ {MaxOdd, MaxRepeats, MinSegment, MaxPrompt} \subseteq Nat
  /\ MaxUnit \in Nat \ {0}
  /\ MinSegment <= MinLen     \* 0.3 s, both

VARIABLES
  at,        \* the turn of the loop, 0 before it
  odd,       \* turns heard so far with a text other than Plain
  segments,  \* the segments so far
  said,      \* what was said in each turn that was listened to
  echo,      \* what the model repeats of its prompt before it
  outcome    \* "running", "no turns", "no segments", "saved"

rvars == <<raw, samples, quiet, merged, todo, shaped, step,
           at, odd, segments, said, echo, outcome>>

RInit == /\ Init
         /\ at = 0 /\ odd = 0 /\ segments = <<>> /\ said = <<>> /\ echo = <<>>
         /\ outcome = "running"
-----------------------------------------------------------------------------
(* The guard. *)

\* How many times in a row words[k] has been said when k is reached.
RunAt(words) ==
  LET run[k \in DOMAIN words] ==
        IF k > 1 /\ words[k] = words[k - 1] THEN run[k - 1] + 1 ELSE 1
  IN run

\* has_repeat_run: first by words, then by units of letters with the spaces
\* taken out.
HasRepeatRun(text) ==
  LET compact == FlattenSeq(text)
      span(unit) == unit * (MaxRepeats + 1)
  IN \/ \E k \in DOMAIN text : RunAt(text)[k] > MaxRepeats
     \/ \E unit \in 1 .. MaxUnit :
        \E start \in 1 .. Len(compact) - span(unit) + 1 :
          LET chunk == SubSeq(compact, start, start + unit - 1)
          IN SubSeq(compact, start, start + span(unit) - 1) =
               FlattenSeq([n \in 1 .. MaxRepeats + 1 |-> chunk])

LooksHallucinated(text, duration) ==
  \/ duration < MinSegment
  \/ text = <<>>
  \/ text \in Boilerplate
  \/ HasRepeatRun(text)
-----------------------------------------------------------------------------
(* What is heard. *)

\* build_prompt: each term once, in the user's order, as many as fit.
Prompt ==
  LET terms == FoldLeft(LAMBDA acc, t : IF Contains(acc, t) THEN acc ELSE Append(acc, t),
                        <<>>, Glossary)
  IN SubSeq(terms, 1, Min({MaxPrompt, Len(terms)}))

\* The model repeats its prompt before what it hears, or not, or only the end of
\* it: a long prompt is cut to its last 224 tokens.
Echoes == {SubSeq(Prompt, n, Len(Prompt)) : n \in 1 .. Len(Prompt) + 1}
Decoded(text) == echo \o text

HeardCut(text) == SubSeq(Decoded(text), Len(Prompt) + 1, Len(Decoded(text)))

\* What transcribe returns: without the prompt, if the whole of it is there.
Heard(text) ==
  LET decoded == Decoded(text)
  IN IF Prompt # <<>> /\ IsPrefix(Prompt, decoded)
       THEN SubSeq(decoded, Len(Prompt) + 1, Len(decoded)) ELSE decoded

\* The turn's slice of the recording holds nothing.
NoClip(t) == Min({samples, t.end}) <= t.start

Segment(t, text) ==
  [id |-> Len(segments), start |-> t.start, end |-> t.end, speaker |-> t.speaker, text |-> text]
-----------------------------------------------------------------------------
\* diarize has returned, and build_prompt.
Begin == /\ step = "done" /\ at = 0 /\ outcome = "running"
         /\ IF shaped = <<>> THEN outcome' = "no turns" /\ at' = at
                             ELSE outcome' = outcome /\ at' = 1
         /\ echo' \in Echoes
         /\ UNCHANGED <<vars, odd, segments, said>>

Looping == at \in 1 .. Len(shaped)

SkipEmpty == /\ Looping /\ NoClip(shaped[at])
             /\ at' = at + 1
             /\ said' = Append(said, <<>>)
             /\ UNCHANGED <<vars, odd, segments, echo, outcome>>

\* One turn: transcribed, and kept if it looks like speech.
Transcribe(text) ==
  /\ Looping /\ ~NoClip(shaped[at])
  /\ LET t == shaped[at] IN
     segments' = IF LooksHallucinated(Heard(text), Duration(t)) THEN segments
                 ELSE Append(segments, Segment(t, Heard(text)))
  /\ said' = Append(said, text)
  /\ odd' = IF text = Plain THEN odd ELSE odd + 1
  /\ at' = at + 1
  /\ UNCHANGED <<vars, echo, outcome>>

\* After the loop: nothing left is an error, anything else is saved.
Save == /\ at > Len(shaped) /\ at # 0 /\ outcome = "running"
        /\ outcome' = IF segments = <<>> THEN "no segments" ELSE "saved"
        /\ UNCHANGED <<vars, at, odd, segments, said, echo>>

RNext == \/ Next /\ UNCHANGED <<at, odd, segments, said, echo, outcome>>
         \/ Begin \/ SkipEmpty \/ Save
         \/ \E text \in IF odd < MaxOdd THEN Texts ELSE {Plain} : Transcribe(text)
\* The stage runs until it returns or raises.
RSpec == RInit /\ [][RNext]_rvars /\ WF_rvars(RNext)
-----------------------------------------------------------------------------
\* s repeats itself with this period from first to last.
Periodic(s, first, last, period) ==
  /\ last <= Len(s)
  /\ \A i \in first .. last - period : s[i] = s[i + period]

\* A text repeats itself: the same word, or the same few letters, more than
\* MaxRepeats times in a row.
Repeats(text) ==
  LET compact == FlattenSeq(text)
  IN \/ \E k \in DOMAIN text : Periodic(text, k, k + MaxRepeats, 1)
     \/ \E k \in DOMAIN compact : \E n \in 1 .. MaxUnit :
          Periodic(compact, k, k + n * (MaxRepeats + 1) - 1, n)

\* What a stored transcript is: the turns in which something was said that is
\* neither a loop nor boilerplate, all of them and no other, in the order of
\* the recording, with the words as they were said (no glossary in front of
\* them) and ids without gaps, which the pages and the quotes refer to.
\* When the model repeats only the end of its prompt, that end stays: in front of
\* the words, in the eyes of the guard, and as a turn where nothing was said.  (A
\* speaker who says the terms of the prompt as it lists them is left out here: if
\* the model does not repeat it, the speaker's own words are taken off.)
TranscriptIsExact ==
  outcome = "saved" =>
    LET told == [k \in DOMAIN shaped |->
                   IF NoClip(shaped[k]) THEN <<>>
                   ELSE IF echo = Prompt THEN said[k] ELSE echo \o said[k]]
        spoken == {k \in DOMAIN shaped :
                     told[k] # <<>> /\ told[k] \notin Boilerplate /\ ~Repeats(told[k])}
    IN (\A k \in DOMAIN shaped : echo = Prompt \/ ~IsPrefix(Prompt, echo \o said[k])) =>
       /\ Len(segments) = Cardinality(spoken)
       /\ \A m \in DOMAIN segments :
            \E k \in spoken :
              /\ Cardinality({i \in spoken : i <= k}) = m
              /\ segments[m] = [id |-> m - 1, start |-> shaped[k].start, end |-> shaped[k].end,
                                speaker |-> shaped[k].speaker, text |-> told[k]]

\* The stage ends, in a transcript or an error: every cut of a long turn leaves
\* two shorter pieces, and every turn is listened to once.
RecognitionEnds == <>(outcome # "running")
=============================================================================
