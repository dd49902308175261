----------------------------- MODULE Summarizer -----------------------------
(***************************************************************************)
(* From a transcript to minutes (sarai/llm/summarize.py): one call to the  *)
(* language model, or one per chunk and one to merge them; each answer     *)
(* validated, with one retry; the quotes of the result verified.           *)
(*                                                                         *)
(* The model is not trusted: it may answer anything, or fail.  Of minutes  *)
(* only the quotes of their action items matter, and of a part only which  *)
(* chunk it was made from.  A quote is what _normalize leaves of it: the   *)
(* words of some segments, one after the other, as thai.normalize writes   *)
(* them or otherwise.  No two segments say the same.                       *)
(***************************************************************************)
EXTENDS Chunking

CONSTANTS
  MaxSingle,     \* settings.llm_single_call_chars
  MaxItems,      \* bound: action items of an answer
  MaxQuoted      \* bound: segments a quote runs over

ASSUME SummarizerAssumption ==
  MaxSingle \in Nat /\ MaxItems \in Nat /\ MaxQuoted \in Nat

VARIABLES
  phase,       \* where summarize() stands
  asked,       \* the prompts sent, in order
  retrying,    \* the prompt at hand was answered with something invalid
  parts,       \* per part received: the chunk it is of
  quotes,      \* the quotes of the last answer
  kept         \* the quotes of the minutes returned

mvars == <<phase, asked, retrying, parts, quotes, kept>>
uvars == <<vars, mvars>>

\* A segment without text adds nothing to the transcript or to a quote.
Spoken(K) == {k \in K : length[k] > 0}

\* Any segments in any order, or none at all, which is a blank quote; as
\* thai.normalize writes their words, or in words that are not the transcript's.
Quotes == [form: {"normalized", "other"}, said: SeqOf(Spoken(DOMAIN length), MaxQuoted)]

UInit == /\ CInit
         /\ phase = "start" /\ asked = <<>> /\ retrying = FALSE
         /\ parts = <<>> /\ quotes = {} /\ kept = {}

All == [k \in DOMAIN length |-> k]
Calling == phase \in {"whole", "map", "merge"}
-----------------------------------------------------------------------------
\* Nothing to summarize, one call, or map-reduce.
Begin ==
  /\ phase = "start"
  /\ phase' = IF length = <<>> THEN "failed"
              ELSE IF Chars(All) <= MaxSingle THEN "whole" ELSE "split"
  /\ UNCHANGED <<vars, asked, retrying, parts, quotes, kept>>

\* get_chat: summarization is switched off, or there is no key.
NoClient ==
  /\ phase = "start" /\ length # <<>>
  /\ phase' = "failed"
  /\ UNCHANGED <<vars, asked, retrying, parts, quotes, kept>>

\* split_segments.
Split ==
  /\ phase = "split"
  /\ CNext
  /\ phase' = IF done' THEN "map" ELSE "split"
  /\ UNCHANGED <<asked, retrying, parts, quotes, kept>>

\* What the next prompt is about, and whether it shows the validation error.
Prompt == [about |-> phase, chunk |-> IF phase = "map" THEN Len(parts) + 1 ELSE 0,
           retry |-> retrying]

\* The segments a prompt shows: of the transcript, the merge sees only the parts.
Lines(p) == Spoken(CASE p.about = "whole" -> DOMAIN length
                     [] p.about = "map" -> ToSet(chunks[p.chunk])
                     [] OTHER -> {})

\* s is a piece of what K says, read without the line breaks: it begins anywhere
\* and goes on with the next segment, whoever speaks it.
RunsOn(s, K) ==
  /\ ToSet(s) \subseteq Spoken(K)
  /\ \A i \in 1 .. Len(s) - 1 :
       s[i] < s[i + 1] /\ ~\E k \in Spoken(K) : s[i] < k /\ k < s[i + 1]

VerifiedByLine(q) ==
  q.form = "normalized" /\ Len(q.said) = 1 /\ RunsOn(q.said, DOMAIN length)

\* verify_quotes: an action item stays when its quote is not blank and is a part
\* of the text of all segments joined.
Verified(q) == q.form = "normalized" /\ q.said # <<>> /\ RunsOn(q.said, DOMAIN length)

AnswerPartMergeEarly ==
  /\ phase = "map"
  /\ asked' = Append(asked, Prompt)
  /\ retrying' = FALSE
  /\ parts' = Append(parts, Len(parts) + 1)
  /\ phase' = IF Len(parts') + 1 >= Len(chunks) THEN "merge" ELSE "map"
  /\ UNCHANGED <<vars, quotes, kept>>

\* A valid part: on to the next chunk, or to the merge.
AnswerPart ==
  /\ phase = "map"
  /\ asked' = Append(asked, Prompt)
  /\ retrying' = FALSE
  /\ parts' = Append(parts, Len(parts) + 1)
  /\ phase' = IF Len(parts') < Len(chunks) THEN "map" ELSE "merge"
  /\ UNCHANGED <<vars, quotes, kept>>

\* Valid minutes, from the one call or from the merge.
AnswerMinutes ==
  /\ phase \in {"whole", "merge"}
  /\ asked' = Append(asked, Prompt)
  /\ retrying' = FALSE
  /\ \E items \in SeqOf(Quotes, MaxItems) : quotes' = ToSet(items)
  /\ kept' = {q \in quotes' : Verified(q)}
  /\ phase' = "returned"
  /\ UNCHANGED <<vars, parts>>

\* Not MinutesJSON: ask again once, showing the error; then LLMError.
AnswerInvalid ==
  /\ Calling
  /\ asked' = Append(asked, Prompt)
  /\ retrying' = TRUE
  /\ phase' = IF retrying THEN "failed" ELSE phase
  /\ UNCHANGED <<vars, parts, quotes, kept>>

\* The provider refuses, fails or times out: no retry.
CallFails ==
  /\ Calling
  /\ asked' = Append(asked, Prompt)
  /\ phase' = "failed"
  /\ UNCHANGED <<vars, retrying, parts, quotes, kept>>

UNext == \/ NoClient \/ Begin \/ Split
         \/ AnswerPart \/ AnswerMinutes \/ AnswerInvalid \/ CallFails

USpec == UInit /\ [][UNext]_uvars
-----------------------------------------------------------------------------
\* The minutes of a long meeting are merged from every chunk's part, each once
\* and in order, and so from every segment, through retries; and no part has
\* cost more than two calls.
EveryPartMerged ==
  phase = "merge" \/ (phase = "returned" /\ done) =>
    /\ parts = [k \in DOMAIN chunks |-> k]
    /\ UNION {ToSet(chunks[parts[k]]) : k \in DOMAIN parts} = DOMAIN length
    /\ \A k \in DOMAIN chunks :
         Cardinality({n \in DOMAIN asked :
                        asked[n].about = "map" /\ asked[n].chunk = k}) \in 1 .. 2

\* A quote of one line, or of several in a row, that some prompt of this meeting
\* showed is kept: none is lost to normalization, to a chunk's boundary, to the
\* overlap or to the merge.  And what is kept is made of lines that prompts showed,
\* none of them left out between its first and its last: no commitment is put
\* together from far ends of a meeting.  (It may still run from one speaker's line
\* into the next one's, or over a seam no single prompt showed.)
QuotesWereShown ==
  phase = "returned" =>
    LET shown == UNION {Lines(asked[n]) : n \in DOMAIN asked}
    IN /\ \A q \in quotes, n \in DOMAIN asked :
            q.form = "normalized" /\ q.said # <<>> /\ RunsOn(q.said, Lines(asked[n]))
              => q \in kept
       /\ \A q \in kept :
            q.form = "normalized" /\ q.said # <<>> /\ RunsOn(q.said, shown)
=============================================================================
