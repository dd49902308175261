------------------------------ MODULE Chunking ------------------------------
(***************************************************************************)
(* split_segments (sarai/llm/chunk.py): a transcript too long for one call *)
(* is cut into chunks, each repeating the end of the one before.  The loop *)
(* of the function is the next-state relation, so every prefix of every    *)
(* input is a state.  A segment is its position; its text is its length.   *)
(***************************************************************************)
EXTENDS Integers, Sequences, FiniteSets, SequencesExt

CONSTANTS
  MaxSegments,   \* bound: segments of a transcript
  MaxLength,     \* bound: characters of a segment
  MaxChars,      \* max_chars (settings.llm_chunk_chars)
  Overlaps       \* values of overlap (settings.llm_chunk_overlap_segments)

ASSUME ChunkingAssumption == /\ MaxSegments \in Nat /\ MaxLength \in Nat
                             /\ MaxChars \in Nat \ {0}   \* else ValueError
                             /\ Overlaps \subseteq Nat

VARIABLES
  length,    \* the input: length of each segment
  overlap,
  next,      \* the segment the loop looks at
  chunks, current,
  done       \* the function has returned `chunks`

vars == <<length, overlap, next, chunks, current, done>>

Chars(c) == FoldSeq(LAMBDA i, n : length[i] + n, 0, c)

CInit == /\ length \in SeqOf(0 .. MaxLength, MaxSegments)
         /\ overlap \in Overlaps
         /\ next = 1 /\ chunks = <<>> /\ current = <<>>
         /\ done = FALSE

\* current[-overlap:], which for overlap 0 would be the whole list.
LastOf(c, n) == IF n = 0 \/ n > Len(c) THEN c ELSE SubSeq(c, Len(c) - n + 1, Len(c))
CarriedPlain(c) == LastOf(c, overlap)
Carried(c) == IF overlap > 0 THEN LastOf(c, overlap) ELSE <<>>

FullAlready == Chars(current) > MaxChars
Full == current # <<>> /\ Chars(current) + length[next] > MaxChars

TakeSegment ==
  /\ ~done
  /\ next <= Len(length)
  /\ IF Full
       THEN /\ chunks' = Append(chunks, current)
            /\ current' = Append(Carried(current), next)
       ELSE /\ current' = Append(current, next)
            /\ UNCHANGED chunks
  /\ next' = next + 1
  /\ UNCHANGED <<length, overlap, done>>

\* A last chunk with nothing in it that the chunk before does not have.
NothingNew == chunks # <<>> /\ ToSet(current) \subseteq ToSet(Last(chunks))

Return ==
  /\ ~done
  /\ next > Len(length)
  /\ chunks' = IF current = <<>> \/ NothingNew THEN chunks
               ELSE Append(chunks, current)
  /\ done' = TRUE
  /\ UNCHANGED <<length, overlap, next, current>>

CNext == TakeSegment \/ Return
-----------------------------------------------------------------------------
Consecutive(c) == \A k \in 1 .. Len(c) - 1 : c[k + 1] = c[k] + 1

\* The reference: the chunks are runs of consecutive segments and together are
\* all of the transcript, so no turn is left out of the minutes.  Each repeats
\* exactly the last `overlap` segments of the one before, or all of it when that
\* is shorter, and goes on from there with something new.
CoversInOrder ==
  /\ \A k \in DOMAIN chunks : chunks[k] # <<>> /\ Consecutive(chunks[k])
  /\ \A k \in 1 .. Len(chunks) - 1 :
       LET a == chunks[k]
           b == chunks[k + 1]
       IN b[1] = Last(a) - Min({overlap, Len(a)}) + 1 /\ Last(b) > Last(a)
  /\ done => UNION {ToSet(chunks[k]) : k \in DOMAIN chunks} = DOMAIN length

\* No chunk is larger than max_chars, unless it has but one new segment: the
\* overlap it begins with is never measured together with that segment.
ChunksFit ==
  \A k \in DOMAIN chunks :
    LET old == IF k = 1 THEN {} ELSE ToSet(chunks[k - 1])
    IN Cardinality(ToSet(chunks[k]) \ old) > 1 => Chars(chunks[k]) <= MaxChars
=============================================================================
