--------------------------- MODULE SummarizerProofs ---------------------------
(***************************************************************************)
(* Proofs about chunking and summarizing, for transcripts and limits of    *)
(* every size.                                                             *)
(***************************************************************************)
EXTENDS Summarizer, SequenceTheorems, FiniteSetTheorems, WellFoundedInduction, TLAPS

(* Induction, from the well-foundedness of < on Nat: the theorems of the     *)
(* library that take a predicate as a parameter cannot be instantiated, the  *)
(* one about the least element of a set can.                                 *)

LEMMA LeastNumber ==
  ASSUME NEW T, T \subseteq Nat, T # {}
  PROVE  \E x \in T : \A y \in T : x <= y
<1> DEFINE R == OpToRel(<, Nat)
<1>1. IsWellFoundedOn(R, Nat)
  BY Zenon, NatLessThanWellFounded
<1>2. \A x, y \in Nat : <<x, y>> \in R <=> x < y
  BY DEF OpToRel
<1> HIDE DEF R
<1>3. \E x \in T : \A y \in T : ~ (<<y, x>> \in R)
  BY <1>1, WFMin, Zenon
<1>4. PICK x \in T : \A y \in T : ~ (<<y, x>> \in R)
  BY <1>3
<1>5. \A y \in T : ~ (y < x)
  BY <1>2, <1>4
<1>6. \A y \in T : x <= y
  BY <1>5
<1> QED BY <1>6

LEMMA Induction ==
  ASSUME NEW S, 0 \in S, \A n \in Nat : n \in S => n + 1 \in S
  PROVE  \A n \in Nat : n \in S
<1> DEFINE T == {n \in Nat : n \notin S}
<1> SUFFICES ASSUME T # {} PROVE FALSE
  OBVIOUS
<1>1. PICK m \in T : \A k \in T : m <= k
  <2>1. T \subseteq Nat
    OBVIOUS
  <2> QED BY <2>1, LeastNumber
<1>2. m # 0 /\ m - 1 \in Nat /\ m - 1 \in S
  BY <1>1
<1> QED BY <1>1, <1>2

\* Of the subsets of a finite set, by what is left without an element.
LEMMA SubsetInduction ==
  ASSUME NEW D, IsFiniteSet(D), NEW S, {} \in S,
         \A s \in SUBSET D : s # {} /\ (\A x \in s : s \ {x} \in S) => s \in S
  PROVE  \A s \in SUBSET D : s \in S
<1> DEFINE P(n) == \A s \in SUBSET D : Cardinality(s) = n => s \in S
           N == {n \in Nat : P(n)}
<1>1. \A s \in SUBSET D : /\ Cardinality(s) \in Nat
                          /\ Cardinality(s) = 0 <=> s = {}
                          /\ \A x \in s : Cardinality(s \ {x}) = Cardinality(s) - 1
  BY FS_Subset, FS_CardinalityType, FS_EmptySet, FS_RemoveElement
<1>2. P(0)
  BY <1>1
<1>3. ASSUME NEW n \in Nat, P(n) PROVE P(n + 1)
  BY <1>1, <1>3
<1> HIDE DEF P
<1>4. 0 \in N /\ \A n \in Nat : n \in N => n + 1 \in N
  BY <1>2, <1>3
<1> HIDE DEF N
<1>5. \A n \in Nat : n \in N
  BY <1>4, Induction
<1> QED BY <1>1, <1>5 DEF N, P

(* Folds: the recursive function MapThenFoldSet chooses exists.  weight and  *)
(* order are the fold's own, as functions on the subsets of D.               *)
IsFold(g, D, b, pick, h) ==
  \A s \in SUBSET D :
    g[s] = IF s = {} THEN b ELSE h[<<pick[s], g[s \ {pick[s]}]>>]

LEMMA FoldExists ==
  ASSUME NEW D, IsFiniteSet(D), NEW T, NEW b \in T,
         NEW pick, \A s \in SUBSET D : s # {} => pick[s] \in s,
         NEW h \in [D \X T -> T]
  PROVE  \E g \in [SUBSET D -> T] : IsFold(g, D, b, pick, h)
<1> DEFINE Small(n) == {s \in SUBSET D : Cardinality(s) <= n}
           Fits(g, s) == g[s] = IF s = {} THEN b ELSE h[<<pick[s], g[s \ {pick[s]}]>>]
           P(n) == \E g \in [SUBSET D -> T] : \A s \in Small(n) : Fits(g, s)
           S == {n \in Nat : P(n)}
<1>1. \A s \in SUBSET D : /\ IsFiniteSet(s) /\ Cardinality(s) \in Nat
                          /\ Cardinality(s) <= Cardinality(D)
                          /\ Cardinality(s) = 0 <=> s = {}
                          /\ \A x \in s : Cardinality(s \ {x}) = Cardinality(s) - 1
  BY FS_Subset, FS_CardinalityType, FS_EmptySet, FS_RemoveElement
<1>2. P(0)
  <2> DEFINE g == [s \in SUBSET D |-> b]
  <2>1. g \in [SUBSET D -> T]
    OBVIOUS
  <2>2. \A s \in Small(0) : s = {}
    BY <1>1
  <2>3. \A s \in Small(0) : Fits(g, s)
    BY <2>2
  <2> QED BY <2>1, <2>3
<1>3. ASSUME NEW n \in Nat, P(n) PROVE P(n + 1)
  <2>1. PICK g \in [SUBSET D -> T] : \A s \in Small(n) : Fits(g, s)
    BY <1>3
  <2> DEFINE k == [s \in SUBSET D |-> IF s = {} THEN b ELSE h[<<pick[s], g[s \ {pick[s]}]>>]]
  <2>2. k \in [SUBSET D -> T]
    OBVIOUS
  <2>3. \A s \in Small(n) : k[s] = g[s]
    BY <2>1
  <2>4. ASSUME NEW s \in Small(n + 1), s # {} PROVE s \ {pick[s]} \in Small(n)
    BY <2>4, <1>1
  <2>5. \A s \in Small(n + 1) : Fits(k, s)
    BY <2>3, <2>4
  <2> HIDE DEF k
  <2>6. \E f \in [SUBSET D -> T] : \A s \in Small(n + 1) : Fits(f, s)
    BY <2>2, <2>5
  <2> QED BY <2>6
<1> HIDE DEF P
<1>4. 0 \in S /\ \A n \in Nat : n \in S => n + 1 \in S
  <2>1. 0 \in Nat /\ \A n \in Nat : n + 1 \in Nat
    OBVIOUS
  <2> QED BY <1>2, <1>3, <2>1, Zenon
<1> HIDE DEF S
<1>5. \A n \in Nat : n \in S
  BY <1>4, Induction
<1>6. P(Cardinality(D))
  BY <1>1, <1>5 DEF S
<1>7. Small(Cardinality(D)) = SUBSET D
  BY <1>1
<1> QED BY <1>6, <1>7 DEF P, IsFold
-----------------------------------------------------------------------------
(* The number of characters of a chunk, a fold in an order the definition    *)
(* leaves open.                                                              *)

AnyOf(s) == CHOOSE x \in s : TRUE

\* With l the segments' lengths, g counts the characters at every set of places of c.
IsCount(l, g, c) ==
  \A s \in SUBSET DOMAIN c :
    g[s] = IF s = {} THEN 0 ELSE l[c[AnyOf(s)]] + g[s \ {AnyOf(s)}]

Count(l, c) == CHOOSE g : g = [s \in SUBSET DOMAIN c |->
                              IF s = {} THEN 0
                              ELSE l[c[AnyOf(s)]] + g[s \ {AnyOf(s)}]]

LEMMA CharsIsCount == \A c : /\ Chars(c) = Count(length, c)[DOMAIN c]
                           /\ Chars(c)' = Count(length', c)[DOMAIN c]
BY DEF Chars, FoldSeq, FoldFunction, FoldFunctionOnSet, MapThenFoldSet, Count, AnyOf

LEMMA CountExists ==
  ASSUME NEW l \in Seq(Nat), NEW c \in Seq(DOMAIN l)
  PROVE  IsCount(l, Count(l, c), c) /\ Count(l, c) \in [SUBSET DOMAIN c -> Nat]
<1> DEFINE D == DOMAIN c
           pick == [s \in SUBSET D |-> AnyOf(s)]
           h == [p \in D \X Nat |-> l[c[p[1]]] + p[2]]
<1>1. IsFiniteSet(D)
  BY FS_Interval
<1>2. \A s \in SUBSET D : s # {} => pick[s] \in s
  BY DEF AnyOf
<1>3. h \in [D \X Nat -> Nat]
  <2>1. \A x \in D : c[x] \in DOMAIN l /\ l[c[x]] \in Nat
    OBVIOUS
  <2>2. \A x \in D, m \in Nat : l[c[x]] + m \in Nat
    BY <2>1
  <2> QED BY <2>2
<1>4. \A x \in D, m \in Nat : h[<<x, m>>] = l[c[x]] + m
  OBVIOUS
<1> HIDE DEF h
<1>5. PICK g \in [SUBSET D -> Nat] : IsFold(g, D, 0, pick, h)
  BY <1>1, <1>2, <1>3, FoldExists
<1>6. \A s \in SUBSET D :
        g[s] = IF s = {} THEN 0 ELSE l[c[AnyOf(s)]] + g[s \ {AnyOf(s)}]
  <2> SUFFICES ASSUME NEW s \in SUBSET D
               PROVE  g[s] = IF s = {} THEN 0 ELSE l[c[AnyOf(s)]] + g[s \ {AnyOf(s)}]
    OBVIOUS
  <2>1. g[s] = IF s = {} THEN 0 ELSE h[<<pick[s], g[s \ {pick[s]}]>>]
    BY <1>5 DEF IsFold
  <2>2. CASE s = {}
    BY <2>1, <2>2
  <2>3. CASE s # {}
    <3>1. pick[s] = AnyOf(s) /\ AnyOf(s) \in D /\ g[s \ {AnyOf(s)}] \in Nat
      BY <1>2, <2>3
    <3> QED BY <1>4, <2>1, <2>3, <3>1
  <2> QED BY <2>2, <2>3
<1>7. g = [s \in SUBSET D |-> IF s = {} THEN 0
                               ELSE l[c[AnyOf(s)]] + g[s \ {AnyOf(s)}]]
  BY <1>6
<1>8. Count(l, c) = [s \in SUBSET D |-> IF s = {} THEN 0
                               ELSE l[c[AnyOf(s)]] + Count(l, c)[s \ {AnyOf(s)}]]
  BY <1>7 DEF Count
<1>9. IsCount(l, Count(l, c), c)
  BY <1>8 DEF IsCount
<1> DEFINE S == {s \in SUBSET D : Count(l, c)[s] \in Nat}
<1>10. {} \in S
  <2>1. {} \in SUBSET D /\ Count(l, c)[{}] = 0
    BY <1>9 DEF IsCount
  <2> QED BY <2>1
<1>11. ASSUME NEW s \in SUBSET D, s # {}, \A x \in s : s \ {x} \in S PROVE s \in S
  <2>1. AnyOf(s) \in s /\ s \ {AnyOf(s)} \in S
    BY <1>11 DEF AnyOf
  <2>2. Count(l, c)[s] = l[c[AnyOf(s)]] + Count(l, c)[s \ {AnyOf(s)}]
    BY <1>9, <1>11 DEF IsCount
  <2>3. l[c[AnyOf(s)]] \in Nat
    BY <2>1
  <2>4. Count(l, c)[s \ {AnyOf(s)}] \in Nat
    BY <2>1
  <2>5. Count(l, c)[s] \in Nat
    BY <2>2, <2>3, <2>4
  <2> QED BY <2>5
<1> HIDE DEF S
<1>12. \A s \in SUBSET D : s \in S
  BY <1>1, <1>10, <1>11, SubsetInduction
<1>13. \A s \in SUBSET D : Count(l, c)[s] \in Nat
  BY <1>12 DEF S
<1> HIDE DEF D
<1>14. Count(l, c) \in [SUBSET D -> Nat]
  BY <1>8, <1>13
<1> QED BY <1>9, <1>14 DEF D

\* No place is chosen before another: any can be counted first.
LEMMA CountAnyFirst ==
  ASSUME NEW l \in Seq(Nat), NEW c \in Seq(DOMAIN l)
  PROVE  \A s \in SUBSET DOMAIN c : \A x \in s :
           Count(l, c)[s] = l[c[x]] + Count(l, c)[s \ {x}]
<1> DEFINE D == DOMAIN c
           g == Count(l, c)
           First(s) == \A x \in s : g[s] = l[c[x]] + g[s \ {x}]
           S == {s \in SUBSET D : First(s)}
<1>1. /\ IsFiniteSet(D)
      /\ \A s \in SUBSET D : g[s] \in Nat
      /\ \A x \in D : l[c[x]] \in Nat
  <2>1. Count(l, c) \in [SUBSET DOMAIN c -> Nat]
    BY CountExists
  <2>2. IsFiniteSet(D)
    BY FS_Interval
  <2>3. \A x \in D : l[c[x]] \in Nat
    OBVIOUS
  <2> HIDE DEF D
  <2> QED BY <2>1, <2>2, <2>3 DEF D
<1>2. {} \in S
  OBVIOUS
<1>3. ASSUME NEW s \in SUBSET D, s # {}, \A x \in s : s \ {x} \in S PROVE s \in S
  <2> DEFINE y == AnyOf(s)
  <2>1. y \in s
    BY <1>3 DEF AnyOf
  <2>2. g[s] = l[c[y]] + g[s \ {y}]
    BY <1>3, CountExists DEF IsCount
  <2> HIDE DEF y, g
  <2>3. ASSUME NEW x \in s PROVE g[s] = l[c[x]] + g[s \ {x}]
    <3>1. CASE x = y
      BY <2>2, <3>1
    <3>2. CASE x # y
      <4>1. g[s \ {y}] = l[c[x]] + g[(s \ {y}) \ {x}]
        BY <1>3, <2>1, <3>2
      <4>2. g[s \ {x}] = l[c[y]] + g[(s \ {x}) \ {y}]
        BY <1>3, <2>1, <3>2
      <4>3. (s \ {y}) \ {x} = (s \ {x}) \ {y}
        OBVIOUS
      <4>4. s \ {y} \in SUBSET D /\ s \ {x} \in SUBSET D /\ (s \ {x}) \ {y} \in SUBSET D
        OBVIOUS
      <4>5. /\ l[c[x]] \in Nat /\ l[c[y]] \in Nat
            /\ g[(s \ {x}) \ {y}] \in Nat
        BY <1>1, <2>1, <4>4
      <4> HIDE DEF S
      <4>6. g[s] = l[c[y]] + (l[c[x]] + g[(s \ {x}) \ {y}])
        BY <2>2, <4>1, <4>3
      <4>7. l[c[y]] + (l[c[x]] + g[(s \ {x}) \ {y}]) = l[c[x]] + (l[c[y]] + g[(s \ {x}) \ {y}])
        <5>1. \A i, j, k \in Nat : j + (i + k) = i + (j + k)
          OBVIOUS
        <5> QED BY <4>5, <5>1, Zenon
      <4> QED BY <4>2, <4>6, <4>7
    <3> QED BY <3>1, <3>2
  <2> QED BY <2>3
<1> HIDE DEF S
<1>4. \A s \in SUBSET D : s \in S
  BY <1>1, <1>2, <1>3, SubsetInduction
<1> QED BY <1>4 DEF S

\* What the loop of split_segments keeps in `size`.
LEMMA CharsAppend ==
  ASSUME length \in Seq(Nat), NEW c \in Seq(DOMAIN length), NEW i \in DOMAIN length
  PROVE  /\ Chars(c) \in Nat
         /\ Chars(<<>>) = 0
         /\ Chars(Append(c, i)) = Chars(c) + length[i]
<1> DEFINE d == Append(c, i)
           n == Len(c)
           D == DOMAIN c
           S == {s \in SUBSET D : Count(length, d)[s] = Count(length, c)[s]}
<1>1. /\ d \in Seq(DOMAIN length) /\ DOMAIN d = D \cup {n + 1} /\ n + 1 \notin D
      /\ d[n + 1] = i
      /\ \A x \in D : d[x] = c[x]
  <2>1. n \in Nat /\ D = 1 .. n
    OBVIOUS
  <2>2. /\ d \in Seq(DOMAIN length) /\ Len(d) = n + 1 /\ d[n + 1] = i
        /\ \A x \in 1 .. n : d[x] = c[x]
    BY AppendProperties
  <2>3. DOMAIN d = 1 .. n + 1
    BY <2>2
  <2>4. 1 .. n + 1 = (1 .. n) \cup {n + 1} /\ n + 1 \notin 1 .. n
    BY <2>1
  <2> QED BY <2>1, <2>2, <2>3, <2>4
<1> HIDE DEF d
<1>2. IsCount(length, Count(length, c), c) /\ IsCount(length, Count(length, d), d)
  BY <1>1, CountExists
<1>3. {} \in S
  BY <1>2 DEF IsCount
<1>4. ASSUME NEW s \in SUBSET D, s # {}, \A x \in s : s \ {x} \in S PROVE s \in S
  <2>1. AnyOf(s) \in s /\ s \ {AnyOf(s)} \in S
    BY <1>4 DEF AnyOf
  <2>2. /\ Count(length, c)[s] = length[c[AnyOf(s)]] + Count(length, c)[s \ {AnyOf(s)}]
        /\ Count(length, d)[s] = length[d[AnyOf(s)]] + Count(length, d)[s \ {AnyOf(s)}]
    BY <1>1, <1>2, <1>4 DEF IsCount
  <2> QED BY <1>1, <2>1, <2>2
<1>5. IsFiniteSet(D)
  BY FS_Interval
<1> HIDE DEF S
<1>6. \A s \in SUBSET D : s \in S
  BY <1>3, <1>4, <1>5, SubsetInduction
<1>7. Count(length, d)[DOMAIN d] = length[i] + Count(length, d)[DOMAIN d \ {n + 1}]
  <2>1. \A s \in SUBSET DOMAIN d : \A x \in s :
           Count(length, d)[s] = length[d[x]] + Count(length, d)[s \ {x}]
    BY <1>1, CountAnyFirst
  <2> QED BY <1>1, <2>1
<1>8. DOMAIN d \ {n + 1} = D
  BY <1>1
<1>9. Count(length, d)[D] = Count(length, c)[D]
  BY <1>6 DEF S
<1>10. Count(length, c)[D] \in Nat /\ length[i] \in Nat
  <2>1. Count(length, c) \in [SUBSET DOMAIN c -> Nat]
    BY CountExists
  <2> QED BY <2>1
<1>11. Chars(<<>>) = 0
  <2>1. <<>> \in Seq(DOMAIN length) /\ DOMAIN <<>> = {}
    OBVIOUS
  <2>2. IsCount(length, Count(length, <<>>), <<>>)
    BY <2>1, CountExists
  <2> QED BY <2>1, <2>2, CharsIsCount DEF IsCount
<1>12. Chars(c) = Count(length, c)[D] /\ Chars(d) = Count(length, d)[DOMAIN d]
  BY CharsIsCount
<1>13. Chars(d) = Chars(c) + length[i]
  BY <1>7, <1>8, <1>9, <1>10, <1>12
<1> QED BY <1>10, <1>11, <1>12, <1>13 DEF d
-----------------------------------------------------------------------------
(* split_segments. *)

LEMMA ToSetAppend ==
  ASSUME NEW S, NEW s \in Seq(S), NEW x \in S
  PROVE  ToSet(Append(s, x)) = ToSet(s) \cup {x}
<1>1. DOMAIN Append(s, x) = 1 .. Len(s) + 1 /\ DOMAIN s = 1 .. Len(s)
  OBVIOUS
<1>2. Append(s, x)[Len(s) + 1] = x /\ \A k \in 1 .. Len(s) : Append(s, x)[k] = s[k]
  OBVIOUS
<1>3. 1 .. Len(s) + 1 = (1 .. Len(s)) \cup {Len(s) + 1}
  OBVIOUS
<1> QED BY <1>1, <1>2, <1>3 DEF ToSet

LEMMA MinOfTwo ==
  ASSUME NEW a \in Int, NEW b \in Int
  PROVE  Min({a, b}) = IF a <= b THEN a ELSE b
BY DEF Min

Run(c) == \A k \in 1 .. Len(c) : c[k] = c[1] + k - 1

Follows(a, b) == b[1] = Last(a) - Min({overlap, Len(a)}) + 1 /\ Last(b) > Last(a)

Covered(s) == UNION {ToSet(s[k]) : k \in DOMAIN s}

\* What the chunk at place k, the current one included, has from the one before.
Old(k) == IF k = 1 THEN {} ELSE ToSet(chunks[k - 1])

\* c, coming after `old`, fits, or has no more than one new segment.
Fits(c, old) == Chars(c) <= MaxChars \/ \E x \in Nat : ToSet(c) \ old \subseteq {x}

Segs == 1 .. Len(length)

ChunkTypes == /\ length \in Seq(Nat)
              /\ overlap \in Nat
              /\ next \in 1 .. Len(length) + 1
              /\ chunks \in Seq(Seq(Segs))
              /\ current \in Seq(Segs)
              /\ done \in BOOLEAN

ChunkRuns == /\ Run(current)
             /\ \A k \in DOMAIN chunks : chunks[k] # <<>> /\ Run(chunks[k])
             /\ \A k \in 1 .. Len(chunks) - 1 : Follows(chunks[k], chunks[k + 1])

\* The current chunk ends where the loop is and follows the last one.
ChunkPlace == /\ current = <<>> => next = 1 /\ chunks = <<>>
              /\ current # <<>> => Last(current) = next - 1
              /\ ~done /\ chunks # <<>> => Follows(Last(chunks), current)

ChunkCover == /\ Covered(chunks) \cup ToSet(current) = 1 .. next - 1
              /\ done => next = Len(length) + 1 /\ ToSet(current) \subseteq Covered(chunks)

ChunkFits == /\ \A k \in DOMAIN chunks : Fits(chunks[k], Old(k))
             /\ ~done => Fits(current, Old(Len(chunks) + 1))

ChunkInv == ChunkTypes /\ ChunkRuns /\ ChunkPlace /\ ChunkCover /\ ChunkFits

LEMMA ChunkInit == CInit => ChunkInv
<1> SUFFICES ASSUME CInit PROVE ChunkInv
  OBVIOUS
<1>1. ChunkTypes
  <2>1. PICK m \in 0 .. MaxSegments : length \in [1 .. m -> 0 .. MaxLength]
    BY DEF CInit, SeqOf
  <2>2. length \in Seq(Nat) /\ Len(length) \in Nat
    BY <2>1, ChunkingAssumption
  <2>3. chunks = <<>> /\ current = <<>> /\ next = 1 /\ done = FALSE /\ overlap \in Nat
    BY ChunkingAssumption DEF CInit
  <2>4. chunks \in Seq(Seq(Segs)) /\ current \in Seq(Segs)
    BY <2>3, EmptySeq
  <2>5. done \in BOOLEAN
    BY <2>3, Zenon
  <2>6. next \in 1 .. Len(length) + 1
    BY <2>2, <2>3
  <2> QED BY <2>2, <2>3, <2>4, <2>5, <2>6 DEF ChunkTypes
<1>2. ChunkRuns /\ ChunkPlace
  BY DEF CInit, ChunkRuns, ChunkPlace, Run
<1>3. ChunkCover
  BY DEF CInit, ChunkCover, Covered, ToSet
<1>4. ChunkFits
  BY DEF CInit, ChunkFits, Fits, ToSet
<1> QED BY <1>1, <1>2, <1>3, <1>4 DEF ChunkInv

\* The overlap: the last segments of a chunk, `overlap` of them if it has them.
LEMMA CarriedIsTail ==
  ASSUME NEW S, NEW c \in Seq(S), overlap \in Nat
  PROVE  /\ Carried(c) \in Seq(S)
         /\ Len(Carried(c)) = Min({overlap, Len(c)})
         /\ \A k \in 1 .. Len(Carried(c)) :
              Carried(c)[k] = c[Len(c) - Len(Carried(c)) + k]
         /\ ToSet(Carried(c)) \subseteq ToSet(c)
<1>1. Len(c) \in Nat /\ Min({overlap, Len(c)}) = IF overlap <= Len(c) THEN overlap ELSE Len(c)
  BY MinOfTwo
<1>2. CASE overlap = 0
  BY <1>1, <1>2 DEF Carried, ToSet
<1>3. CASE overlap > Len(c)
  <2>1. Carried(c) = c
    BY <1>1, <1>3 DEF Carried, LastOf
  <2> QED BY <1>1, <1>3, <2>1
<1>4. CASE overlap > 0 /\ overlap <= Len(c)
  <2>1. Carried(c) = SubSeq(c, Len(c) - overlap + 1, Len(c))
    BY <1>1, <1>4 DEF Carried, LastOf
  <2>2. \A i \in Len(c) - overlap + 1 .. Len(c) : c[i] \in S
    BY <1>4
  <2>3. /\ Carried(c) \in Seq(S)
        /\ Len(Carried(c)) = overlap
        /\ \A k \in 1 .. overlap : Carried(c)[k] = c[Len(c) - overlap + k]
    <3> DEFINE m == Len(c) - overlap + 1
               n == Len(c)
    <3>1. m \in Int /\ n \in Int /\ m <= n /\ n - m + 1 = overlap
      BY <1>1, <1>4
    <3>2. /\ SubSeq(c, m, n) \in Seq(S)
          /\ Len(SubSeq(c, m, n)) = IF m <= n THEN n - m + 1 ELSE 0
          /\ \A i \in 1 .. n - m + 1 : SubSeq(c, m, n)[i] = c[m + i - 1]
      BY <2>2, <3>1, SubSeqProperties
    <3>3. \A k \in 1 .. overlap : m + k - 1 = Len(c) - overlap + k
      BY <1>1
    <3> QED BY <2>1, <3>1, <3>2, <3>3
  <2>4. \A k \in DOMAIN Carried(c) : Len(c) - overlap + k \in DOMAIN c
    BY <1>1, <1>4, <2>3
  <2>5. ToSet(Carried(c)) \subseteq ToSet(c)
    BY <2>3, <2>4 DEF ToSet
  <2> QED BY <1>1, <1>4, <2>3, <2>5
<1> QED BY <1>1, <1>2, <1>3, <1>4
LEMMA RunAppend ==
  ASSUME NEW c \in Seq(Int), Run(c), NEW x \in Int, Len(c) > 0 => x = c[Len(c)] + 1
  PROVE  Run(Append(c, x))
<1>1. /\ Len(c) \in Nat /\ Len(Append(c, x)) = Len(c) + 1
      /\ Append(c, x)[Len(c) + 1] = x
      /\ \A k \in 1 .. Len(c) : Append(c, x)[k] = c[k] /\ c[k] \in Int
  OBVIOUS
<1>2. \A k \in 1 .. Len(c) : c[k] = c[1] + k - 1
  BY DEF Run
<1> DEFINE d == Append(c, x)
<1> HIDE DEF d
<1>3. ASSUME NEW k \in 1 .. Len(c) + 1 PROVE d[k] = d[1] + k - 1
  <2>1. CASE Len(c) = 0
    BY <1>1, <1>3, <2>1 DEF d
  <2>2. CASE Len(c) > 0
    <3>1. d[1] = c[1] /\ c[1] \in Int /\ x = c[1] + Len(c)
      <4>1. 1 \in 1 .. Len(c) /\ Len(c) \in 1 .. Len(c)
        BY <1>1, <2>2
      <4>2. c[Len(c)] = c[1] + Len(c) - 1 /\ c[1] \in Int
        BY <1>1, <1>2, <4>1
      <4> QED BY <1>1, <2>2, <4>1, <4>2 DEF d
    <3>2. CASE k = Len(c) + 1
      BY <1>1, <3>1, <3>2 DEF d
    <3>3. CASE k \in 1 .. Len(c)
      BY <1>1, <1>2, <3>1, <3>3 DEF d
    <3> QED BY <1>1, <3>2, <3>3
  <2> QED BY <1>1, <2>1, <2>2
<1> QED BY <1>1, <1>3 DEF Run, d

LEMMA ChunkTake == ChunkInv /\ TakeSegment => ChunkInv'
<1> SUFFICES ASSUME ChunkInv, TakeSegment PROVE ChunkInv'
  OBVIOUS
<1>1. /\ length \in Seq(Nat) /\ overlap \in Nat /\ chunks \in Seq(Seq(Segs))
      /\ current \in Seq(Segs) /\ current \in Seq(Int)
      /\ done = FALSE /\ done' = FALSE /\ next \in Segs /\ next' = next + 1
      /\ length' = length /\ overlap' = overlap /\ Segs' = Segs
      /\ Len(length) \in Nat /\ Len(current) \in Nat /\ Len(chunks) \in Nat
      /\ DOMAIN chunks = 1 .. Len(chunks) /\ DOMAIN current = 1 .. Len(current)
      /\ next \in 1 .. Len(length) /\ next \in Nat /\ Segs = DOMAIN length
      /\ \A k \in 1 .. Len(current) : current[k] \in Int
  <2>1. /\ length \in Seq(Nat) /\ overlap \in Nat /\ chunks \in Seq(Seq(Segs))
        /\ current \in Seq(Segs) /\ next \in 1 .. Len(length) + 1 /\ done \in BOOLEAN
    BY DEF ChunkInv, ChunkTypes
  <2>2. /\ ~done /\ done' = done /\ next <= Len(length) /\ next' = next + 1
        /\ length' = length /\ overlap' = overlap
    BY DEF TakeSegment
  <2>3. Segs' = Segs /\ Segs = DOMAIN length /\ Segs \subseteq Int /\ Len(length) \in Nat
    BY <2>1, <2>2 DEF Segs
  <2>4. current \in Seq(Int) /\ \A k \in 1 .. Len(current) : current[k] \in Int
    BY <2>1, <2>3
  <2>5. next \in 1 .. Len(length) /\ next \in Nat
    BY <2>1, <2>2
  <2> QED BY <2>1, <2>2, <2>3, <2>4, <2>5
<1>0. Len(current) \in Nat /\ Len(chunks) \in Nat /\ overlap \in Nat /\ next \in Nat
  BY <1>1
<1>2. /\ current = <<>> <=> Len(current) = 0
      /\ chunks = <<>> <=> Len(chunks) = 0
  BY <1>1
<1>3. /\ Run(current)
      /\ \A k \in 1 .. Len(chunks) : chunks[k] # <<>> /\ Run(chunks[k])
      /\ \A k \in 1 .. Len(chunks) - 1 : Follows(chunks[k], chunks[k + 1])
  BY <1>1 DEF ChunkInv, ChunkRuns
<1>4. /\ Len(current) = 0 => next = 1 /\ Len(chunks) = 0
      /\ Len(current) > 0 => current[Len(current)] = next - 1
      /\ Len(chunks) > 0 => Follows(chunks[Len(chunks)], current)
  BY <1>1, <1>2 DEF ChunkInv, ChunkPlace, Last
<1>5. Covered(chunks) \cup ToSet(current) = 1 .. next - 1
  BY DEF ChunkInv, ChunkCover
<1>6. /\ \A k \in 1 .. Len(chunks) : Fits(chunks[k], Old(k))
      /\ Fits(current, Old(Len(chunks) + 1))
  BY <1>1 DEF ChunkInv, ChunkFits
<1>7. \A c, old : Fits(c, old)' <=> Fits(c, old)
  BY <1>1, CharsIsCount DEF Fits
<1> HIDE DEF ChunkInv, TakeSegment
<1>8. CASE ~Full
  <2>1. current' = Append(current, next) /\ chunks' = chunks
    BY <1>8 DEF TakeSegment
  <2>2. /\ Len(current') = Len(current) + 1 /\ current'[Len(current) + 1] = next
        /\ \A k \in 1 .. Len(current) : current'[k] = current[k]
        /\ current' \in Seq(Segs)
    BY <1>1, <2>1
  <2>3. ChunkTypes'
    <3>1. next' \in 1 .. Len(length) + 1
      BY <1>1
    <3> QED BY <1>1, <2>1, <2>2, <3>1 DEF ChunkTypes
  <2>4. Run(current')
    <3>1. Len(current) > 0 => next = current[Len(current)] + 1
      BY <1>1, <1>4
    <3> QED BY <1>1, <1>3, <2>1, <3>1, RunAppend
  <2>5. ChunkRuns'
    BY <1>1, <1>3, <2>1, <2>4 DEF ChunkRuns, Run, Follows
  <2>6. Last(current') = next
    BY <2>2 DEF Last
  <2>7. Len(chunks) > 0 => Follows(Last(chunks), current')
    <3> SUFFICES ASSUME Len(chunks) > 0 PROVE Follows(Last(chunks), current')
      OBVIOUS
    <3>1. current'[1] = current[1] /\ Last(current) = next - 1
      <4>1. Len(current) > 0 /\ 1 \in 1 .. Len(current)
        BY <1>1, <1>4 DEF Follows, Last
      <4> QED BY <1>4, <2>2, <4>1 DEF Last
    <3>2. Follows(Last(chunks), current)
      BY <1>1, <1>4 DEF Last
    <3>3. chunks[Len(chunks)] \in Seq(Segs) /\ chunks[Len(chunks)] # <<>>
      BY <1>1, <1>3
    <3>4. Last(Last(chunks)) \in Int
      BY <3>3 DEF Last, Segs
    <3> QED BY <1>1, <2>6, <3>1, <3>2, <3>4 DEF Follows
  <2>8. ChunkPlace'
    <3>1. current' # <<>> /\ Last(current') = next' - 1
      BY <1>1, <2>2, <2>6
    <3>2. chunks' # <<>> => Follows(Last(chunks), current)'
      BY <1>1, <1>2, <2>1, <2>7 DEF Follows
    <3> QED BY <3>1, <3>2 DEF ChunkPlace
  <2>9. ToSet(current') = ToSet(current) \cup {next}
    BY <1>1, <2>1, ToSetAppend
  <2>10. ChunkCover'
    <3>1. Covered(chunks') = Covered(chunks)
      BY <2>1
    <3>2. 1 .. next' - 1 = (1 .. next - 1) \cup {next}
      BY <1>1
    <3> QED BY <1>1, <1>5, <2>9, <3>1, <3>2 DEF ChunkCover
  <2>11. Fits(current', Old(Len(chunks) + 1))
    <3>1. Chars(current') = Chars(current) + length[next] /\ Chars(current) \in Nat
      BY <1>1, <2>1, CharsAppend
    <3>2. CASE Len(current) = 0
      <4>1. ToSet(current) = {}
        BY <1>1, <3>2 DEF ToSet
      <4> QED BY <1>1, <2>9, <4>1 DEF Fits
    <3>3. CASE Len(current) > 0
      <4>1. ~ (Chars(current) + length[next] > MaxChars)
        BY <1>2, <1>8, <3>3 DEF Full
      <4> QED BY <1>1, <3>1, <4>1, ChunkingAssumption DEF Fits
    <3> QED BY <1>1, <3>2, <3>3
  <2>12. ChunkFits'
    <3>1. \A k : Old(k)' = Old(k)
      BY <2>1 DEF Old
    <3> QED BY <1>1, <1>6, <1>7, <2>1, <2>11, <3>1 DEF ChunkFits
  <2> QED BY <2>3, <2>5, <2>8, <2>10, <2>12 DEF ChunkInv
<1>9. CASE Full
  <2>1. /\ Len(current) > 0 /\ chunks' = Append(chunks, current)
        /\ current' = Append(Carried(current), next)
    BY <1>1, <1>2, <1>9 DEF TakeSegment, Full
  <2> DEFINE t == Carried(current)
             m == Min({overlap, Len(current)})
  <2>2. /\ t \in Seq(Segs) /\ Len(t) = m
        /\ \A k \in 1 .. m : t[k] = current[Len(current) - m + k]
        /\ ToSet(t) \subseteq ToSet(current)
    BY <1>1, CarriedIsTail
  <2>3. m \in Int /\ 0 <= m /\ m <= Len(current)
    <3>1. m = IF overlap <= Len(current) THEN overlap ELSE Len(current)
      BY <1>0, MinOfTwo
    <3> QED BY <1>0, <3>1
  <2>4. current' = Append(t, next)
    BY <2>1
  <2> HIDE DEF t
  <2>5. current' \in Seq(Segs) /\ chunks' \in Seq(Seq(Segs))
    BY <1>1, <2>1, <2>2, <2>4
  <2>6. ChunkTypes'
    <3>1. next' \in 1 .. Len(length) + 1
      BY <1>1
    <3> QED BY <1>1, <2>5, <3>1 DEF ChunkTypes
  <2>7. \A k \in 1 .. Len(current) : current[k] = next - 1 - Len(current) + k
    <3>1. 1 \in 1 .. Len(current) /\ Len(current) \in 1 .. Len(current)
      BY <1>1, <2>1
    <3>2. next - 1 = current[1] + Len(current) - 1
      BY <1>3, <1>4, <2>1, <3>1 DEF Run
    <3>3. current[1] \in Int /\ \A k \in 1 .. Len(current) : current[k] = current[1] + k - 1
      BY <1>1, <1>3, <3>1 DEF Run
    <3> QED BY <1>0, <3>2, <3>3
  <2> HIDE DEF m
  <2>8. \A k \in 1 .. m : t[k] = next - 1 - m + k
    <3>1. \A k \in 1 .. m : Len(current) - m + k \in 1 .. Len(current)
      BY <1>1, <2>3
    <3>2. \A k \in 1 .. m : t[k] = current[Len(current) - m + k]
      BY <2>2
    <3>3. \A k \in 1 .. m : current[Len(current) - m + k]
                              = next - 1 - Len(current) + (Len(current) - m + k)
      BY <2>7, <3>1
    <3> QED BY <1>0, <2>3, <3>2, <3>3
  <2>9. /\ Len(current') = m + 1 /\ current'[m + 1] = next
        /\ \A k \in 1 .. m : current'[k] = t[k]
    BY <1>0, <2>2, <2>3, <2>4
  <2>10. \A k \in 1 .. m + 1 : current'[k] = next - m - 1 + k
    BY <1>0, <2>3, <2>8, <2>9
  <2>11. Run(current') /\ current'[1] = next - m /\ Last(current') = next
    <3>1. 1 \in 1 .. m + 1
      BY <2>3
    <3>2. current'[1] = next - m
      BY <1>1, <2>3, <2>10, <3>1
    <3> QED BY <1>1, <2>3, <2>9, <2>10, <3>2 DEF Run, Last
  <2>12. Follows(current, current')
    BY <1>0, <1>4, <2>1, <2>3, <2>11 DEF Follows, Last, m
  <2>13. /\ Len(chunks') = Len(chunks) + 1 /\ chunks'[Len(chunks) + 1] = current
         /\ \A k \in 1 .. Len(chunks) : chunks'[k] = chunks[k]
         /\ DOMAIN chunks' = 1 .. Len(chunks) + 1
    BY <1>1, <2>1
  <2>14. ChunkRuns'
    <3>1. \A k \in 1 .. Len(chunks) + 1 : chunks'[k] # <<>> /\ Run(chunks'[k])
      BY <1>0, <1>2, <1>3, <2>1, <2>13
    <3>2. \A k \in 1 .. Len(chunks) : Follows(chunks'[k], chunks'[k + 1])
      <4> TAKE k \in 1 .. Len(chunks)
      <4>1. CASE k = Len(chunks)
        BY <1>0, <1>4, <2>13, <4>1
      <4>2. CASE k \in 1 .. Len(chunks) - 1
        <5>1. k + 1 \in 1 .. Len(chunks)
          BY <1>1, <4>2
        <5> QED BY <1>3, <2>13, <4>2, <5>1
      <4> QED BY <1>0, <4>1, <4>2
    <3>3. overlap' = overlap /\ 1 .. Len(chunks') - 1 = 1 .. Len(chunks)
      BY <1>0, <1>1, <2>13
    <3> QED BY <2>11, <2>13, <3>1, <3>2, <3>3 DEF ChunkRuns, Run, Follows
  <2>15. ChunkPlace'
    <3>1. current' # <<>> /\ Last(current') = next' - 1
      BY <1>1, <2>3, <2>9, <2>11
    <3>2. Follows(Last(chunks), current)'
      BY <1>1, <2>12, <2>13 DEF Last, Follows
    <3> QED BY <3>1, <3>2 DEF ChunkPlace
  <2>16. ToSet(current') = ToSet(t) \cup {next}
    BY <1>1, <2>2, <2>4, ToSetAppend
  <2>17. ChunkCover'
    <3>1. Covered(chunks') = Covered(chunks) \cup ToSet(current)
      <4>1. 1 .. Len(chunks) + 1 = (1 .. Len(chunks)) \cup {Len(chunks) + 1}
        BY <1>0
      <4>2. DOMAIN chunks = 1 .. Len(chunks)
        BY <1>1
      <4> QED BY <2>13, <4>1, <4>2 DEF Covered
    <3>2. 1 .. next' - 1 = (1 .. next - 1) \cup {next}
      BY <1>1
    <3> QED BY <1>1, <1>5, <2>2, <2>16, <3>1, <3>2 DEF ChunkCover
  <2>18. ChunkFits'
    <3>1. \A k \in 1 .. Len(chunks) + 1 : Old(k)' = Old(k)
      BY <1>0, <2>13 DEF Old
    <3>2. Old(Len(chunks) + 1)' = ToSet(current)
      <4>1. Len(chunks') + 1 # 1 /\ Len(chunks') + 1 - 1 = Len(chunks) + 1
        BY <1>0, <2>13
      <4> QED BY <2>13, <4>1 DEF Old
    <3>3. Fits(current', ToSet(current))
      BY <1>1, <2>2, <2>16 DEF Fits
    <3>4. \A k \in 1 .. Len(chunks) + 1 : Fits(chunks'[k], Old(k))
      BY <1>0, <1>6, <2>13
    <3>5. Len(chunks') + 1 = Len(chunks) + 2
      BY <1>0, <2>13
    <3>6. \A k \in DOMAIN chunks' : Fits(chunks[k], Old(k))'
      BY <1>7, <2>13, <3>1, <3>4
    <3>7. Fits(current, Old(Len(chunks) + 1))'
      BY <1>7, <3>2, <3>3
    <3> QED BY <3>6, <3>7 DEF ChunkFits, Fits
  <2> QED BY <2>6, <2>14, <2>15, <2>17, <2>18 DEF ChunkInv
<1> QED BY <1>8, <1>9
LEMMA ChunkReturn == ChunkInv /\ Return => ChunkInv'
<1> SUFFICES ASSUME ChunkInv, Return PROVE ChunkInv'
  OBVIOUS
<1>1. /\ length \in Seq(Nat) /\ overlap \in Nat /\ chunks \in Seq(Seq(Segs))
      /\ current \in Seq(Segs)
      /\ done = FALSE /\ done' = TRUE /\ next = Len(length) + 1 /\ next' = next
      /\ length' = length /\ overlap' = overlap /\ Segs' = Segs /\ current' = current
      /\ Len(chunks) \in Nat /\ Len(current) \in Nat /\ Len(length) \in Nat
      /\ DOMAIN chunks = 1 .. Len(chunks)
  <2>1. ChunkTypes /\ Return
    BY DEF ChunkInv
  <2>2. Len(length) \in Nat /\ next \in 1 .. Len(length) + 1 /\ next > Len(length)
    BY <2>1 DEF ChunkTypes, Return
  <2>3. next = Len(length) + 1
    BY <2>2
  <2> QED BY <2>1, <2>3 DEF Return, ChunkTypes, Segs
<1>2. \A c, old : Fits(c, old)' <=> Fits(c, old)
  BY <1>1, CharsIsCount DEF Fits
<1>3. ChunkRuns /\ ChunkPlace /\ ChunkCover /\ ChunkFits
  BY DEF ChunkInv
<1>4. CASE current = <<>> \/ NothingNew
  <2>1. chunks' = chunks
    BY <1>4 DEF Return
  <2>2. ChunkTypes'
    BY <1>1, <2>1 DEF ChunkTypes
  <2>3. ChunkRuns'
    BY <1>1, <1>3, <2>1 DEF ChunkRuns, Run, Follows
  <2>4. ChunkPlace'
    BY <1>1, <1>3, <2>1 DEF ChunkPlace
  <2>5. ToSet(current) \subseteq Covered(chunks)
    <3>1. CASE current = <<>>
      BY <3>1 DEF ToSet
    <3>2. CASE NothingNew
      <4>1. Len(chunks) \in DOMAIN chunks
        BY <1>1, <3>2 DEF NothingNew
      <4> QED BY <3>2, <4>1 DEF NothingNew, Last, Covered
    <3> QED BY <1>4, <3>1, <3>2
  <2>6. ChunkCover'
    BY <1>1, <1>3, <2>1, <2>5 DEF ChunkCover, Covered
  <2>7. ChunkFits'
    <3>1. \A k : Old(k)' = Old(k)
      BY <2>1 DEF Old
    <3> QED BY <1>1, <1>2, <1>3, <2>1, <3>1 DEF ChunkFits
  <2> QED BY <2>2, <2>3, <2>4, <2>6, <2>7 DEF ChunkInv
<1>5. CASE ~(current = <<>> \/ NothingNew)
  <2>1. chunks' = Append(chunks, current) /\ current # <<>>
    BY <1>5 DEF Return
  <2>2. /\ Len(chunks') = Len(chunks) + 1 /\ chunks'[Len(chunks) + 1] = current
        /\ \A k \in 1 .. Len(chunks) : chunks'[k] = chunks[k]
        /\ DOMAIN chunks' = 1 .. Len(chunks) + 1
        /\ chunks' \in Seq(Seq(Segs)) /\ chunks' # <<>>
    <3>1. chunks \in Seq(Seq(Segs)) /\ current \in Seq(Segs) /\ Len(chunks) \in Nat
      BY <1>1
    <3> HIDE <1>1
    <3>2. /\ Len(chunks') = Len(chunks) + 1 /\ chunks'[Len(chunks) + 1] = current
          /\ \A k \in 1 .. Len(chunks) : chunks'[k] = chunks[k]
          /\ chunks' \in Seq(Seq(Segs))
      BY <2>1, <3>1
    <3>3. DOMAIN chunks' = 1 .. Len(chunks) + 1 /\ chunks' # <<>>
      BY <3>1, <3>2
    <3> QED BY <3>2, <3>3
  <2>3. ChunkTypes'
    BY <1>1, <2>2 DEF ChunkTypes
  <2>4. ChunkRuns'
    <3>1. \A k \in 1 .. Len(chunks) + 1 : chunks'[k] # <<>> /\ Run(chunks'[k])
      <4>1. Len(chunks) \in Nat /\ DOMAIN chunks = 1 .. Len(chunks)
        BY <1>1
      <4>2. Run(current) /\ \A k \in 1 .. Len(chunks) : chunks[k] # <<>> /\ Run(chunks[k])
        BY <1>3, <4>1 DEF ChunkRuns
      <4> TAKE k \in 1 .. Len(chunks) + 1
      <4>3. CASE k = Len(chunks) + 1
        BY <2>1, <2>2, <4>2, <4>3
      <4>4. CASE k \in 1 .. Len(chunks)
        BY <2>2, <4>2, <4>4
      <4> QED BY <4>1, <4>3, <4>4
    <3>2. Len(chunks) > 0 => Follows(chunks[Len(chunks)], current)
      BY <1>1, <1>3 DEF ChunkPlace, Last
    <3>3. \A k \in 1 .. Len(chunks) : Follows(chunks'[k], chunks'[k + 1])
      <4> TAKE k \in 1 .. Len(chunks)
      <4>1. Len(chunks) \in Nat
        BY <1>1
      <4>2. CASE k = Len(chunks)
        BY <2>2, <3>2, <4>1, <4>2
      <4>3. CASE k \in 1 .. Len(chunks) - 1
        <5>1. k + 1 \in 1 .. Len(chunks)
          BY <4>1, <4>3
        <5> QED BY <1>3, <2>2, <4>3, <5>1 DEF ChunkRuns
      <4> QED BY <4>1, <4>2, <4>3
    <3>4. 1 .. Len(chunks') - 1 = 1 .. Len(chunks) /\ overlap' = overlap /\ Run(current')
      BY <1>1, <1>3, <2>2 DEF ChunkRuns
    <3> QED BY <2>2, <3>1, <3>3, <3>4 DEF ChunkRuns, Run, Follows
  <2>5. ChunkPlace'
    BY <1>1, <1>3, <2>1, <2>2 DEF ChunkPlace
  <2>6. ChunkCover'
    <3>1. 1 .. Len(chunks) + 1 = (1 .. Len(chunks)) \cup {Len(chunks) + 1}
      BY <1>1
    <3>2. Covered(chunks') = Covered(chunks) \cup ToSet(current)
      BY <1>1, <2>2, <3>1 DEF Covered
    <3> QED BY <1>1, <1>3, <3>2 DEF ChunkCover
  <2>7. ChunkFits'
    <3>1. \A k \in 1 .. Len(chunks) + 1 : Old(k)' = Old(k)
      <4>1. Len(chunks) \in Nat
        BY <1>1
      <4>2. \A k \in 1 .. Len(chunks) + 1 : k = 1 \/ k - 1 \in 1 .. Len(chunks)
        BY <4>1
      <4> QED BY <2>2, <4>2 DEF Old
    <3>2. \A k \in 1 .. Len(chunks) + 1 : Fits(chunks'[k], Old(k))
      <4>1. Len(chunks) \in Nat /\ DOMAIN chunks = 1 .. Len(chunks) /\ ~done
        BY <1>1
      <4>2. \A k \in 1 .. Len(chunks) + 1 : k \in 1 .. Len(chunks) \/ k = Len(chunks) + 1
        BY <4>1
      <4>3. \A k \in 1 .. Len(chunks) : Fits(chunks[k], Old(k))
        BY <1>3, <4>1 DEF ChunkFits
      <4>4. Fits(current, Old(Len(chunks) + 1))
        BY <1>3, <4>1 DEF ChunkFits
      <4> QED BY <2>2, <4>2, <4>3, <4>4
    <3>3. \A k \in DOMAIN chunks' : Fits(chunks[k], Old(k))'
      BY <1>2, <2>2, <3>1, <3>2
    <3> QED BY <1>1, <3>3 DEF ChunkFits
  <2> QED BY <2>3, <2>4, <2>5, <2>6, <2>7 DEF ChunkInv
<1> QED BY <1>4, <1>5

LEMMA ChunkStep == ChunkInv /\ [CNext]_vars => ChunkInv'
<1>1. ASSUME ChunkInv, UNCHANGED vars PROVE ChunkInv'
  <2>1. /\ length' = length /\ overlap' = overlap /\ next' = next /\ chunks' = chunks
        /\ current' = current /\ done' = done
    BY <1>1 DEF vars
  <2>2. ChunkTypes' /\ ChunkRuns' /\ ChunkPlace' /\ ChunkCover'
    <3>1. Segs' = Segs /\ ChunkTypes /\ ChunkRuns /\ ChunkPlace /\ ChunkCover
      BY <1>1, <2>1 DEF ChunkInv, Segs
    <3>2. ChunkTypes'
      BY <2>1, <3>1 DEF ChunkTypes
    <3>3. ChunkRuns' /\ ChunkPlace'
      BY <2>1, <3>1 DEF ChunkRuns, Run, Follows, ChunkPlace
    <3>4. ChunkCover'
      BY <2>1, <3>1 DEF ChunkCover, Covered
    <3> QED BY <3>2, <3>3, <3>4
  <2>3. \A c, old : Fits(c, old)' <=> Fits(c, old)
    BY <2>1, CharsIsCount DEF Fits
  <2>4. ChunkFits'
    BY <1>1, <2>1, <2>3 DEF ChunkInv, ChunkFits, Old
  <2> QED BY <2>2, <2>4 DEF ChunkInv
<1> QED BY <1>1, ChunkTake, ChunkReturn DEF CNext

LEMMA ChunksCover == ChunkInv => CoversInOrder
<1> SUFFICES ASSUME ChunkInv PROVE CoversInOrder
  OBVIOUS
<1>1. chunks \in Seq(Seq(Segs)) /\ DOMAIN chunks = 1 .. Len(chunks) /\ length \in Seq(Nat)
  BY DEF ChunkInv, ChunkTypes
<1>2. \A k \in DOMAIN chunks : chunks[k] # <<>> /\ Consecutive(chunks[k])
  <2> TAKE k \in DOMAIN chunks
  <2>1. chunks[k] # <<>> /\ Run(chunks[k]) /\ chunks[k] \in Seq(Segs)
    BY <1>1 DEF ChunkInv, ChunkRuns
  <2> DEFINE c == chunks[k]
  <2> HIDE DEF c
  <2>2. ASSUME NEW n \in 1 .. Len(c) - 1 PROVE c[n + 1] = c[n] + 1
    <3>1. /\ Len(c) \in Nat /\ 1 \in 1 .. Len(c) /\ n \in 1 .. Len(c) /\ n + 1 \in 1 .. Len(c)
          /\ c[1] \in Int
      BY <2>1, <2>2 DEF c, Segs
    <3> QED BY <2>1, <3>1 DEF Run, c
  <2> QED BY <2>1, <2>2 DEF Consecutive, c
<1>3. \A k \in 1 .. Len(chunks) - 1 :
        /\ chunks[k + 1][1] = Last(chunks[k]) - Min({overlap, Len(chunks[k])}) + 1
        /\ Last(chunks[k + 1]) > Last(chunks[k])
  BY DEF ChunkInv, ChunkRuns, Follows
<1>4. done => UNION {ToSet(chunks[k]) : k \in DOMAIN chunks} = DOMAIN length
  <2>1. done => Covered(chunks) = 1 .. Len(length)
    <3> SUFFICES ASSUME done PROVE Covered(chunks) = 1 .. Len(length)
      OBVIOUS
    <3>1. next = Len(length) + 1 /\ Covered(chunks) = 1 .. next - 1
      BY DEF ChunkInv, ChunkCover
    <3>2. Len(length) \in Nat
      BY <1>1
    <3> QED BY <3>1, <3>2
  <2>2. DOMAIN length = 1 .. Len(length)
    BY <1>1
  <2> QED BY <2>1, <2>2 DEF Covered
<1> QED BY <1>2, <1>3, <1>4 DEF CoversInOrder

LEMMA ChunksSmall == ChunkInv => ChunksFit
<1> SUFFICES ASSUME ChunkInv, NEW k \in DOMAIN chunks,
                    Cardinality(ToSet(chunks[k]) \ Old(k)) > 1
             PROVE  Chars(chunks[k]) <= MaxChars
  BY DEF ChunksFit, Old
<1>1. Fits(chunks[k], Old(k))
  BY DEF ChunkInv, ChunkFits
<1>2. ASSUME NEW x \in Nat, ToSet(chunks[k]) \ Old(k) \subseteq {x} PROVE FALSE
  <2>1. IsFiniteSet({x}) /\ Cardinality({x}) = 1
    BY FS_Singleton
  <2>2. Cardinality(ToSet(chunks[k]) \ Old(k)) <= 1
    BY <1>2, <2>1, FS_Subset
  <2>3. Cardinality(ToSet(chunks[k]) \ Old(k)) \in Nat
    BY <1>2, <2>1, FS_Subset, FS_CardinalityType
  <2> QED BY <2>2, <2>3
<1> QED BY <1>1, <1>2 DEF Fits
-----------------------------------------------------------------------------
(* summarize. *)

\* The calls made for chunk k.
Asked(k) == {n \in DOMAIN asked : asked[n].about = "map" /\ asked[n].chunk = k}

SumTypes == /\ asked \in Seq([about: {"whole", "map", "merge"}, chunk: Nat, retry: BOOLEAN])
            /\ retrying \in BOOLEAN
            /\ parts \in Seq(Nat) /\ \A k \in 1 .. Len(parts) : parts[k] = k

\* Where a summary stands: nothing is asked before the transcript is split, and
\* the parts are those of the first chunks.
SumPlace ==
  /\ phase \in {"start", "split"} => parts = <<>> /\ asked = <<>> /\ ~done /\ ~retrying
  /\ phase = "split" => Len(length) > 0
  /\ phase = "whole" => ~done
  /\ phase = "map" => done /\ Len(parts) < Len(chunks)
  /\ phase = "merge" \/ (phase = "returned" /\ done) => done /\ Len(parts) = Len(chunks)

\* One call or two for each part there is; at most one, an invalid answer, for
\* the next.
SumCalls ==
  /\ phase \in {"map", "merge"} \/ (phase = "returned" /\ done) =>
       \A k \in 1 .. Len(parts) : Cardinality(Asked(k)) \in 1 .. 2
  /\ phase = "map" =>
       /\ \A k \in Nat : k > Len(parts) => Cardinality(Asked(k)) <= 1
       /\ ~retrying => \A k \in Nat : k > Len(parts) => Asked(k) = {}
       /\ \A k \in Nat : k > Len(parts) + 1 => Asked(k) = {}

\* What was shown is the whole transcript or a chunk that exists.
SumShown ==
  \A n \in DOMAIN asked :
    /\ asked[n].about \in {"whole", "map", "merge"}
    /\ asked[n].about = "map" => done /\ asked[n].chunk \in DOMAIN chunks

SumInv == SumTypes /\ SumPlace /\ SumCalls /\ SumShown /\ QuotesWereShown

LEMMA SumStart == UInit => SumInv
<1> SUFFICES ASSUME UInit PROVE SumInv
  OBVIOUS
<1>1. /\ phase = "start" /\ asked = <<>> /\ ~retrying /\ parts = <<>> /\ ~done
      /\ retrying \in BOOLEAN
  BY DEF UInit, CInit
<1>2. SumTypes
  <2>1. /\ asked \in Seq([about: {"whole", "map", "merge"}, chunk: Nat, retry: BOOLEAN])
        /\ parts \in Seq(Nat) /\ Len(parts) = 0
    BY <1>1, EmptySeq
  <2> QED BY <1>1, <2>1 DEF SumTypes
<1>3. SumPlace /\ SumCalls
  BY <1>1 DEF SumPlace, SumCalls
<1>4. SumShown /\ QuotesWereShown
  BY <1>1 DEF SumShown, QuotesWereShown
<1> QED BY <1>2, <1>3, <1>4 DEF SumInv

LEMMA AskedFinite ==
  ASSUME SumTypes
  PROVE  \A k : IsFiniteSet(Asked(k)) /\ Cardinality(Asked(k)) \in Nat
<1>1. IsFiniteSet(DOMAIN asked)
  <2>1. DOMAIN asked = 1 .. Len(asked) /\ Len(asked) \in Nat
    BY DEF SumTypes
  <2> QED BY <2>1, FS_Interval
<1>2. \A k : Asked(k) \subseteq DOMAIN asked
  BY DEF Asked
<1> QED BY <1>1, <1>2, FS_Subset, FS_CardinalityType

\* A call adds to the calls of the chunk it is for.
LEMMA AskedGrows ==
  ASSUME SumTypes, asked' = Append(asked, Prompt),
         phase \in {"whole", "map", "merge"}
  PROVE  /\ asked' \in Seq([about: {"whole", "map", "merge"}, chunk: Nat, retry: BOOLEAN])
         /\ DOMAIN asked' = DOMAIN asked \cup {Len(asked) + 1}
         /\ Len(asked) + 1 \notin DOMAIN asked
         /\ asked'[Len(asked) + 1] = Prompt
         /\ \A n \in DOMAIN asked : asked'[n] = asked[n]
         /\ phase # "map" => \A k \in Nat : Asked(k)' = Asked(k)
         /\ phase = "map" =>
              /\ \A k \in Nat : k # Len(parts) + 1 => Asked(k)' = Asked(k)
              /\ \A k \in Nat : k = Len(parts) + 1 =>
                   Cardinality(Asked(k)') = Cardinality(Asked(k)) + 1
<1>1. /\ Len(asked) \in Nat /\ Len(parts) \in Nat /\ DOMAIN asked = 1 .. Len(asked)
      /\ asked \in Seq([about: {"whole", "map", "merge"}, chunk: Nat, retry: BOOLEAN])
  BY DEF SumTypes
<1>2. Prompt \in [about: {"whole", "map", "merge"}, chunk: Nat, retry: BOOLEAN]
  BY <1>1 DEF Prompt, SumTypes
<1>3. /\ asked' \in Seq([about: {"whole", "map", "merge"}, chunk: Nat, retry: BOOLEAN])
      /\ DOMAIN asked' = DOMAIN asked \cup {Len(asked) + 1}
      /\ Len(asked) + 1 \notin DOMAIN asked
      /\ asked'[Len(asked) + 1] = Prompt
      /\ \A n \in DOMAIN asked : asked'[n] = asked[n]
  BY <1>1, <1>2
<1>4. /\ Prompt.about = phase
      /\ Prompt.chunk = IF phase = "map" THEN Len(parts) + 1 ELSE 0
  BY DEF Prompt
<1>5. \A k \in Nat : Asked(k)' = IF phase = "map" /\ k = Len(parts) + 1
                                 THEN Asked(k) \cup {Len(asked) + 1} ELSE Asked(k)
  BY <1>3, <1>4 DEF Asked
<1>6. \A k : Len(asked) + 1 \notin Asked(k)
  BY <1>3 DEF Asked
<1>7. ASSUME phase = "map", NEW k \in Nat, k = Len(parts) + 1
      PROVE  Cardinality(Asked(k)') = Cardinality(Asked(k)) + 1
  <2>1. Asked(k)' = Asked(k) \cup {Len(asked) + 1}
    BY <1>5, <1>7
  <2>2. Cardinality(Asked(k) \cup {Len(asked) + 1}) = Cardinality(Asked(k)) + 1
    BY <1>6, AskedFinite, FS_AddElement
  <2> QED BY <2>1, <2>2
<1> QED BY <1>1, <1>3, <1>5, <1>7

LEMMA LinesOf ==
  \A p : /\ p.about = "whole" => Lines(p) = Spoken(DOMAIN length)
         /\ p.about = "map" => Lines(p) = Spoken(ToSet(chunks[p.chunk]))
         /\ p.about = "merge" => Lines(p) = {}
BY DEF Lines, Spoken

\* A piece of a stretch of the transcript is a piece of the transcript.
LEMMA RunsWithin ==
  ASSUME NEW K \in SUBSET DOMAIN length, NEW s \in Seq(Int), RunsOn(s, Spoken(K)),
         \A x, y \in K : \A k \in DOMAIN length : x < k /\ k < y => k \in K
  PROVE  RunsOn(s, DOMAIN length)
<1>1. Spoken(Spoken(K)) = Spoken(K) /\ Spoken(K) \subseteq Spoken(DOMAIN length)
  BY DEF Spoken
<1>2. ToSet(s) \subseteq Spoken(K)
  BY <1>1 DEF RunsOn
<1>3. ASSUME NEW i \in 1 .. Len(s) - 1
      PROVE  s[i] < s[i + 1] /\ ~\E k \in Spoken(DOMAIN length) : s[i] < k /\ k < s[i + 1]
  <2>1. i \in DOMAIN s /\ i + 1 \in DOMAIN s
    OBVIOUS
  <2>2. s[i] \in K /\ s[i + 1] \in K
    BY <1>2, <2>1 DEF ToSet, Spoken
  <2>3. s[i] < s[i + 1] /\ ~\E k \in Spoken(K) : s[i] < k /\ k < s[i + 1]
    BY <1>1 DEF RunsOn
  <2> QED BY <2>2, <2>3 DEF Spoken
<1> QED BY <1>1, <1>2, <1>3 DEF RunsOn

\* Chunks are such stretches.
LEMMA ChunkConvex ==
  ASSUME ChunkInv, NEW j \in DOMAIN chunks
  PROVE  /\ ToSet(chunks[j]) \subseteq DOMAIN length
         /\ \A x, y \in ToSet(chunks[j]) : \A k \in DOMAIN length :
              x < k /\ k < y => k \in ToSet(chunks[j])
<1>1. chunks[j] \in Seq(Segs) /\ Run(chunks[j]) /\ DOMAIN length = Segs /\ Segs \subseteq Nat
  BY DEF ChunkInv, ChunkTypes, ChunkRuns, Segs
<1> DEFINE c == chunks[j]
<1>0. c \in Seq(Segs) /\ Run(c)
  BY <1>1
<1> HIDE DEF c
<1>3. c \in Seq(Segs) /\ DOMAIN c = 1 .. Len(c) /\ Len(c) \in Nat
  BY <1>0
<1>2. \A i \in 1 .. Len(c) : c[i] = c[1] + i - 1 /\ c[i] \in Nat
  <2>1. \A i \in 1 .. Len(c) : c[i] \in Segs
    BY <1>3
  <2> QED BY <1>0, <1>1, <2>1 DEF Run
<1>4. ToSet(c) \subseteq DOMAIN length
  BY <1>1, <1>3 DEF ToSet
<1>5. ASSUME NEW x \in ToSet(c), NEW y \in ToSet(c), NEW k \in DOMAIN length, x < k, k < y
      PROVE  k \in ToSet(c)
  <2>1. PICK a \in 1 .. Len(c) : c[a] = x
    BY <1>3 DEF ToSet
  <2>2. PICK b \in 1 .. Len(c) : c[b] = y
    BY <1>3 DEF ToSet
  <2>3. k \in Nat /\ c[1] \in Nat
    <3>1. 1 \in 1 .. Len(c)
      BY <1>3, <2>1
    <3> QED BY <1>1, <1>2, <3>1
  <2>4. x = c[1] + a - 1 /\ y = c[1] + b - 1
    BY <1>2, <2>1, <2>2
  <2>5. k - c[1] + 1 \in 1 .. Len(c)
    BY <1>3, <1>5, <2>1, <2>2, <2>3, <2>4
  <2>6. c[k - c[1] + 1] = c[1] + (k - c[1] + 1) - 1
    BY <1>2, <2>5
  <2>7. c[k - c[1] + 1] = k
    BY <2>3, <2>6
  <2> QED BY <1>3, <2>5, <2>7 DEF ToSet
<1> QED BY <1>4, <1>5 DEF c

\* What the prompts of a summary have shown, when the last one is sent, is the
\* whole of the meeting.
LEMMA AllShown ==
  ASSUME ChunkInv, SumTypes, SumPlace, SumCalls, SumShown, phase \in {"whole", "merge"},
         asked' = Append(asked, Prompt)
  PROVE  UNION {Lines(asked'[n]) : n \in DOMAIN asked'} = Spoken(DOMAIN length)
<1>1. /\ DOMAIN asked' = DOMAIN asked \cup {Len(asked) + 1}
      /\ asked'[Len(asked) + 1] = Prompt
      /\ \A n \in DOMAIN asked : asked'[n] = asked[n]
  BY AskedGrows
<1>2. Prompt.about = phase
  BY DEF Prompt
<1>3. /\ DOMAIN chunks = 1 .. Len(chunks) /\ Len(chunks) \in Nat
      /\ \A k \in DOMAIN chunks : chunks[k] \in Seq(Segs)
      /\ DOMAIN length = Segs
  BY DEF ChunkInv, ChunkTypes, Segs
<1>4. ASSUME NEW n \in DOMAIN asked' PROVE Lines(asked'[n]) \subseteq Spoken(DOMAIN length)
  <2>1. CASE n \in DOMAIN asked
    <3>1. asked'[n] = asked[n] /\ asked[n].about \in {"whole", "map", "merge"}
      BY <1>1, <2>1 DEF SumShown
    <3>2. asked[n].about = "map" => ToSet(chunks[asked[n].chunk]) \subseteq DOMAIN length
      BY <1>3, <2>1 DEF SumShown, ToSet
    <3> QED BY <3>1, <3>2, LinesOf DEF Spoken
  <2>2. CASE n = Len(asked) + 1
    BY <1>1, <1>2, <2>2, LinesOf
  <2> QED BY <1>1, <1>4, <2>1, <2>2
<1>5. ASSUME NEW q \in Spoken(DOMAIN length) PROVE \E n \in DOMAIN asked' : q \in Lines(asked'[n])
  <2>1. CASE phase = "whole"
    BY <1>1, <1>2, <2>1, LinesOf
  <2>2. CASE phase = "merge"
    <3>1. q \in DOMAIN length /\ length[q] > 0
      BY <1>5 DEF Spoken
    <3>2. Covered(chunks) = DOMAIN length /\ Len(parts) = Len(chunks)
      <4>1. done /\ Len(parts) = Len(chunks)
        BY <2>2 DEF SumPlace
      <4>2. /\ Covered(chunks) \cup ToSet(current) = 1 .. next - 1
            /\ next = Len(length) + 1 /\ ToSet(current) \subseteq Covered(chunks)
        BY <4>1 DEF ChunkInv, ChunkCover
      <4>3. Len(length) \in Nat
        BY DEF ChunkInv, ChunkTypes
      <4>4. Covered(chunks) = 1 .. next - 1
        BY <4>2, Zenon
      <4>5. next - 1 = Len(length)
        BY <4>2, <4>3
      <4> QED BY <1>3, <4>1, <4>4, <4>5 DEF Segs
    <3>3. PICK j \in DOMAIN chunks : q \in ToSet(chunks[j])
      BY <3>1, <3>2 DEF Covered
    <3>4. Cardinality(Asked(j)) \in 1 .. 2
      BY <1>3, <2>2, <3>2 DEF SumCalls
    <3>5. Asked(j) # {}
      <4>1. Cardinality({}) = 0
        BY FS_EmptySet
      <4>2. Cardinality(Asked(j)) # 0
        BY <3>4
      <4> QED BY <4>1, <4>2, Zenon
    <3>6. PICK n \in DOMAIN asked : asked[n].about = "map" /\ asked[n].chunk = j
      BY <3>5 DEF Asked
    <3>7. q \in Lines(asked[n])
      BY <3>1, <3>3, <3>6, LinesOf DEF Spoken
    <3> QED BY <1>1, <3>7
  <2> QED BY <2>1, <2>2
<1> QED BY <1>4, <1>5

\* What a prompt has shown in a row is in the transcript the quotes are looked up in.
LEMMA ShownIsVerified ==
  ASSUME ChunkInv, SumTypes, SumShown, phase \in {"whole", "merge"},
         asked' = Append(asked, Prompt),
         NEW n \in DOMAIN asked', NEW s \in Seq(Int), s # <<>>, RunsOn(s, Lines(asked'[n]))
  PROVE  RunsOn(s, DOMAIN length)
<1>1. /\ DOMAIN asked' = DOMAIN asked \cup {Len(asked) + 1}
      /\ asked'[Len(asked) + 1] = Prompt
      /\ \A m \in DOMAIN asked : asked'[m] = asked[m]
  BY AskedGrows
<1>2. Prompt.about = phase
  BY DEF Prompt
<1>3. asked'[n].about \in {"whole", "map", "merge"}
  BY <1>1, <1>2 DEF SumShown
<1>4. CASE asked'[n].about = "whole"
  <2>1. RunsOn(s, Spoken(DOMAIN length))
    BY <1>4, LinesOf
  <2> QED BY <2>1, RunsWithin
<1>5. CASE asked'[n].about = "map"
  <2>1. n \in DOMAIN asked /\ asked'[n].chunk \in DOMAIN chunks
    BY <1>1, <1>2, <1>5 DEF SumShown
  <2> DEFINE K == ToSet(chunks[asked'[n].chunk])
  <2>2. /\ K \subseteq DOMAIN length
        /\ \A x, y \in K : \A k \in DOMAIN length : x < k /\ k < y => k \in K
    BY <2>1, ChunkConvex
  <2>3. RunsOn(s, Spoken(K))
    BY <1>5, LinesOf
  <2> HIDE DEF K
  <2> QED BY <2>2, <2>3, RunsWithin
<1>6. CASE asked'[n].about = "merge"
  <2>1. RunsOn(s, {})
    BY <1>6, LinesOf
  <2>2. ToSet(s) = {}
    BY <2>1 DEF RunsOn, Spoken
  <2>3. 1 \in DOMAIN s
    OBVIOUS
  <2> QED BY <2>2, <2>3 DEF ToSet
<1> QED BY <1>3, <1>4, <1>5, <1>6

LEMMA SumStep == SumInv /\ ChunkInv /\ ChunkInv' /\ [UNext]_uvars => SumInv'
<1> SUFFICES ASSUME SumInv, ChunkInv, ChunkInv', [UNext]_uvars PROVE SumInv'
  OBVIOUS
<1>1. /\ SumTypes /\ SumPlace /\ SumCalls /\ SumShown /\ QuotesWereShown
      /\ Len(parts) \in Nat /\ Len(asked) \in Nat /\ Len(chunks) \in Nat
      /\ DOMAIN chunks = 1 .. Len(chunks) /\ DOMAIN asked = 1 .. Len(asked)
      /\ DOMAIN parts = 1 .. Len(parts)
  BY DEF SumInv, SumTypes, ChunkInv, ChunkTypes
<1>2. CASE UNCHANGED uvars
  <2>1. /\ phase' = phase /\ asked' = asked /\ retrying' = retrying /\ parts' = parts
        /\ quotes' = quotes /\ kept' = kept /\ chunks' = chunks /\ length' = length
        /\ done' = done
    BY <1>2 DEF uvars, vars, mvars
  <2>2. SumTypes' /\ SumPlace'
    BY <1>1, <2>1 DEF SumTypes, SumPlace
  <2>3. SumCalls' /\ SumShown'
    BY <1>1, <2>1 DEF SumCalls, SumShown, Asked
  <2>4. QuotesWereShown'
    <3>1. \A p : Lines(p)' = Lines(p)
      BY <2>1 DEF Lines, Spoken
    <3>2. \A s, K : RunsOn(s, K)' <=> RunsOn(s, K)
      BY <2>1 DEF RunsOn, Spoken
    <3> QED BY <1>1, <2>1, <3>1, <3>2 DEF QuotesWereShown
  <2> QED BY <2>2, <2>3, <2>4 DEF SumInv
<1>3. CASE Begin \/ NoClient
  <2>1. /\ phase = "start" /\ phase' \in {"failed", "whole", "split"}
        /\ phase' = "split" => length # <<>>
        /\ asked' = asked /\ retrying' = retrying /\ parts' = parts
        /\ chunks' = chunks /\ length' = length /\ done' = done
    BY <1>3 DEF Begin, NoClient, vars
  <2>2. SumTypes'
    BY <1>1, <2>1 DEF SumTypes
  <2>3. SumPlace'
    <3>1. length # <<>> => Len(length) > 0
      BY DEF ChunkInv, ChunkTypes
    <3> QED BY <1>1, <2>1, <3>1 DEF SumPlace
  <2>4. SumCalls' /\ SumShown' /\ QuotesWereShown'
    BY <1>1, <2>1 DEF SumCalls, SumShown, SumPlace, QuotesWereShown
  <2> QED BY <2>2, <2>3, <2>4 DEF SumInv
<1>4. CASE Split
  <2>1. /\ phase = "split" /\ phase' = (IF done' THEN "map" ELSE "split") /\ CNext
        /\ asked' = asked /\ retrying' = retrying /\ parts' = parts
    BY <1>4 DEF Split
  <2>2. length' = length
    BY <2>1 DEF CNext, TakeSegment, Return
  <2>3. asked = <<>> /\ parts = <<>> /\ ~done /\ ~retrying /\ Len(length) > 0
    BY <1>1, <2>1 DEF SumPlace
  <2>4. done' => Len(chunks') > 0
    <3> SUFFICES ASSUME done' PROVE Len(chunks') > 0
      OBVIOUS
    <3>1. Covered(chunks') = 1 .. Len(length)
      <4>1. /\ Covered(chunks)' \cup ToSet(current') = 1 .. next' - 1
            /\ next' = Len(length') + 1 /\ ToSet(current') \subseteq Covered(chunks)'
        BY DEF ChunkInv, ChunkCover
      <4>2. Len(length) \in Nat
        BY DEF ChunkInv, ChunkTypes
      <4> QED BY <2>2, <4>1, <4>2 DEF Covered
    <3>2. chunks' \in Seq(Seq(Segs'))
      BY DEF ChunkInv, ChunkTypes
    <3>3. Covered(chunks') # {}
      <4>1. Len(length) \in Nat
        BY DEF ChunkInv, ChunkTypes
      <4>2. 1 \in 1 .. Len(length)
        BY <2>3, <4>1
      <4> QED BY <3>1, <4>2
    <3> QED BY <3>2, <3>3 DEF Covered
  <2>5. SumTypes'
    BY <1>1, <2>1 DEF SumTypes
  <2>6. SumPlace'
    BY <1>1, <2>1, <2>2, <2>3, <2>4 DEF SumPlace
  <2>7. SumCalls'
    <3>1. \A k : Asked(k)' = {}
      BY <2>1, <2>3 DEF Asked
    <3>2. Cardinality({}) = 0
      BY FS_EmptySet
    <3>3. parts' = <<>> /\ Len(parts') = 0 /\ phase' \in {"map", "split"}
      BY <2>1, <2>3
    <3>4. 1 .. Len(parts') = {}
      BY <3>3
    <3>5. \A k : Cardinality(Asked(k)') <= 1
      BY <3>1, <3>2
    <3> QED BY <3>1, <3>3, <3>4, <3>5 DEF SumCalls
  <2>8. SumShown' /\ QuotesWereShown'
    BY <2>1, <2>3 DEF SumShown, QuotesWereShown
  <2> QED BY <2>5, <2>6, <2>7, <2>8 DEF SumInv
<1>5. CASE AnswerPart
  <2>1. /\ phase = "map" /\ asked' = Append(asked, Prompt) /\ retrying' = FALSE
        /\ parts' = Append(parts, Len(parts) + 1)
        /\ phase' = IF Len(parts') < Len(chunks) THEN "map" ELSE "merge"
        /\ chunks' = chunks /\ done' = done
    BY <1>5 DEF AnswerPart, vars
  <2>2. /\ asked' \in Seq([about: {"whole", "map", "merge"}, chunk: Nat, retry: BOOLEAN])
        /\ DOMAIN asked' = DOMAIN asked \cup {Len(asked) + 1}
        /\ asked'[Len(asked) + 1] = Prompt
        /\ \A n \in DOMAIN asked : asked'[n] = asked[n]
        /\ \A k \in Nat : k # Len(parts) + 1 => Asked(k)' = Asked(k)
        /\ \A k \in Nat : k = Len(parts) + 1 =>
             Cardinality(Asked(k)') = Cardinality(Asked(k)) + 1
    BY <1>1, <2>1, AskedGrows
  <2>3. /\ Len(parts') = Len(parts) + 1 /\ parts' \in Seq(Nat)
        /\ \A k \in 1 .. Len(parts) + 1 : parts'[k] = k
    BY <1>1, <2>1 DEF SumTypes
  <2>4. SumTypes'
    BY <2>1, <2>2, <2>3 DEF SumTypes
  <2>5. done /\ Len(parts) + 1 <= Len(chunks)
    BY <1>1, <2>1 DEF SumPlace
  <2>6. SumPlace'
    <3>1. Len(parts) + 1 < Len(chunks) \/ Len(parts) + 1 = Len(chunks)
      <4>1. Len(parts) \in Nat /\ Len(chunks) \in Nat
        BY <1>1
      <4> QED BY <2>5, <4>1
    <3>2. \/ phase' = "map" /\ Len(parts') < Len(chunks')
          \/ phase' = "merge" /\ Len(parts') = Len(chunks')
      BY <1>1, <2>1, <2>3, <3>1
    <3> QED BY <2>1, <2>5, <3>2 DEF SumPlace
  <2>7. SumCalls'
    <3>1. \A k \in 1 .. Len(parts) : Cardinality(Asked(k)') \in 1 .. 2
      <4>1. \A k \in 1 .. Len(parts) : Cardinality(Asked(k)) \in 1 .. 2
        BY <1>1, <2>1 DEF SumCalls
      <4>2. \A k \in 1 .. Len(parts) : k \in Nat /\ k # Len(parts) + 1
        BY <1>1
      <4> QED BY <2>2, <4>1, <4>2
    <3>2. \A k \in Nat : k = Len(parts) + 1 => Cardinality(Asked(k)') \in 1 .. 2
      <4> TAKE k \in Nat
      <4> HAVE k = Len(parts) + 1
      <4>1. Cardinality(Asked(k)) \in Nat /\ Cardinality(Asked(k)) <= 1
        BY <1>1, <2>1, AskedFinite DEF SumCalls
      <4> QED BY <2>2, <4>1
    <3>3. \A k \in Nat : k > Len(parts) + 1 => Asked(k)' = {}
      BY <1>1, <2>1, <2>2 DEF SumCalls
    <3>4. Cardinality({}) = 0
      BY FS_EmptySet
    <3>5. \A k \in 1 .. Len(parts') : Cardinality(Asked(k)') \in 1 .. 2
      BY <1>1, <2>3, <3>1, <3>2
    <3>6. \A k \in Nat : k > Len(parts') => Asked(k)' = {}
      BY <1>1, <2>3, <3>3
    <3>7. \A k \in Nat : k > Len(parts') => Cardinality(Asked(k)') <= 1
      BY <3>4, <3>6
    <3>8. \A k \in Nat : k > Len(parts') + 1 => Asked(k)' = {}
      BY <1>1, <2>3, <3>6
    <3> QED BY <2>1, <3>5, <3>6, <3>7, <3>8 DEF SumCalls
  <2>8. SumShown'
    <3>1. Prompt.about = "map" /\ Prompt.chunk = Len(parts) + 1
      BY <2>1 DEF Prompt
    <3> QED BY <1>1, <2>1, <2>2, <2>5, <3>1 DEF SumShown
  <2>9. QuotesWereShown'
    BY <2>1 DEF QuotesWereShown
  <2> QED BY <2>4, <2>6, <2>7, <2>8, <2>9 DEF SumInv
<1>6. CASE AnswerMinutes
  <2>1. /\ phase \in {"whole", "merge"} /\ phase' = "returned"
        /\ asked' = Append(asked, Prompt) /\ retrying' = FALSE
        /\ quotes' \subseteq Quotes /\ kept' = {q \in quotes' : Verified(q)}
        /\ parts' = parts /\ chunks' = chunks /\ length' = length /\ done' = done
    BY <1>6 DEF AnswerMinutes, vars, SeqOf, ToSet
  <2>2. /\ asked' \in Seq([about: {"whole", "map", "merge"}, chunk: Nat, retry: BOOLEAN])
        /\ DOMAIN asked' = DOMAIN asked \cup {Len(asked) + 1}
        /\ asked'[Len(asked) + 1] = Prompt
        /\ \A n \in DOMAIN asked : asked'[n] = asked[n]
        /\ \A k \in Nat : Asked(k)' = Asked(k)
    BY <1>1, <2>1, AskedGrows
  <2>3. SumTypes'
    BY <1>1, <2>1, <2>2 DEF SumTypes
  <2>4. SumPlace'
    BY <1>1, <2>1 DEF SumPlace
  <2>5. SumCalls'
    <3>1. done' => phase = "merge"
      BY <1>1, <2>1 DEF SumPlace
    <3> QED BY <1>1, <2>1, <2>2, <3>1 DEF SumCalls
  <2>6. SumShown'
    <3>1. Prompt.about \in {"whole", "merge"}
      BY <2>1 DEF Prompt
    <3> QED BY <1>1, <2>1, <2>2, <3>1 DEF SumShown
  <2>7. QuotesWereShown'
    <3>1. \A p : Lines(p)' = Lines(p)
      BY <2>1 DEF Lines, Spoken
    <3>2. \A s, K : RunsOn(s, K)' <=> RunsOn(s, K)
      BY <2>1 DEF RunsOn, Spoken
    <3>3. UNION {Lines(asked'[n]) : n \in DOMAIN asked'} = Spoken(DOMAIN length)
      BY <1>1, <2>1, AllShown
    <3>4. \A q \in quotes' : q.said \in Seq(Int)
      <4>1. DOMAIN length \subseteq Int
        BY DEF ChunkInv, ChunkTypes
      <4> QED BY <2>1, <4>1 DEF Quotes, SeqOf, Spoken
    <3>5. ASSUME NEW q \in quotes', NEW n \in DOMAIN asked', q.form = "normalized",
                 q.said # <<>>, RunsOn(q.said, Lines(asked'[n]))
          PROVE  q \in kept'
      <4>1. RunsOn(q.said, DOMAIN length)
        BY <1>1, <2>1, <3>4, <3>5, ShownIsVerified
      <4> QED BY <2>1, <3>5, <4>1 DEF Verified
    <3>6. ASSUME NEW q \in kept'
          PROVE  q.form = "normalized" /\ q.said # <<>> /\ RunsOn(q.said, Spoken(DOMAIN length))
      <4>1. Verified(q)
        BY <2>1
      <4>2. Spoken(Spoken(DOMAIN length)) = Spoken(DOMAIN length)
        BY DEF Spoken
      <4> QED BY <4>1, <4>2 DEF Verified, RunsOn
    <3> QED BY <3>1, <3>2, <3>3, <3>5, <3>6 DEF QuotesWereShown
  <2> QED BY <2>3, <2>4, <2>5, <2>6, <2>7 DEF SumInv
<1>7. CASE AnswerInvalid \/ CallFails
  <2>1. /\ phase \in {"whole", "map", "merge"}
        /\ phase' = "failed" \/ (phase' = phase /\ ~retrying)
        /\ retrying' \in BOOLEAN
        /\ phase' = phase => retrying'
        /\ asked' = Append(asked, Prompt)
        /\ parts' = parts /\ chunks' = chunks /\ length' = length /\ done' = done
    BY <1>1, <1>7 DEF AnswerInvalid, CallFails, Calling, vars, SumTypes
  <2>2. /\ asked' \in Seq([about: {"whole", "map", "merge"}, chunk: Nat, retry: BOOLEAN])
        /\ DOMAIN asked' = DOMAIN asked \cup {Len(asked) + 1}
        /\ asked'[Len(asked) + 1] = Prompt
        /\ \A n \in DOMAIN asked : asked'[n] = asked[n]
        /\ phase # "map" => \A k \in Nat : Asked(k)' = Asked(k)
        /\ phase = "map" =>
             /\ \A k \in Nat : k # Len(parts) + 1 => Asked(k)' = Asked(k)
             /\ \A k \in Nat : k = Len(parts) + 1 =>
                  Cardinality(Asked(k)') = Cardinality(Asked(k)) + 1
    BY <1>1, <2>1, AskedGrows
  <2>3. SumTypes'
    <3>1. SumTypes
      BY <1>1
    <3>2. parts' \in Seq(Nat) /\ \A k \in 1 .. Len(parts') : parts'[k] = k
      BY <2>1, <3>1 DEF SumTypes
    <3>3. asked' \in Seq([about: {"whole", "map", "merge"}, chunk: Nat, retry: BOOLEAN])
      BY <2>2
    <3>4. retrying' \in BOOLEAN
      BY <2>1, Zenon
    <3> QED BY <3>2, <3>3, <3>4, Zenon DEF SumTypes
  <2>4. SumPlace'
    BY <1>1, <2>1 DEF SumPlace
  <2>5. SumCalls'
    <3>1. CASE phase' = "failed"
      BY <3>1 DEF SumCalls
    <3>2. CASE phase' = "merge" /\ phase = "merge"
      <4>1. \A k \in 1 .. Len(parts) : Cardinality(Asked(k)) \in 1 .. 2
        BY <1>1, <3>2 DEF SumCalls
      <4>2. \A k \in Nat : Asked(k)' = Asked(k)
        BY <2>2, <3>2
      <4>3. 1 .. Len(parts) \subseteq Nat
        BY <1>1
      <4>4. \A k \in 1 .. Len(parts') : Cardinality(Asked(k)') \in 1 .. 2
        BY <2>1, <4>1, <4>2, <4>3
      <4> QED BY <3>2, <4>4 DEF SumCalls
    <3>3. CASE phase' = "map" /\ phase = "map" /\ ~retrying
      <4>1. \A k \in 1 .. Len(parts) : Cardinality(Asked(k)') \in 1 .. 2
        BY <1>1, <2>2, <3>3 DEF SumCalls
      <4>2. \A k \in Nat : k > Len(parts) => Asked(k) = {}
        BY <1>1, <3>3 DEF SumCalls
      <4>3. Cardinality({}) = 0
        BY FS_EmptySet
      <4>4. \A k \in Nat : k > Len(parts) => Cardinality(Asked(k)') <= 1
        <5> TAKE k \in Nat
        <5> HAVE k > Len(parts)
        <5>1. Cardinality(Asked(k)) = 0
          BY <4>2, <4>3
        <5> QED BY <2>2, <3>3, <5>1
      <4>5. \A k \in Nat : k > Len(parts) + 1 => Asked(k)' = {}
        BY <1>1, <2>2, <3>3, <4>2
      <4>6. retrying' /\ parts' = parts
        BY <2>1, <3>3, Zenon
      <4> QED BY <3>3, <4>1, <4>4, <4>5, <4>6 DEF SumCalls
    <3>4. CASE phase' = "whole"
      BY <3>4 DEF SumCalls
    <3> QED BY <2>1, <3>1, <3>2, <3>3, <3>4
  <2>6. SumShown'
    <3>1. /\ Prompt.about = phase
          /\ phase = "map" => Prompt.chunk = Len(parts) + 1
      BY DEF Prompt
    <3>2. phase = "map" => done /\ Len(parts) + 1 <= Len(chunks)
      BY <1>1 DEF SumPlace
    <3>3. phase = "map" => Len(parts) + 1 \in DOMAIN chunks
      BY <1>1, <3>2
    <3> QED BY <1>1, <2>1, <2>2, <3>1, <3>2, <3>3 DEF SumShown
  <2>7. QuotesWereShown'
    BY <2>1 DEF QuotesWereShown
  <2> QED BY <2>3, <2>4, <2>5, <2>6, <2>7 DEF SumInv
<1> QED BY <1>2, <1>3, <1>4, <1>5, <1>6, <1>7 DEF UNext
-----------------------------------------------------------------------------
LEMMA ChunksAlways == USpec => []ChunkInv
<1>1. UInit => ChunkInv
  BY ChunkInit DEF UInit
<1>2. ChunkInv /\ [UNext]_uvars => ChunkInv'
  <2>1. [UNext]_uvars => [CNext]_vars
    BY DEF UNext, uvars, NoClient, Begin, Split, AnswerPart, AnswerMinutes, AnswerInvalid,
           CallFails
  <2> QED BY <2>1, ChunkStep
<1> QED BY <1>1, <1>2, PTL DEF USpec

LEMMA SumAlways == USpec => []SumInv
<1> QED BY SumStart, SumStep, ChunksAlways, PTL DEF USpec

LEMMA AllMerged == SumInv /\ ChunkInv => EveryPartMerged
<1> SUFFICES ASSUME SumInv, ChunkInv, phase = "merge" \/ (phase = "returned" /\ done)
             PROVE  /\ parts = [k \in DOMAIN chunks |-> k]
                    /\ UNION {ToSet(chunks[parts[k]]) : k \in DOMAIN parts} = DOMAIN length
                    /\ \A k \in DOMAIN chunks : Cardinality(Asked(k)) \in 1 .. 2
  BY DEF EveryPartMerged, Asked
<1>1. done /\ Len(parts) = Len(chunks)
  BY DEF SumInv, SumPlace
<1>2. /\ parts \in Seq(Nat) /\ chunks \in Seq(Seq(Segs))
      /\ \A k \in 1 .. Len(parts) : parts[k] = k
  BY DEF SumInv, SumTypes, ChunkInv, ChunkTypes
<1>3. DOMAIN parts = 1 .. Len(parts) /\ DOMAIN chunks = 1 .. Len(parts)
  BY <1>1, <1>2
<1>4. parts = [k \in DOMAIN chunks |-> k]
  BY <1>2, <1>3
<1>5. {ToSet(chunks[parts[k]]) : k \in DOMAIN parts} = {ToSet(chunks[k]) : k \in DOMAIN chunks}
  BY <1>2, <1>3
<1>6. CoversInOrder
  BY ChunksCover
<1>7. \A k \in 1 .. Len(parts) : Cardinality(Asked(k)) \in 1 .. 2
  BY DEF SumInv, SumCalls
<1> QED BY <1>1, <1>3, <1>4, <1>5, <1>6, <1>7 DEF CoversInOrder

\* split_segments loses nothing of a transcript, however long it and its turns
\* are, whatever the size and the overlap of the chunks: at every step the chunks
\* are consecutive runs, each repeating the end of the one before and adding to
\* it, and when the function returns they are the whole transcript.
THEOREM CoverHolds == USpec => []CoversInOrder
<1> QED BY ChunksAlways, ChunksCover, PTL

\* No chunk exceeds max_chars unless all but one of its segments are repeated
\* from the chunk before.
THEOREM FitHolds == USpec => []ChunksFit
<1> QED BY ChunksAlways, ChunksSmall, PTL

\* summarize() merges each chunk's part once and in order, whatever the model
\* answers, and asks at most twice for a part.
THEOREM MergedHolds == USpec => []EveryPartMerged
<1> QED BY ChunksAlways, SumAlways, AllMerged, PTL

\* verify_quotes keeps every quote that is a line, or lines in a row, of a prompt,
\* and keeps nothing but lines that the prompts showed, none left out between the
\* first and the last: the transcript it looks in is what the chunks together have
\* shown, and each chunk is a stretch of it.
THEOREM QuotesHold == USpec => []QuotesWereShown
<1>1. SumInv => QuotesWereShown
  BY DEF SumInv
<1> QED BY <1>1, SumAlways, PTL
=============================================================================
