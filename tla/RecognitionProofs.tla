-------------------------- MODULE RecognitionProofs --------------------------
(***************************************************************************)
(* Proofs about shaping turns and recognizing speech in them, for          *)
(* recordings, turns and limits of every size.                             *)
(***************************************************************************)
EXTENDS Recognition, SequenceTheorems, FiniteSetTheorems, WellFoundedInduction, TLAPS

(* Induction, from the well-foundedness of < on Nat: the theorems of the     *)
(* library that take a predicate as a parameter cannot be instantiated, the  *)
(* one about the least element of a set can.                                 *)

LEMMA LeastNumber ==
  ASSUME NEW T, T \subseteq Nat, T # {}
  PROVE  \E x \in T : \A y \in T : x <= y
<1> DEFINE R == OpToRel(<, Nat)
<1>1. IsWellFoundedOn(R, Nat)
  BY Zenon, NatLessThanWellFounded
<1>2. \A x, y \in Nat : <<x, y>> \in R <=> x < y
  BY DEF OpToRel
<1> HIDE DEF R
<1>3. \E x \in T : \A y \in T : ~ (<<y, x>> \in R)
  BY <1>1, WFMin, Zenon
<1>4. PICK x \in T : \A y \in T : ~ (<<y, x>> \in R)
  BY <1>3
<1>5. \A y \in T : ~ (y < x)
  BY <1>2, <1>4
<1>6. \A y \in T : x <= y
  BY <1>5
<1> QED BY <1>6

LEMMA Induction ==
  ASSUME NEW S, 0 \in S, \A n \in Nat : n \in S => n + 1 \in S
  PROVE  \A n \in Nat : n \in S
<1> DEFINE T == {n \in Nat : n \notin S}
<1> SUFFICES ASSUME T # {} PROVE FALSE
  OBVIOUS
<1>1. PICK m \in T : \A k \in T : m <= k
  <2>1. T \subseteq Nat
    OBVIOUS
  <2> QED BY <2>1, LeastNumber
<1>2. m # 0 /\ m - 1 \in Nat /\ m - 1 \in S
  BY <1>1
<1> QED BY <1>1, <1>2

(* Folds: the recursive function MapThenFoldSet chooses exists.  weight and  *)
(* order are the fold's own, as functions on the subsets of D.               *)
IsFold(g, D, b, pick, h) ==
  \A s \in SUBSET D :
    g[s] = IF s = {} THEN b ELSE h[<<pick[s], g[s \ {pick[s]}]>>]

LEMMA FoldExists ==
  ASSUME NEW D, IsFiniteSet(D), NEW T, NEW b \in T,
         NEW pick, \A s \in SUBSET D : s # {} => pick[s] \in s,
         NEW h \in [D \X T -> T]
  PROVE  \E g \in [SUBSET D -> T] : IsFold(g, D, b, pick, h)
<1> DEFINE Small(n) == {s \in SUBSET D : Cardinality(s) <= n}
           Fits(g, s) == g[s] = IF s = {} THEN b ELSE h[<<pick[s], g[s \ {pick[s]}]>>]
           P(n) == \E g \in [SUBSET D -> T] : \A s \in Small(n) : Fits(g, s)
           S == {n \in Nat : P(n)}
<1>1. \A s \in SUBSET D : /\ IsFiniteSet(s) /\ Cardinality(s) \in Nat
                          /\ Cardinality(s) <= Cardinality(D)
                          /\ Cardinality(s) = 0 <=> s = {}
                          /\ \A x \in s : Cardinality(s \ {x}) = Cardinality(s) - 1
  BY FS_Subset, FS_CardinalityType, FS_EmptySet, FS_RemoveElement
<1>2. P(0)
  <2> DEFINE g == [s \in SUBSET D |-> b]
  <2>1. g \in [SUBSET D -> T]
    OBVIOUS
  <2>2. \A s \in Small(0) : s = {}
    BY <1>1
  <2>3. \A s \in Small(0) : Fits(g, s)
    BY <2>2
  <2> QED BY <2>1, <2>3
<1>3. ASSUME NEW n \in Nat, P(n) PROVE P(n + 1)
  <2>1. PICK g \in [SUBSET D -> T] : \A s \in Small(n) : Fits(g, s)
    BY <1>3
  <2> DEFINE k == [s \in SUBSET D |-> IF s = {} THEN b ELSE h[<<pick[s], g[s \ {pick[s]}]>>]]
  <2>2. k \in [SUBSET D -> T]
    OBVIOUS
  <2>3. \A s \in Small(n) : k[s] = g[s]
    BY <2>1
  <2>4. ASSUME NEW s \in Small(n + 1), s # {} PROVE s \ {pick[s]} \in Small(n)
    BY <2>4, <1>1
  <2>5. \A s \in Small(n + 1) : Fits(k, s)
    BY <2>3, <2>4
  <2> HIDE DEF k
  <2>6. \E f \in [SUBSET D -> T] : \A s \in Small(n + 1) : Fits(f, s)
    BY <2>2, <2>5
  <2> QED BY <2>6
<1> HIDE DEF P
<1>4. 0 \in S /\ \A n \in Nat : n \in S => n + 1 \in S
  <2>1. 0 \in Nat /\ \A n \in Nat : n + 1 \in Nat
    OBVIOUS
  <2> QED BY <1>2, <1>3, <2>1, Zenon
<1> HIDE DEF S
<1>5. \A n \in Nat : n \in S
  BY <1>4, Induction
<1>6. P(Cardinality(D))
  BY <1>1, <1>5 DEF S
<1>7. Small(Cardinality(D)) = SUBSET D
  BY <1>1
<1> QED BY <1>6, <1>7 DEF P, IsFold
-----------------------------------------------------------------------------
(* Turns and pieces. *)

Span == {t \in [start: Nat, end: Nat, speaker: Speakers] : t.start < t.end}
Piece == {p \in [start: Nat, end: Nat, speaker: Speakers, from: Nat, to: Nat] :
            p.start < p.end}

LEMMA MaxOfTwo ==
  ASSUME NEW a \in Int, NEW b \in Int
  PROVE  Max({a, b}) = IF a <= b THEN b ELSE a
BY DEF Max

LEMMA MinOfTwo ==
  ASSUME NEW a \in Int, NEW b \in Int
  PROVE  Min({a, b}) = IF a <= b THEN a ELSE b
BY DEF Min

LEMMA MinOfThree ==
  ASSUME NEW a \in Int, NEW b \in Int, NEW c \in Int
  PROVE  Min({a, b, c}) \in {a, b, c} /\ Min({a, b, c}) <= a /\ Min({a, b, c}) <= b
         /\ Min({a, b, c}) <= c
BY DEF Min

LEMMA MaxOfTurns ==
  ASSUME NEW n \in Nat
  PROVE  /\ \A s \in SUBSET (1 .. n) : s # {} => Max(s) \in s
         /\ \A k \in 1 .. n : Max(1 .. k) = k
<1>1. ASSUME NEW s \in SUBSET (1 .. n), s # {} PROVE Max(s) \in s
  <2> DEFINE T == {n - x : x \in s}
  <2>1. T \subseteq Nat /\ T # {}
    <3>1. \A x \in s : x \in 1 .. n /\ n - x \in Nat
      OBVIOUS
    <3> QED BY <1>1, <3>1
  <2>2. PICK m \in T : \A y \in T : m <= y
    BY <2>1, LeastNumber
  <2>3. PICK x \in s : m = n - x
    BY <2>2
  <2>4. ASSUME NEW y \in s PROVE x >= y
    <3>1. n - x <= n - y
      BY <2>2, <2>3
    <3>2. x \in Nat /\ y \in Nat
      OBVIOUS
    <3> QED BY <3>1, <3>2
  <2>5. \E z \in s : \A y \in s : z >= y
    BY <2>4
  <2> QED BY <2>5 DEF Max
<1>2. ASSUME NEW k \in 1 .. n PROVE Max(1 .. k) = k
  <2>1. k \in 1 .. k /\ \A y \in 1 .. k : k >= y
    OBVIOUS
  <2>2. \A x \in 1 .. k : (\A y \in 1 .. k : x >= y) => x = k
    BY <2>1
  <2> QED BY <2>1, <2>2 DEF Max
<1> QED BY <1>1, <1>2

LEMMA Enveloped ==
  ASSUME NEW t \in Span, samples \in Nat
  PROVE  WithEnvelope(t) \in Piece
<1>1. t.end \in Nat
  BY DEF Span
<1>2. Min({samples, t.end}) \in Nat
  BY <1>1, MinOfTwo
<1> QED BY <1>2 DEF WithEnvelope, Span, Piece
-----------------------------------------------------------------------------
(* merge_turns. *)

\* What one turn of the loop makes of the turns merged so far.
Joined(t, acc, out) ==
  LET n == Len(acc) IN
  /\ n > 0 /\ t.speaker = acc[n].speaker /\ t.start - acc[n].end < Gap
  /\ out \in Seq(Span) /\ Len(out) = n
  /\ \A m \in 1 .. n - 1 : out[m] = acc[m]
  /\ out[n].start = acc[n].start /\ out[n].speaker = acc[n].speaker
  /\ out[n].end = IF acc[n].end <= t.end THEN t.end ELSE acc[n].end

Added(t, acc, out) ==
  LET n == Len(acc) IN
  /\ out \in Seq(Span) /\ Len(out) = n + 1
  /\ \A m \in 1 .. n : out[m] = acc[m]
  /\ out[n + 1] = t

LEMMA JoinCases ==
  ASSUME NEW acc \in Seq(Span), NEW t \in Span
  PROVE  Joined(t, acc, Join(t, acc)) \/ Added(t, acc, Join(t, acc))
<1> DEFINE n == Len(acc)
           last == acc[n]
<1>1. CASE ~(acc # <<>> /\ t.speaker = last.speaker /\ t.start - last.end < Gap)
  <2>1. Join(t, acc) = Append(acc, t)
    BY <1>1 DEF Join
  <2> QED BY <2>1 DEF Added
<1>2. CASE acc # <<>> /\ t.speaker = last.speaker /\ t.start - last.end < Gap
  <2>1. n \in Nat /\ n > 0 /\ n \in DOMAIN acc
    BY <1>2, EmptySeq
  <2>2. last \in Span
    BY <2>1
  <2>3. last.end \in Nat /\ t.end \in Nat
    BY <2>2 DEF Span
  <2> DEFINE e == IF last.end <= t.end THEN t.end ELSE last.end
             new == [last EXCEPT !.end = e]
  <2>4. Max({last.end, t.end}) = e
    BY <2>3, MaxOfTwo
  <2>5. new \in Span /\ new.start = last.start /\ new.speaker = last.speaker /\ new.end = e
    <3>1. last \in [start: Nat, end: Nat, speaker: Speakers] /\ last.start < last.end
      BY <2>2 DEF Span
    <3>2. e \in Nat /\ last.end <= e /\ last.start \in Nat
      BY <2>3, <3>1
    <3> HIDE DEF e
    <3>3. /\ new \in [start: Nat, end: Nat, speaker: Speakers]
          /\ new.start = last.start /\ new.speaker = last.speaker /\ new.end = e
      BY <3>1, <3>2
    <3>4. new.start < new.end
      BY <2>3, <3>1, <3>2, <3>3
    <3> QED BY <3>3, <3>4 DEF Span
  <2>6. Join(t, acc) = [acc EXCEPT ![n] = new]
    BY <1>2, <2>4 DEF Join
  <2> HIDE DEF new
  <2>7. /\ Join(t, acc) \in Seq(Span) /\ Len(Join(t, acc)) = n
        /\ Join(t, acc)[n] = new
        /\ \A m \in 1 .. n - 1 : Join(t, acc)[m] = acc[m]
    BY <2>1, <2>5, <2>6
  <2> QED BY <1>2, <2>1, <2>5, <2>7 DEF Joined
<1> QED BY <1>1, <1>2

\* The fold of merge_turns, on the turns at every set of places of r.
Joining(r) ==
  CHOOSE g : g = [s \in SUBSET DOMAIN r |-> IF s = {} THEN <<>>
                                            ELSE Join(r[Max(s)], g[s \ {Max(s)}])]

LEMMA MergedIsJoining ==
  FoldLeft(LAMBDA acc, t : Join(t, acc), <<>>, raw) = Joining(raw)[DOMAIN raw]
BY DEF FoldLeft, MapThenFoldSet, Joining

LEMMA JoiningStep ==
  ASSUME NEW r \in Seq(Span)
  PROVE  /\ Joining(r)[{}] = <<>>
         /\ \A k \in 1 .. Len(r) : Joining(r)[1 .. k] = Join(r[k], Joining(r)[1 .. k - 1])
<1> DEFINE D == 1 .. Len(r)
           T == Seq(Span)
           pick == [s \in SUBSET D |-> Max(s)]
           h == [p \in D \X T |-> Join(r[p[1]], p[2])]
<1>1. IsFiniteSet(D) /\ <<>> \in T /\ DOMAIN r = D
  BY FS_Interval
<1>2. \A s \in SUBSET D : s # {} => pick[s] \in s
  <2>1. \A s \in SUBSET (1 .. Len(r)) : s # {} => Max(s) \in s
    <3>1. Len(r) \in Nat
      OBVIOUS
    <3> QED BY <3>1, MaxOfTurns
  <2> QED BY <2>1
<1>3. ASSUME NEW x \in D, NEW acc \in T PROVE Join(r[x], acc) \in T
  <2>1. r[x] \in Span
    OBVIOUS
  <2> QED BY <2>1, JoinCases DEF Joined, Added
<1>4. h \in [D \X T -> T]
  BY <1>3
<1>5. \A x \in D, acc \in T : h[<<x, acc>>] = Join(r[x], acc)
  OBVIOUS
<1> HIDE DEF h, T
<1>6. PICK g \in [SUBSET D -> T] : IsFold(g, D, <<>>, pick, h)
  BY <1>1, <1>2, <1>4, FoldExists
<1>7. ASSUME NEW s \in SUBSET D
      PROVE  g[s] = IF s = {} THEN <<>> ELSE Join(r[Max(s)], g[s \ {Max(s)}])
  <2>1. g[s] = IF s = {} THEN <<>> ELSE h[<<pick[s], g[s \ {pick[s]}]>>]
    BY <1>6 DEF IsFold
  <2>2. CASE s = {}
    BY <2>1, <2>2
  <2>3. CASE s # {}
    <3>1. pick[s] = Max(s) /\ Max(s) \in D /\ g[s \ {Max(s)}] \in T
      BY <1>2, <2>3
    <3> QED BY <1>5, <2>1, <2>3, <3>1
  <2> QED BY <2>2, <2>3
<1>8. g = [s \in SUBSET DOMAIN r |-> IF s = {} THEN <<>> ELSE Join(r[Max(s)], g[s \ {Max(s)}])]
  BY <1>1, <1>7
<1>9. Joining(r) = [s \in SUBSET DOMAIN r |-> IF s = {} THEN <<>>
                                 ELSE Join(r[Max(s)], Joining(r)[s \ {Max(s)}])]
  BY <1>8 DEF Joining
<1>10. Joining(r)[{}] = <<>>
  BY <1>9
<1>11. ASSUME NEW k \in 1 .. Len(r)
       PROVE  Joining(r)[1 .. k] = Join(r[k], Joining(r)[1 .. k - 1])
  <2>1. 1 .. k \in SUBSET DOMAIN r /\ 1 .. k # {}
    <3>1. k \in 1 .. k /\ k \in Nat /\ Len(r) \in Nat
      OBVIOUS
    <3>2. \A x \in 1 .. k : x \in 1 .. Len(r)
      BY <3>1
    <3> QED BY <1>1, <3>1, <3>2
  <2>2. Max(1 .. k) = k
    BY MaxOfTurns
  <2>3. (1 .. k) \ {k} = 1 .. k - 1
    OBVIOUS
  <2> QED BY <1>9, <2>1, <2>2, <2>3
<1> QED BY <1>10, <1>11

\* Turn t has speaker s say something at time x.
Says(t, s, x) == t.speaker = s /\ t.start <= x /\ x < t.end

\* The time x is in a pause of s, too short to separate turns i and j.
InPause(i, j, s, x) ==
  /\ raw[i].speaker = s /\ raw[j].speaker = s
  /\ raw[i].end <= x /\ x < raw[j].start /\ raw[j].start - raw[i].end < Gap

\* What the loop of merge_turns has made of the first k turns.
MergedUpTo(k, acc) ==
  /\ acc \in Seq(Span) /\ (k = 0 <=> Len(acc) = 0)
  /\ k > 0 => /\ acc[Len(acc)].start <= raw[k].start
              /\ \E j \in 1 .. k : /\ raw[j].speaker = acc[Len(acc)].speaker
                                   /\ raw[j].end = acc[Len(acc)].end
  /\ \A s \in Speakers, x \in Nat :
       (\E j \in 1 .. k : Says(raw[j], s, x)) => \E m \in 1 .. Len(acc) : Says(acc[m], s, x)
  /\ \A s \in Speakers, x \in Nat : \A m \in 1 .. Len(acc) : Says(acc[m], s, x) =>
       \/ \E j \in 1 .. k : Says(raw[j], s, x)
       \/ \E i, j \in 1 .. k : InPause(i, j, s, x)
  /\ Exclusive(raw) => /\ \A m, n \in 1 .. Len(acc) : m < n => acc[m].end <= acc[n].start
                       /\ k > 0 => acc[Len(acc)].end <= raw[k].end

LEMMA MergeOne ==
  ASSUME raw \in Seq(Span), Sorted(raw), NEW k \in 1 .. Len(raw), NEW acc,
         MergedUpTo(k - 1, acc)
  PROVE  MergedUpTo(k, Join(raw[k], acc))
<1> DEFINE t == raw[k]
           out == Join(t, acc)
           n == Len(acc)
<1>1. /\ t \in Span /\ k \in Nat /\ k > 0 /\ k - 1 \in Nat /\ Len(raw) \in Nat
      /\ t.start \in Nat /\ t.end \in Nat /\ t.start < t.end
      /\ \A j \in 1 .. k : raw[j].end \in Nat /\ raw[j].start \in Nat
  BY DEF Span
<1>2. /\ acc \in Seq(Span) /\ n \in Nat /\ (k = 1 <=> n = 0)
      /\ \A m \in 1 .. n : /\ acc[m].start \in Nat /\ acc[m].end \in Nat
                           /\ acc[m].start < acc[m].end
  <2>1. acc \in Seq(Span) /\ (k - 1 = 0 <=> Len(acc) = 0)
    BY DEF MergedUpTo
  <2>2. \A m \in 1 .. n : acc[m] \in Span
    BY <2>1
  <2>3. \A m \in 1 .. n : /\ acc[m].start \in Nat /\ acc[m].end \in Nat
                          /\ acc[m].start < acc[m].end
    BY <2>2 DEF Span
  <2>4. n \in Nat /\ (k = 1 <=> n = 0)
    BY <1>1, <2>1
  <2> QED BY <2>1, <2>3, <2>4
<1>3. k > 1 => k - 1 \in 1 .. k /\ raw[k - 1].start <= t.start
  <2> SUFFICES ASSUME k > 1 PROVE k - 1 \in 1 .. k /\ raw[k - 1].start <= t.start
    OBVIOUS
  <2>1. k - 1 \in 1 .. Len(raw) - 1 /\ (k - 1) + 1 = k
    BY <1>1
  <2>2. Before(raw[k - 1], raw[k])
    BY <2>1 DEF Sorted
  <2>3. k - 1 \in 1 .. k /\ raw[k - 1].start \in Nat /\ t.start \in Nat
    BY <1>1, <2>1
  <2> QED BY <2>2, <2>3 DEF Before
<1>4. n > 0 => /\ acc[n].start <= t.start
               /\ \E j \in 1 .. k : raw[j].speaker = acc[n].speaker /\ raw[j].end = acc[n].end
               /\ Exclusive(raw) => acc[n].end <= t.start
  <2> SUFFICES ASSUME n > 0
               PROVE  /\ acc[n].start <= t.start
                      /\ \E j \in 1 .. k : /\ raw[j].speaker = acc[n].speaker
                                           /\ raw[j].end = acc[n].end
                      /\ Exclusive(raw) => acc[n].end <= t.start
    OBVIOUS
  <2>1. k > 1 /\ k - 1 > 0 /\ n \in 1 .. n
    BY <1>1, <1>2
  <2>2. /\ acc[n].start <= raw[k - 1].start
        /\ \E j \in 1 .. k - 1 : raw[j].speaker = acc[n].speaker /\ raw[j].end = acc[n].end
        /\ Exclusive(raw) => acc[n].end <= raw[k - 1].end
    BY <2>1 DEF MergedUpTo
  <2>3. raw[k - 1].start \in Nat /\ raw[k - 1].end \in Nat /\ acc[n].start \in Nat
        /\ acc[n].end \in Nat
    BY <1>1, <1>2, <1>3, <2>1
  <2>4. Exclusive(raw) => raw[k - 1].end <= t.start
    <3>1. k - 1 \in DOMAIN raw /\ k \in DOMAIN raw /\ k - 1 < k
      BY <1>1, <2>1
    <3> QED BY <3>1 DEF Exclusive
  <2>5. 1 .. k - 1 \subseteq 1 .. k
    BY <1>1
  <2>6. t.start \in Nat
    BY <1>1
  <2>7. acc[n].start <= t.start
    BY <1>3, <2>1, <2>2, <2>3, <2>6
  <2> HIDE DEF t
  <2>8. Exclusive(raw) => acc[n].end <= t.start
    BY <2>2, <2>3, <2>4, <2>6
  <2>9. \E j \in 1 .. k : raw[j].speaker = acc[n].speaker /\ raw[j].end = acc[n].end
    BY <2>2, <2>5
  <2> QED BY <2>7, <2>8, <2>9
<1>5. \A s \in Speakers, x \in Nat :
        (\E j \in 1 .. k - 1 : Says(raw[j], s, x)) => \E m \in 1 .. n : Says(acc[m], s, x)
  BY DEF MergedUpTo
<1>6. \A s \in Speakers, x \in Nat : \A m \in 1 .. n : Says(acc[m], s, x) =>
        \/ \E j \in 1 .. k : Says(raw[j], s, x)
        \/ \E i, j \in 1 .. k : InPause(i, j, s, x)
  <2>1. 1 .. k - 1 \subseteq 1 .. k
    BY <1>1
  <2>2. \A s \in Speakers, x \in Nat : \A m \in 1 .. n : Says(acc[m], s, x) =>
          \/ \E j \in 1 .. k - 1 : Says(raw[j], s, x)
          \/ \E i, j \in 1 .. k - 1 : InPause(i, j, s, x)
    BY DEF MergedUpTo
  <2> QED BY <2>1, <2>2
<1>7. Exclusive(raw) => \A m, i \in 1 .. n : m < i => acc[m].end <= acc[i].start
  BY DEF MergedUpTo
<1>8. \A j \in 1 .. k : j = k \/ j \in 1 .. k - 1
  BY <1>1
<1>9. ASSUME Added(t, acc, out) PROVE MergedUpTo(k, out)
  <2>1. /\ out \in Seq(Span) /\ Len(out) = n + 1 /\ out[n + 1] = t
        /\ \A m \in 1 .. n : out[m] = acc[m]
        /\ \A m \in 1 .. n + 1 : m = n + 1 \/ m \in 1 .. n
        /\ n + 1 \in 1 .. n + 1 /\ 1 .. n \subseteq 1 .. n + 1 /\ k \in 1 .. k
    BY <1>1, <1>2, <1>9 DEF Added
  <2> HIDE DEF out
  <2>2. \A s \in Speakers, x \in Nat :
          (\E j \in 1 .. k : Says(raw[j], s, x)) => \E m \in 1 .. n + 1 : Says(out[m], s, x)
    BY <1>5, <1>8, <2>1
  <2>3. \A s \in Speakers, x \in Nat : \A m \in 1 .. n + 1 : Says(out[m], s, x) =>
          \/ \E j \in 1 .. k : Says(raw[j], s, x)
          \/ \E i, j \in 1 .. k : InPause(i, j, s, x)
    BY <1>6, <2>1
  <2>4. ASSUME Exclusive(raw), NEW m \in 1 .. n + 1, NEW i \in 1 .. n + 1, m < i
        PROVE  out[m].end <= out[i].start
    <3>1. m \in 1 .. n
      BY <1>2, <2>4
    <3>2. CASE i \in 1 .. n
      BY <1>7, <2>1, <2>4, <3>1, <3>2
    <3>3. CASE i = n + 1
      <4>1. n \in 1 .. n /\ n > 0
        BY <1>2, <3>1
      <4>2. acc[n].end <= t.start
        BY <1>4, <2>4, <4>1
      <4>3. m = n \/ acc[m].end <= acc[n].start
        BY <1>2, <1>7, <2>4, <3>1, <4>1
      <4>4. /\ acc[n].start \in Nat /\ acc[n].end \in Nat /\ acc[n].start < acc[n].end
            /\ acc[m].end \in Nat
        BY <1>2, <3>1, <4>1
      <4>5. acc[m].end <= t.start
        <5>1. t.start \in Nat
          BY <1>1
        <5> HIDE DEF t, n, out
        <5>2. CASE m = n
          BY <4>2, <5>2
        <5>3. CASE acc[m].end <= acc[n].start
          BY <4>2, <4>4, <5>1, <5>3
        <5> QED BY <4>3, <5>2, <5>3
      <4> QED BY <2>1, <3>1, <3>3, <4>5
    <3> QED BY <2>1, <3>2, <3>3
  <2>5. n + 1 # 0 /\ k # 0 /\ t.start <= t.start /\ t.end <= t.end
    BY <1>1, <1>2
  <2>6. /\ out[Len(out)].start <= raw[k].start /\ out[Len(out)].end <= raw[k].end
        /\ \E j \in 1 .. k : /\ raw[j].speaker = out[Len(out)].speaker
                             /\ raw[j].end = out[Len(out)].end
    BY <2>1, <2>5
  <2>7. k = 0 <=> Len(out) = 0
    BY <2>1, <2>5
  <2>8. Exclusive(raw) => \A m, i \in 1 .. Len(out) : m < i => out[m].end <= out[i].start
    BY <2>1, <2>4
  <2>9. \A s \in Speakers, x \in Nat :
          (\E j \in 1 .. k : Says(raw[j], s, x)) => \E m \in 1 .. Len(out) : Says(out[m], s, x)
    BY <2>1, <2>2
  <2>10. \A s \in Speakers, x \in Nat : \A m \in 1 .. Len(out) : Says(out[m], s, x) =>
           \/ \E j \in 1 .. k : Says(raw[j], s, x)
           \/ \E i, j \in 1 .. k : InPause(i, j, s, x)
    BY <2>1, <2>3
  <2>11. out \in Seq(Span)
    BY <2>1
  <2> HIDE DEF n, t
  <2> QED BY <2>6, <2>7, <2>8, <2>9, <2>10, <2>11, Zenon DEF MergedUpTo
<1>10. ASSUME Joined(t, acc, out) PROVE MergedUpTo(k, out)
  <2>1. /\ n > 0 /\ t.speaker = acc[n].speaker /\ t.start - acc[n].end < Gap
        /\ out \in Seq(Span) /\ Len(out) = n
        /\ \A m \in 1 .. n - 1 : out[m] = acc[m]
        /\ out[n].start = acc[n].start /\ out[n].speaker = acc[n].speaker
        /\ out[n].end = IF acc[n].end <= t.end THEN t.end ELSE acc[n].end
    BY <1>10 DEF Joined
  <2>2. /\ n \in 1 .. n /\ k \in 1 .. k
        /\ \A m \in 1 .. n : m = n \/ m \in 1 .. n - 1
        /\ acc[n].start \in Nat /\ acc[n].end \in Nat /\ acc[n].start < acc[n].end
        /\ acc[n].start <= t.start
    BY <1>1, <1>2, <1>4, <2>1
  <2> HIDE DEF out
  <2>3. ASSUME NEW s \in Speakers, NEW x \in Nat, NEW j \in 1 .. k, Says(raw[j], s, x)
        PROVE  \E m \in 1 .. n : Says(out[m], s, x)
    <3>1. CASE j = k
      <4>1. Says(out[n], s, x)
        BY <1>1, <2>1, <2>2, <2>3, <3>1 DEF Says
      <4> QED BY <2>2, <4>1
    <3>2. CASE j \in 1 .. k - 1
      <4>1. PICK m \in 1 .. n : Says(acc[m], s, x)
        BY <1>5, <2>3, <3>2
      <4>2. CASE m \in 1 .. n - 1
        BY <2>1, <4>1, <4>2
      <4>3. CASE m = n
        <5>1. Says(out[n], s, x)
          BY <1>1, <2>1, <2>2, <4>1, <4>3 DEF Says
        <5> QED BY <2>2, <5>1
      <4> QED BY <2>2, <4>2, <4>3
    <3> QED BY <1>8, <3>1, <3>2
  <2>4. ASSUME NEW s \in Speakers, NEW x \in Nat, NEW m \in 1 .. n, Says(out[m], s, x)
        PROVE  \/ \E j \in 1 .. k : Says(raw[j], s, x)
               \/ \E i, j \in 1 .. k : InPause(i, j, s, x)
    <3>1. CASE Says(acc[m], s, x)
      BY <1>6, <3>1
    <3>2. CASE ~Says(acc[m], s, x)
      <4>1. m = n
        BY <2>1, <2>2, <2>4, <3>2
      <4>2. /\ s = t.speaker /\ s = acc[n].speaker
            /\ x >= acc[n].end /\ x < t.end
        BY <1>1, <2>1, <2>2, <2>4, <3>2, <4>1 DEF Says
      <4>3. CASE t.start <= x
        <5>1. Says(raw[k], s, x)
          BY <4>2, <4>3 DEF Says
        <5> QED BY <2>2, <5>1
      <4>4. CASE x < t.start
        <5>1. PICK j \in 1 .. k : raw[j].speaker = acc[n].speaker /\ raw[j].end = acc[n].end
          BY <1>4, <2>1
        <5>2. InPause(j, k, s, x)
          BY <2>1, <2>2, <4>2, <4>4, <5>1 DEF InPause
        <5> QED BY <2>2, <5>2
      <4> QED BY <1>1, <4>3, <4>4
    <3> QED BY <3>1, <3>2
  <2>5. ASSUME Exclusive(raw), NEW m \in 1 .. n, NEW i \in 1 .. n, m < i
        PROVE  out[m].end <= out[i].start
    <3>1. m \in 1 .. n - 1 /\ out[m] = acc[m]
      BY <1>2, <2>1, <2>5
    <3>2. out[i].start = acc[i].start
      BY <2>1, <2>2
    <3> QED BY <1>7, <2>5, <3>1, <3>2
  <2>6. Exclusive(raw) => out[n].end <= t.end
    BY <1>1, <1>4, <2>1, <2>2
  <2>7. \E j \in 1 .. k : raw[j].speaker = out[n].speaker /\ raw[j].end = out[n].end
    <3>1. CASE acc[n].end <= t.end
      BY <2>1, <2>2, <3>1
    <3>2. CASE ~(acc[n].end <= t.end)
      BY <1>4, <2>1, <3>2
    <3> QED BY <3>1, <3>2
  <2>8. n # 0 /\ k # 0 /\ out[n].start <= t.start
    BY <1>1, <2>1, <2>2
  <2>9. k = 0 <=> Len(out) = 0
    BY <2>1, <2>8
  <2>10. Exclusive(raw) => \A m, i \in 1 .. Len(out) : m < i => out[m].end <= out[i].start
    BY <2>1, <2>5
  <2>11. /\ out[Len(out)].start <= raw[k].start
         /\ Exclusive(raw) => out[Len(out)].end <= raw[k].end
         /\ \E j \in 1 .. k : /\ raw[j].speaker = out[Len(out)].speaker
                              /\ raw[j].end = out[Len(out)].end
    BY <2>1, <2>6, <2>7, <2>8
  <2>12. \A s \in Speakers, x \in Nat :
           (\E j \in 1 .. k : Says(raw[j], s, x)) => \E m \in 1 .. Len(out) : Says(out[m], s, x)
    BY <2>1, <2>3
  <2>13. \A s \in Speakers, x \in Nat : \A m \in 1 .. Len(out) : Says(out[m], s, x) =>
           \/ \E j \in 1 .. k : Says(raw[j], s, x)
           \/ \E i, j \in 1 .. k : InPause(i, j, s, x)
    BY <2>1, <2>4
  <2>14. out \in Seq(Span)
    BY <2>1
  <2> HIDE DEF n, t
  <2> QED BY <2>9, <2>10, <2>11, <2>12, <2>13, <2>14, Zenon DEF MergedUpTo
<1>11. Joined(t, acc, out) \/ Added(t, acc, out)
  BY <1>1, <1>2, JoinCases
<1> QED BY <1>9, <1>10, <1>11

LEMMA MergedAll ==
  ASSUME raw \in Seq(Span), Sorted(raw)
  PROVE  MergedUpTo(Len(raw), FoldLeft(LAMBDA acc, t : Join(t, acc), <<>>, raw))
<1> DEFINE g == Joining(raw)
           S == {k \in Nat : k <= Len(raw) => MergedUpTo(k, g[1 .. k])}
<1>1. Len(raw) \in Nat /\ DOMAIN raw = 1 .. Len(raw)
  OBVIOUS
<1>2. g[{}] = <<>> /\ \A k \in 1 .. Len(raw) : g[1 .. k] = Join(raw[k], g[1 .. k - 1])
  BY JoiningStep
<1> HIDE DEF g
<1>3. 0 \in S
  <2>1. 1 .. 0 = {} /\ <<>> \in Seq(Span) /\ Len(<<>>) = 0
    OBVIOUS
  <2>2. MergedUpTo(0, <<>>)
    BY <2>1 DEF MergedUpTo
  <2> QED BY <1>2, <2>1, <2>2
<1>4. ASSUME NEW k \in Nat, k \in S PROVE k + 1 \in S
  <2> SUFFICES ASSUME k + 1 <= Len(raw) PROVE MergedUpTo(k + 1, g[1 .. k + 1])
    OBVIOUS
  <2>1. k + 1 \in 1 .. Len(raw) /\ (k + 1) - 1 = k /\ k <= Len(raw)
    BY <1>1
  <2>2. MergedUpTo((k + 1) - 1, g[1 .. k])
    BY <1>4, <2>1
  <2>3. MergedUpTo(k + 1, Join(raw[k + 1], g[1 .. k]))
    BY <2>1, <2>2, MergeOne
  <2> QED BY <1>2, <2>1, <2>3
<1> HIDE DEF S
<1>5. \A k \in Nat : k \in S
  BY <1>3, <1>4, Induction
<1>6. MergedUpTo(Len(raw), g[1 .. Len(raw)])
  BY <1>1, <1>5 DEF S
<1> QED BY <1>1, <1>6, MergedIsJoining DEF g
-----------------------------------------------------------------------------
(* split_long_turn. *)

LEMMA LeastOf ==
  ASSUME NEW T, T \subseteq Nat, T # {}
  PROVE  Min(T) \in T
BY LeastNumber DEF Min

\* The middle fifth leaves pieces on both sides that are kept.
LEMMA WindowInside ==
  ASSUME NEW d \in Nat, d > MaxLen, NEW l \in Int
  PROVE  \A k \in Window(d, l) : k \in Nat /\ k >= MinLen /\ d - k >= MinLen
<1>1. /\ MaxLen \in Nat /\ MinLen \in Nat /\ MinPiece \in Nat
      /\ 2 * MaxLen >= 5 * MinLen /\ MinLen > 0 /\ MinPiece >= 1
  BY TurnsAssumption
<1>2. /\ (2 * d) \div 5 \in Nat /\ (3 * d) \div 5 \in Nat
      /\ (2 * d) \div 5 >= MinLen /\ d - (3 * d) \div 5 >= MinLen
  BY <1>1
<1>3. /\ Max({MinPiece, (2 * d) \div 5}) \in Nat
      /\ Max({MinPiece, (2 * d) \div 5}) >= (2 * d) \div 5
  BY <1>1, <1>2, MaxOfTwo
<1>4. Min({l, d - MinPiece, (3 * d) \div 5}) <= (3 * d) \div 5
      /\ Min({l, d - MinPiece, (3 * d) \div 5}) \in Int
  <2> DEFINE rest == d - MinPiece
             third == (3 * d) \div 5
  <2>1. rest \in Int /\ third \in Int
    BY <1>1, <1>2
  <2> HIDE DEF rest, third
  <2>2. Min({l, rest, third}) \in {l, rest, third} /\ Min({l, rest, third}) <= third
    BY <2>1, MinOfThree
  <2>3. Min({l, rest, third}) \in Int
    BY <2>1, <2>2
  <2> QED BY <2>2, <2>3 DEF rest, third
<1> QED BY <1>1, <1>2, <1>3, <1>4 DEF Window

LEMMA CutInside ==
  ASSUME NEW p \in Piece, Duration(p) > MaxLen
  PROVE  /\ p.start + Offset(p) \in Nat
         /\ Offset(p) \in Nat /\ Offset(p) >= MinLen /\ Duration(p) - Offset(p) >= MinLen
         /\ MinLen \in Nat /\ MinLen > 0
<1> DEFINE d == Duration(p)
           l == p.to - p.from
           window == Window(d, l)
           best == {k \in window : p.from + k \in quiet}
<1>1. d \in Nat /\ l \in Int /\ p.start \in Nat
  BY DEF Piece, Duration
<1>2. /\ MaxLen \in Nat /\ MinLen \in Nat /\ 2 * MaxLen >= 5 * MinLen /\ MinLen > 0
  BY TurnsAssumption
<1>3. \A k \in window : k \in Nat /\ k >= MinLen /\ d - k >= MinLen
  BY <1>1, WindowInside
<1>4. Offset(p) = CASE window = {} -> Min({MaxLen, d \div 2})
                    [] best # {}   -> Min(best)
                    [] OTHER       -> Min(window)
  BY DEF Offset
<1> HIDE DEF d, window
<1>5. CASE window = {}
  <2>1. Offset(p) = Min({MaxLen, d \div 2})
    BY <1>4, <1>5
  <2>2. /\ d \div 2 \in Nat /\ d \div 2 >= MinLen /\ d - d \div 2 >= MinLen /\ MaxLen >= MinLen
    BY <1>1, <1>2 DEF d
  <2>3. Offset(p) = IF MaxLen <= d \div 2 THEN MaxLen ELSE d \div 2
    BY <1>2, <2>1, <2>2, MinOfTwo
  <2>4. Offset(p) \in Nat /\ Offset(p) >= MinLen /\ d - Offset(p) >= MinLen
    BY <1>1, <1>2, <2>2, <2>3
  <2> QED BY <1>1, <1>2, <2>4 DEF d
<1>6. CASE window # {}
  <2>1. Offset(p) \in window
    <3>1. best \subseteq window /\ best \subseteq Nat /\ window \subseteq Nat
      BY <1>3
    <3>2. CASE best # {}
      BY <1>4, <1>6, <3>1, <3>2, LeastOf
    <3>3. CASE best = {}
      BY <1>4, <1>6, <3>1, <3>3, LeastOf
    <3> QED BY <3>2, <3>3
  <2> QED BY <1>1, <1>2, <1>3, <2>1 DEF d
<1> QED BY <1>5, <1>6

\* The silence a long turn can be cut in.
Silence(t) == {x \in quiet : /\ x < samples
                             /\ x - t.start \in Window(Duration(t), Duration(t))}

LEMMA CutSilent ==
  ASSUME NEW t \in Span, Duration(t) > MaxLen, samples \in Nat, quiet \subseteq Nat,
         Silence(t) # {}
  PROVE  t.start + Offset(WithEnvelope(t)) \in Silence(t)
<1> DEFINE p == WithEnvelope(t)
           d == Duration(t)
           l == p.to - p.from
           window == Window(d, l)
           best == {k \in window : p.from + k \in quiet}
<1>1. /\ t.start \in Nat /\ t.end \in Nat /\ d = t.end - t.start /\ d \in Nat
      /\ p.start = t.start /\ p.end = t.end /\ p.from = t.start
      /\ p.to = Min({samples, t.end})
  BY DEF Span, Duration, WithEnvelope
<1>2. p.to \in Nat /\ p.to <= samples /\ p.to <= t.end /\ p.to \in {samples, t.end}
  BY <1>1, MinOfTwo
<1>3. Duration(p) = d
  BY <1>1 DEF Duration
<1>4. Offset(p) = CASE window = {} -> Min({MaxLen, d \div 2})
                    [] best # {}   -> Min(best)
                    [] OTHER       -> Min(window)
  BY <1>3 DEF Offset
<1> DEFINE lo == Max({MinPiece, (2 * d) \div 5})
           third == (3 * d) \div 5
           rest == d - MinPiece
<1>5. l \in Int /\ d \in Int /\ l <= d /\ MinPiece \in Nat /\ third \in Int /\ rest \in Int /\ lo \in Nat
  <2>1. MinPiece \in Nat /\ (2 * d) \div 5 \in Nat /\ third \in Int
    BY <1>1, TurnsAssumption
  <2>2. lo \in Nat
    BY <2>1, MaxOfTwo
  <2> QED BY <1>1, <1>2, <2>1, <2>2
<1>6. /\ window = lo .. Min({l, rest, third}) - 1
      /\ Window(d, d) = lo .. Min({d, rest, third}) - 1
  BY DEF Window
<1> HIDE DEF p, d, l, window, lo, third, rest
<1>7. /\ Min({l, rest, third}) \in {l, rest, third}
      /\ Min({l, rest, third}) <= l /\ Min({l, rest, third}) <= rest
      /\ Min({l, rest, third}) <= third
  BY <1>5, MinOfThree
<1>8. /\ Min({d, rest, third}) \in {d, rest, third}
      /\ Min({d, rest, third}) <= d /\ Min({d, rest, third}) <= rest
      /\ Min({d, rest, third}) <= third
  BY <1>5, MinOfThree
<1>9. \A k \in Window(d, d) : k \in Nat /\ k < d /\ (k < l => k \in window)
  BY <1>5, <1>6, <1>7, <1>8
<1>10. \A k \in window : k \in Nat /\ k < l /\ k \in Window(d, d)
  BY <1>5, <1>6, <1>7, <1>8
<1>11. PICK x \in quiet : x < samples /\ x - t.start \in Window(d, d)
  BY DEF Silence, d
<1>12. x - t.start \in window
  <2>1. x - t.start < d
    BY <1>9, <1>11
  <2>2. x - t.start < l
    BY <1>1, <1>2, <1>11, <2>1 DEF l
  <2> QED BY <1>9, <1>11, <2>2
<1>13. x - t.start \in best
  BY <1>1, <1>11, <1>12
<1>14. Offset(p) \in best
  <2>1. best \subseteq Nat
    BY <1>10
  <2>2. Offset(p) = Min(best)
    BY <1>4, <1>12, <1>13
  <2> QED BY <1>13, <2>1, <2>2, LeastOf
<1>15. t.start + Offset(p) < samples
  <2>1. Offset(p) \in Nat /\ Offset(p) < l
    BY <1>10, <1>14
  <2> QED BY <1>1, <1>2, <2>1 DEF l
<1>16. (t.start + Offset(p)) - t.start = Offset(p)
  BY <1>1, <1>10, <1>14
<1> QED BY <1>1, <1>10, <1>14, <1>15, <1>16 DEF Silence, d, p
-----------------------------------------------------------------------------
(* shape_turns: what holds of the pieces visited and the pieces to visit. *)

TurnTypes ==
  /\ raw \in Seq(Span) /\ Sorted(raw) /\ samples \in Nat /\ quiet \subseteq Nat
  /\ merged \in Seq(Span) /\ todo \in Seq(Piece) /\ shaped \in Seq(Span)
  /\ step \in {"merge", "split", "done"}
  /\ step = "merge" => merged = <<>> /\ todo = <<>> /\ shaped = <<>>
  /\ step = "done" => todo = <<>>

MergedRight == step # "merge" => MergedUpTo(Len(raw), merged)

\* What is said in the merged turns that are no scraps is said in the result and
\* in the pieces still to visit, of which the cuts make no scrap.
AudioKept ==
  step # "merge" => \A s \in Speakers, x \in Nat :
    (\E m \in DOMAIN merged : Duration(merged[m]) >= MinLen /\ Says(merged[m], s, x)) <=>
      \/ \E m \in DOMAIN shaped : Says(shaped[m], s, x)
      \/ \E m \in DOMAIN todo : Duration(todo[m]) >= MinLen /\ Says(todo[m], s, x)

KeptPieces == \A k \in DOMAIN shaped : Duration(shaped[k]) \in MinLen .. MaxLen

OrderKept ==
  Exclusive(raw) =>
    /\ Exclusive(shaped) /\ Exclusive(todo)
    /\ \A m \in DOMAIN shaped, n \in DOMAIN todo : shaped[m].end <= todo[n].start

\* A piece of turn t that ends in a silence t can be cut in.
EndsInSilence(p, t) == p.speaker = t.speaker /\ p.end \in Silence(t)

\* A turn that can be cut in a silence has yet to be visited or has been.
CutsKept ==
  step # "merge" => \A t \in ToSet(merged) : Duration(t) > MaxLen /\ Silence(t) # {} =>
    \/ \E n \in DOMAIN todo : todo[n] = WithEnvelope(t)
    \/ \E n \in DOMAIN todo : Duration(todo[n]) >= MinLen /\ EndsInSilence(todo[n], t)
    \/ \E n \in DOMAIN shaped : EndsInSilence(shaped[n], t)

TurnsInv == TurnTypes /\ MergedRight /\ AudioKept /\ KeptPieces /\ OrderKept /\ CutsKept

LEMMA TurnsStart == Init => TurnsInv
<1> SUFFICES ASSUME Init PROVE TurnsInv
  OBVIOUS
<1>1. raw \in Seq(Span) /\ Sorted(raw)
  <2>1. Turn \subseteq Span
    BY TurnsAssumption DEF Turn, Span
  <2>2. PICK n \in 0 .. MaxRaw : raw \in [1 .. n -> Turn] /\ Sorted(raw)
    BY DEF Init
  <2>3. n \in Nat
    BY TurnsAssumption
  <2>4. raw \in [1 .. n -> Span]
    BY <2>1, <2>2
  <2> QED BY <2>2, <2>3, <2>4
<1>2. samples \in Nat /\ quiet \subseteq Nat
  BY TurnsAssumption DEF Init
<1>3. merged = <<>> /\ todo = <<>> /\ shaped = <<>> /\ step = "merge"
  BY DEF Init
<1>4. /\ merged \in Seq(Span) /\ todo \in Seq(Piece) /\ shaped \in Seq(Span)
      /\ DOMAIN shaped = {} /\ DOMAIN todo = {}
  BY <1>3
<1>5. TurnTypes /\ MergedRight /\ AudioKept /\ CutsKept
  BY <1>1, <1>2, <1>3, <1>4 DEF TurnTypes, MergedRight, AudioKept, CutsKept
<1>6. KeptPieces /\ OrderKept
  BY <1>4 DEF KeptPieces, OrderKept, Exclusive
<1> QED BY <1>5, <1>6 DEF TurnsInv

LEMMA TurnsMerge == TurnsInv /\ Merge => TurnsInv'
<1> SUFFICES ASSUME TurnsInv, Merge PROVE TurnsInv'
  OBVIOUS
<1>1. /\ step = "merge" /\ step' = "split" /\ raw' = raw /\ samples' = samples
      /\ quiet' = quiet /\ shaped' = shaped
      /\ todo' = [k \in DOMAIN merged' |-> WithEnvelope(merged'[k])]
  BY DEF Merge
<1>2. /\ raw \in Seq(Span) /\ Sorted(raw) /\ samples \in Nat /\ quiet \subseteq Nat
      /\ shaped = <<>>
  BY <1>1 DEF TurnsInv, TurnTypes
<1>3. MergedUpTo(Len(raw), merged')
  BY <1>2, MergedAll DEF Merge
<1>4. merged' \in Seq(Span) /\ DOMAIN merged' = 1 .. Len(merged') /\ Len(merged') \in Nat
  BY <1>3 DEF MergedUpTo
<1>5. /\ todo' \in Seq(Piece) /\ DOMAIN todo' = DOMAIN merged'
      /\ \A k \in DOMAIN merged' : todo'[k] = WithEnvelope(merged'[k])
  <2>1. \A k \in 1 .. Len(merged') : WithEnvelope(merged'[k]) \in Piece
    BY <1>2, <1>4, Enveloped
  <2> QED BY <1>1, <1>4, <2>1
<1>6. \A k \in DOMAIN merged' : /\ todo'[k].start = merged'[k].start
                                /\ todo'[k].end = merged'[k].end
                                /\ todo'[k].speaker = merged'[k].speaker
  <2>1. \A t : /\ WithEnvelope(t).start = t.start /\ WithEnvelope(t).end = t.end
               /\ WithEnvelope(t).speaker = t.speaker
    BY DEF WithEnvelope
  <2> QED BY <1>5, <2>1
<1>7. shaped' = <<>> /\ shaped' \in Seq(Span) /\ DOMAIN shaped' = {}
  BY <1>1, <1>2
<1>8. TurnTypes'
  BY <1>1, <1>2, <1>4, <1>5, <1>7 DEF TurnTypes
<1>9. MergedRight'
  BY <1>1, <1>3 DEF MergedRight, MergedUpTo, InPause, Exclusive
<1>10. AudioKept'
  BY <1>5, <1>6, <1>7 DEF AudioKept, Says, Duration
<1>11. KeptPieces'
  BY <1>7 DEF KeptPieces
<1>12. OrderKept'
  <2>1. Exclusive(raw) => \A m, n \in 1 .. Len(merged') :
                            m < n => merged'[m].end <= merged'[n].start
    BY <1>3 DEF MergedUpTo
  <2> QED BY <1>1, <1>4, <1>5, <1>6, <1>7, <2>1 DEF OrderKept, Exclusive
<1>13. CutsKept'
  <2>1. \A t : WithEnvelope(t)' = WithEnvelope(t)
    BY <1>1 DEF WithEnvelope
  <2>2. \A t \in ToSet(merged') : \E n \in DOMAIN todo' : todo'[n] = WithEnvelope(t)'
    BY <1>5, <2>1 DEF ToSet
  <2> QED BY <2>2 DEF CutsKept
<1> QED BY <1>8, <1>9, <1>10, <1>11, <1>12, <1>13 DEF TurnsInv

\* What no step after the merge changes.
LEMMA SameMeeting ==
  ASSUME MergedRight, step = "split", step' # "merge",
         raw' = raw, samples' = samples, quiet' = quiet, merged' = merged
  PROVE  /\ MergedRight' /\ (Exclusive(raw)' <=> Exclusive(raw))
         /\ \A t : WithEnvelope(t)' = WithEnvelope(t)
         /\ \A t : Silence(t)' = Silence(t)
         /\ \A p, t : EndsInSilence(p, t)' <=> EndsInSilence(p, t)
<1>1. \A t : WithEnvelope(t)' = WithEnvelope(t)
  BY DEF WithEnvelope
<1>2. \A t : Silence(t)' = Silence(t)
  BY DEF Silence
<1>3. MergedRight'
  BY DEF MergedRight, MergedUpTo, InPause, Exclusive
<1> QED BY <1>1, <1>2, <1>3 DEF EndsInSilence, Exclusive

LEMMA Appended ==
  ASSUME NEW S, NEW s \in Seq(S), NEW x \in S
  PROVE  /\ Append(s, x) \in Seq(S) /\ Append(s, x)[Len(s) + 1] = x
         /\ DOMAIN s = 1 .. Len(s) /\ Len(s) \in Nat
         /\ DOMAIN Append(s, x) = 1 .. Len(s) + 1 /\ Len(s) + 1 \in 1 .. Len(s) + 1
         /\ \A k \in 1 .. Len(s) : k \in 1 .. Len(s) + 1 /\ Append(s, x)[k] = s[k]
OBVIOUS

LEMMA TurnsVisit == TurnsInv /\ Visit => TurnsInv'
<1> SUFFICES ASSUME TurnsInv, Visit PROVE TurnsInv'
  OBVIOUS
<1> DEFINE p == Head(todo)
           n == Len(todo)
           m == Len(shaped)
<1>1. /\ step = "split" /\ step' = step /\ raw' = raw /\ samples' = samples
      /\ quiet' = quiet /\ merged' = merged
      /\ todo # <<>> /\ Duration(p) <= MaxLen
      /\ todo' = Tail(todo)
      /\ shaped' = IF Keep(p) THEN Append(shaped, AsTurn(p)) ELSE shaped
  BY DEF Visit
<1>2. /\ raw \in Seq(Span) /\ Sorted(raw) /\ samples \in Nat /\ quiet \subseteq Nat
      /\ merged \in Seq(Span) /\ todo \in Seq(Piece) /\ shaped \in Seq(Span)
  BY DEF TurnsInv, TurnTypes
<1>3. /\ n \in Nat /\ n > 0 /\ DOMAIN todo = 1 .. n /\ todo[1] = p /\ p \in Piece
      /\ todo' \in Seq(Piece) /\ DOMAIN todo' = 1 .. n - 1
      /\ \A k \in 1 .. n - 1 : k + 1 \in 1 .. n /\ todo'[k] = todo[k + 1]
  BY <1>1, <1>2
<1>4. \A k \in 1 .. n : k = 1 \/ (k - 1 \in 1 .. n - 1 /\ todo'[k - 1] = todo[k])
  BY <1>3
<1>5. /\ AsTurn(p) \in Span /\ AsTurn(p).start = p.start /\ AsTurn(p).end = p.end
      /\ AsTurn(p).speaker = p.speaker
  BY <1>3 DEF AsTurn, Piece, Span
<1>6. /\ m \in Nat /\ DOMAIN shaped = 1 .. m /\ shaped' \in Seq(Span)
      /\ \A k \in 1 .. m : k \in DOMAIN shaped' /\ shaped'[k] = shaped[k]
      /\ Keep(p) => /\ DOMAIN shaped' = 1 .. m + 1 /\ shaped'[m + 1] = AsTurn(p)
                    /\ m + 1 \in DOMAIN shaped'
      /\ ~Keep(p) => DOMAIN shaped' = 1 .. m
  <2>1. m \in Nat /\ DOMAIN shaped = 1 .. m
    BY <1>2
  <2>2. CASE Keep(p)
    <3>1. shaped' = Append(shaped, AsTurn(p))
      BY <1>1, <2>2
    <3> DEFINE q == AsTurn(p)
    <3>2. q \in Span
      BY <1>5
    <3> HIDE DEF q
    <3>3. /\ Append(shaped, q) \in Seq(Span) /\ Append(shaped, q)[m + 1] = q
          /\ DOMAIN Append(shaped, q) = 1 .. m + 1 /\ m + 1 \in 1 .. m + 1
          /\ \A k \in 1 .. m : k \in 1 .. m + 1 /\ Append(shaped, q)[k] = shaped[k]
      BY <1>2, <3>2, Appended
    <3>4. shaped' = Append(shaped, q)
      BY <3>1 DEF q
    <3> HIDE DEF m
    <3>5. /\ shaped' \in Seq(Span) /\ shaped'[m + 1] = q
          /\ DOMAIN shaped' = 1 .. m + 1 /\ m + 1 \in DOMAIN shaped'
          /\ \A k \in 1 .. m : k \in DOMAIN shaped' /\ shaped'[k] = shaped[k]
      BY <3>3, <3>4
    <3> QED BY <2>1, <2>2, <3>5 DEF q
  <2>3. CASE ~Keep(p)
    BY <1>1, <1>2, <2>1, <2>3
  <2> QED BY <2>2, <2>3
<1>7. \A k \in DOMAIN shaped' : k \in 1 .. m \/ (Keep(p) /\ k = m + 1)
  BY <1>6
<1>8. Keep(p) <=> Duration(p) >= MinLen
  BY DEF Keep
<1>9. Keep(p) => m + 1 \in DOMAIN shaped' /\ shaped'[m + 1] = AsTurn(p)
  BY <1>6
<1>10. 1 \in 1 .. n
  BY <1>3
<1> HIDE DEF p, n, m
<1>11. TurnTypes'
  BY <1>1, <1>2, <1>3, <1>6 DEF TurnTypes
<1>12. AudioKept'
  <2>1. \A s, x : Says(AsTurn(p), s, x) <=> Says(p, s, x)
    BY <1>5 DEF Says
  <2>2. \A s, x : (\E k \in DOMAIN shaped' : Says(shaped'[k], s, x)) <=>
          (\E k \in DOMAIN shaped : Says(shaped[k], s, x)) \/ (Keep(p) /\ Says(p, s, x))
    BY <1>6, <1>7, <1>9, <2>1
  <2>3. \A s, x :
          (\E k \in DOMAIN todo : Duration(todo[k]) >= MinLen /\ Says(todo[k], s, x)) <=>
            \/ \E k \in DOMAIN todo' : Duration(todo'[k]) >= MinLen /\ Says(todo'[k], s, x)
            \/ Keep(p) /\ Says(p, s, x)
    BY <1>3, <1>4, <1>8, <1>10
  <2>4. AudioKept /\ step # "merge"
    BY <1>1 DEF TurnsInv
  <2>5. \A s \in Speakers, x \in Nat :
          (\E k \in DOMAIN merged : Duration(merged[k]) >= MinLen /\ Says(merged[k], s, x)) <=>
            \/ \E k \in DOMAIN shaped' : Says(shaped'[k], s, x)
            \/ \E k \in DOMAIN todo' : Duration(todo'[k]) >= MinLen /\ Says(todo'[k], s, x)
    BY <2>2, <2>3, <2>4 DEF AudioKept
  <2> QED BY <1>1, <2>5 DEF AudioKept, Says, Duration
<1>13. KeptPieces'
  <2>1. Duration(AsTurn(p)) = Duration(p)
    BY <1>5 DEF Duration
  <2>2. Keep(p) => Duration(p) \in MinLen .. MaxLen
    <3>1. Duration(p) \in Int /\ MinLen \in Int /\ MaxLen \in Int
      BY <1>3, TurnsAssumption DEF Piece, Duration
    <3> QED BY <1>1, <1>8, <3>1
  <2>3. \A k \in DOMAIN shaped' : Duration(shaped'[k]) \in MinLen .. MaxLen
    BY <1>6, <1>7, <1>9, <2>1, <2>2 DEF TurnsInv, KeptPieces
  <2> QED BY <2>3 DEF KeptPieces, Duration
<1>14. OrderKept'
  <2> SUFFICES ASSUME Exclusive(raw)
               PROVE  /\ Exclusive(shaped)' /\ Exclusive(todo)'
                      /\ \A k \in DOMAIN shaped', i \in DOMAIN todo' :
                           shaped'[k].end <= todo'[i].start
    BY <1>1 DEF OrderKept, Exclusive
  <2>1. /\ \A k, i \in 1 .. m : k < i => shaped[k].end <= shaped[i].start
        /\ \A k, i \in 1 .. n : k < i => todo[k].end <= todo[i].start
        /\ \A k \in 1 .. m, i \in 1 .. n : shaped[k].end <= todo[i].start
    BY <1>3, <1>6 DEF TurnsInv, OrderKept, Exclusive
  <2>2. \A k, i \in 1 .. n - 1 : k < i => todo'[k].end <= todo'[i].start
    <3>1. \A k, i \in 1 .. n - 1 : k < i => k + 1 < i + 1
      BY <1>3
    <3> QED BY <1>3, <2>1, <3>1
  <2>3. \A i \in 1 .. n - 1 : p.end <= todo'[i].start
    <3>1. \A i \in 1 .. n - 1 : 1 < i + 1
      BY <1>3
    <3> QED BY <1>3, <1>10, <2>1, <3>1
  <2>4. \A k \in 1 .. m : shaped[k].end <= p.start
    BY <1>3, <1>10, <2>1
  <2>5. \A k \in DOMAIN shaped', i \in DOMAIN todo' : shaped'[k].end <= todo'[i].start
    <3> TAKE k \in DOMAIN shaped', i \in DOMAIN todo'
    <3>1. i \in 1 .. n - 1 /\ i + 1 \in 1 .. n /\ todo'[i] = todo[i + 1]
      BY <1>3
    <3>2. CASE k \in 1 .. m
      BY <1>6, <2>1, <3>1, <3>2
    <3>3. CASE Keep(p) /\ k = m + 1
      <4>1. shaped'[k].end = p.end
        BY <1>5, <1>9, <3>3
      <4> QED BY <2>3, <3>1, <4>1
    <3> QED BY <1>7, <3>2, <3>3
  <2>6. ASSUME NEW k \in DOMAIN shaped', NEW i \in DOMAIN shaped', k < i
        PROVE  shaped'[k].end <= shaped'[i].start
    <3>1. k \in 1 .. m
      BY <1>6, <1>7, <2>6
    <3>2. CASE i \in 1 .. m
      BY <1>6, <2>1, <2>6, <3>1, <3>2
    <3>3. CASE Keep(p) /\ i = m + 1
      BY <1>5, <1>6, <1>9, <2>4, <3>1, <3>3
    <3> QED BY <1>7, <3>2, <3>3
  <2> QED BY <1>3, <2>2, <2>5, <2>6 DEF Exclusive
<1>15. MergedRight' /\ CutsKept'
  <2>1. /\ MergedRight'
        /\ \A t : WithEnvelope(t)' = WithEnvelope(t)
        /\ \A t : Silence(t)' = Silence(t)
        /\ \A q, t : EndsInSilence(q, t)' <=> EndsInSilence(q, t)
    BY <1>1, SameMeeting DEF TurnsInv
  <2>2. ASSUME NEW t \in ToSet(merged), Duration(t) > MaxLen, Silence(t) # {}
        PROVE  \/ \E k \in DOMAIN todo' : todo'[k] = WithEnvelope(t)
               \/ \E k \in DOMAIN todo' : /\ Duration(todo'[k]) >= MinLen
                                          /\ EndsInSilence(todo'[k], t)
               \/ \E k \in DOMAIN shaped' : EndsInSilence(shaped'[k], t)
    <3>1. \/ \E k \in DOMAIN todo : todo[k] = WithEnvelope(t)
          \/ \E k \in DOMAIN todo : Duration(todo[k]) >= MinLen /\ EndsInSilence(todo[k], t)
          \/ \E k \in DOMAIN shaped : EndsInSilence(shaped[k], t)
      BY <1>1, <2>2 DEF TurnsInv, CutsKept
    <3>2. p # WithEnvelope(t)
      <4>1. Duration(WithEnvelope(t)) = Duration(t)
        BY DEF Duration, WithEnvelope
      <4>2. Duration(t) \in Int /\ MaxLen \in Nat
        <5>1. t \in Span
          BY <1>2 DEF ToSet
        <5> QED BY <5>1, TurnsAssumption DEF Span, Duration
      <4> QED BY <1>1, <2>2, <4>1, <4>2
    <3>3. EndsInSilence(p, t) => EndsInSilence(AsTurn(p), t)
      BY <1>5 DEF EndsInSilence
    <3>4. CASE \E k \in DOMAIN todo : todo[k] = WithEnvelope(t)
      BY <1>3, <1>4, <3>2, <3>4
    <3>5. CASE \E k \in DOMAIN todo : Duration(todo[k]) >= MinLen /\ EndsInSilence(todo[k], t)
      <4>1. PICK k \in 1 .. n : Duration(todo[k]) >= MinLen /\ EndsInSilence(todo[k], t)
        BY <1>3, <3>5
      <4>2. CASE k = 1
        BY <1>3, <1>8, <1>9, <3>3, <4>1, <4>2
      <4>3. CASE k - 1 \in 1 .. n - 1 /\ todo'[k - 1] = todo[k]
        BY <1>3, <4>1, <4>3
      <4> QED BY <1>4, <4>2, <4>3
    <3>6. CASE \E k \in DOMAIN shaped : EndsInSilence(shaped[k], t)
      BY <1>6, <3>6
    <3> QED BY <3>1, <3>4, <3>5, <3>6
  <2> QED BY <1>1, <2>1, <2>2 DEF CutsKept, Duration
<1> QED BY <1>11, <1>12, <1>13, <1>14, <1>15 DEF TurnsInv

\* Two pieces in place of the first.
LEMMA Replaced ==
  ASSUME NEW S, NEW s \in Seq(S), s # <<>>, NEW a \in S, NEW b \in S
  PROVE  LET out == <<a, b>> \o Tail(s)
             n == Len(s)
         IN /\ n \in Nat /\ n > 0 /\ DOMAIN s = 1 .. n
            /\ out \in Seq(S) /\ DOMAIN out = 1 .. n + 1
            /\ out[1] = a /\ out[2] = b /\ 1 \in 1 .. n + 1 /\ 2 \in 1 .. n + 1
            /\ \A k \in 2 .. n : k + 1 \in 1 .. n + 1 /\ out[k + 1] = s[k]
<1> DEFINE r == Tail(s)
           f == <<a, b>>
<1>1. /\ r \in Seq(S) /\ Len(r) = Len(s) - 1 /\ Len(s) \in Nat /\ Len(s) > 0
      /\ \A k \in 1 .. Len(r) : r[k] = s[k + 1]
  OBVIOUS
<1>2. f \in Seq(S) /\ Len(f) = 2 /\ f[1] = a /\ f[2] = b
  OBVIOUS
<1> HIDE DEF r, f
<1>3. /\ f \o r \in Seq(S) /\ Len(f \o r) = Len(s) + 1
      /\ \A k \in 1 .. Len(f) + Len(r) :
           (f \o r)[k] = IF k <= Len(f) THEN f[k] ELSE r[k - Len(f)]
  <2>1. f \in Seq(S) /\ r \in Seq(S)
    BY <1>1, <1>2
  <2>2. /\ f \o r \in Seq(S) /\ Len(f \o r) = Len(f) + Len(r)
        /\ \A k \in 1 .. Len(f) + Len(r) :
             (f \o r)[k] = IF k <= Len(f) THEN f[k] ELSE r[k - Len(f)]
    BY <2>1, ConcatProperties
  <2>3. Len(f) + Len(r) = Len(s) + 1
    BY <1>1, <1>2
  <2> QED BY <2>2, <2>3
<1>4. (f \o r)[1] = a /\ (f \o r)[2] = b
  BY <1>1, <1>2, <1>3
<1>5. \A k \in 2 .. Len(s) : k + 1 \in 1 .. Len(s) + 1 /\ (f \o r)[k + 1] = s[k]
  <2> TAKE k \in 2 .. Len(s)
  <2>1. k + 1 \in 1 .. Len(f) + Len(r) /\ ~(k + 1 <= Len(f)) /\ (k + 1) - Len(f) = k - 1
    BY <1>1, <1>2
  <2>2. r[k - 1] = s[(k - 1) + 1] /\ (k - 1) + 1 = k
    BY <1>1
  <2> QED BY <1>1, <1>3, <2>1, <2>2
<1> QED BY <1>1, <1>3, <1>4, <1>5 DEF f, r

LEMMA TurnsSplit == TurnsInv /\ Split => TurnsInv'
<1> SUFFICES ASSUME TurnsInv, Split PROVE TurnsInv'
  OBVIOUS
<1> DEFINE p == Head(todo)
           cut == p.start + Offset(p)
           a == [p EXCEPT !.end = cut]
           b == [p EXCEPT !.start = cut]
           n == Len(todo)
<1>1. /\ step = "split" /\ step' = step /\ raw' = raw /\ samples' = samples
      /\ quiet' = quiet /\ merged' = merged /\ shaped' = shaped
      /\ todo # <<>> /\ Duration(p) > MaxLen
      /\ todo' = <<a, b>> \o Tail(todo)
  BY DEF Split
<1>2. /\ raw \in Seq(Span) /\ Sorted(raw) /\ samples \in Nat /\ quiet \subseteq Nat
      /\ merged \in Seq(Span) /\ todo \in Seq(Piece) /\ shaped \in Seq(Span)
  BY DEF TurnsInv, TurnTypes
<1>3. p \in Piece /\ todo[1] = p
  BY <1>1, <1>2
<1> HIDE DEF p
<1>4. /\ cut \in Nat /\ Offset(p) \in Nat /\ Offset(p) >= MinLen
      /\ Duration(p) - Offset(p) >= MinLen /\ MinLen \in Nat /\ MinLen > 0
  BY <1>1, <1>3, CutInside
<1>5. p.start \in Nat /\ p.end \in Nat /\ p.start < p.end /\ Duration(p) = p.end - p.start
  BY <1>3 DEF Piece, Duration
<1>6. /\ p.start < cut /\ cut < p.end /\ cut - p.start >= MinLen /\ p.end - cut >= MinLen
      /\ Duration(p) >= MinLen
  BY <1>4, <1>5
<1> HIDE DEF cut
<1>7. /\ a \in Piece /\ a.start = p.start /\ a.end = cut /\ a.speaker = p.speaker
      /\ b \in Piece /\ b.start = cut /\ b.end = p.end /\ b.speaker = p.speaker
  BY <1>3, <1>4, <1>6 DEF Piece
<1> HIDE DEF a, b
<1>8. /\ n \in Nat /\ n > 0 /\ DOMAIN todo = 1 .. n
      /\ todo' \in Seq(Piece) /\ DOMAIN todo' = 1 .. n + 1
      /\ todo'[1] = a /\ todo'[2] = b /\ 1 \in 1 .. n + 1 /\ 2 \in 1 .. n + 1
      /\ \A k \in 2 .. n : k + 1 \in 1 .. n + 1 /\ todo'[k + 1] = todo[k]
  BY <1>1, <1>2, <1>7, Replaced
<1>9. /\ 1 \in 1 .. n
      /\ \A k \in 1 .. n : k = 1 \/ k \in 2 .. n
      /\ \A k \in 1 .. n + 1 : k = 1 \/ k = 2 \/ (k - 1 \in 2 .. n /\ todo'[k] = todo[k - 1])
  BY <1>8
<1>10. Duration(a) >= MinLen /\ Duration(b) >= MinLen
  BY <1>6, <1>7 DEF Duration
<1> HIDE DEF n
<1>11. TurnTypes'
  BY <1>1, <1>2, <1>8 DEF TurnTypes
<1>12. AudioKept'
  <2>1. \A s : \A x \in Nat : Says(p, s, x) <=> Says(a, s, x) \/ Says(b, s, x)
    BY <1>4, <1>5, <1>6, <1>7 DEF Says
  <2>2. ASSUME NEW s, NEW x \in Nat
        PROVE  (\E k \in DOMAIN todo : Duration(todo[k]) >= MinLen /\ Says(todo[k], s, x)) <=>
               (\E k \in DOMAIN todo' : Duration(todo'[k]) >= MinLen /\ Says(todo'[k], s, x))
    <3>1. ASSUME NEW k \in 1 .. n, Duration(todo[k]) >= MinLen /\ Says(todo[k], s, x)
          PROVE  \E i \in 1 .. n + 1 : Duration(todo'[i]) >= MinLen /\ Says(todo'[i], s, x)
      <4>1. CASE k = 1
        BY <1>3, <1>8, <1>10, <2>1, <3>1, <4>1
      <4>2. CASE k \in 2 .. n
        BY <1>8, <3>1, <4>2
      <4> QED BY <1>9, <4>1, <4>2
    <3>2. ASSUME NEW k \in 1 .. n + 1, Duration(todo'[k]) >= MinLen /\ Says(todo'[k], s, x)
          PROVE  \E i \in 1 .. n : Duration(todo[i]) >= MinLen /\ Says(todo[i], s, x)
      <4>1. CASE k = 1 \/ k = 2
        BY <1>3, <1>6, <1>8, <1>9, <2>1, <3>2, <4>1
      <4>2. CASE k - 1 \in 2 .. n /\ todo'[k] = todo[k - 1]
        <5>1. k - 1 \in 1 .. n
          BY <1>8, <4>2
        <5> QED BY <3>2, <4>2, <5>1
      <4> QED BY <1>9, <4>1, <4>2
    <3> QED BY <1>8, <3>1, <3>2
  <2>3. AudioKept /\ step # "merge"
    BY <1>1 DEF TurnsInv
  <2>4. \A s \in Speakers, x \in Nat :
          (\E k \in DOMAIN merged : Duration(merged[k]) >= MinLen /\ Says(merged[k], s, x)) <=>
            \/ \E k \in DOMAIN shaped : Says(shaped[k], s, x)
            \/ \E k \in DOMAIN todo' : Duration(todo'[k]) >= MinLen /\ Says(todo'[k], s, x)
    BY <2>2, <2>3 DEF AudioKept
  <2>5. \A s \in Speakers, x \in Nat :
          (\E k \in DOMAIN merged' : Duration(merged'[k]) >= MinLen /\ Says(merged'[k], s, x)) <=>
            \/ \E k \in DOMAIN shaped' : Says(shaped'[k], s, x)
            \/ \E k \in DOMAIN todo' : Duration(todo'[k]) >= MinLen /\ Says(todo'[k], s, x)
    BY <1>1, <2>4
  <2> QED BY <2>5, Zenon DEF AudioKept, Says, Duration
<1>13. KeptPieces'
  BY <1>1 DEF TurnsInv, KeptPieces, Duration
<1>14. OrderKept'
  <2> SUFFICES ASSUME Exclusive(raw)
               PROVE  /\ Exclusive(shaped)' /\ Exclusive(todo)'
                      /\ \A k \in DOMAIN shaped', i \in DOMAIN todo' :
                           shaped'[k].end <= todo'[i].start
    BY <1>1 DEF OrderKept, Exclusive
  <2>1. /\ Exclusive(shaped)
        /\ \A k, i \in 1 .. n : k < i => todo[k].end <= todo[i].start
        /\ \A k \in DOMAIN shaped, i \in 1 .. n : shaped[k].end <= todo[i].start
    BY <1>8 DEF TurnsInv, OrderKept, Exclusive
  <2>2. \A k \in DOMAIN shaped : shaped[k].end \in Nat
    BY <1>2 DEF Span
  <2>3. ASSUME NEW k \in DOMAIN shaped, NEW i \in 1 .. n + 1
        PROVE  shaped[k].end <= todo'[i].start
    <3>1. shaped[k].end <= p.start
      BY <1>3, <1>9, <2>1
    <3>2. CASE i = 1
      BY <1>7, <1>8, <3>1, <3>2
    <3>3. CASE i = 2
      BY <1>4, <1>5, <1>6, <1>7, <1>8, <2>2, <3>1, <3>3
    <3>4. CASE i - 1 \in 2 .. n /\ todo'[i] = todo[i - 1]
      <4>1. i - 1 \in 1 .. n
        BY <1>8, <3>4
      <4> QED BY <2>1, <3>4, <4>1
    <3> QED BY <1>9, <3>2, <3>3, <3>4
  <2>4. ASSUME NEW k \in 1 .. n + 1, NEW i \in 1 .. n + 1, k < i
        PROVE  todo'[k].end <= todo'[i].start
    <3>1. CASE i = 2
      <4>1. k = 1
        BY <2>4, <3>1
      <4>2. cut <= cut
        BY <1>4
      <4> QED BY <1>7, <1>8, <3>1, <4>1, <4>2
    <3>2. CASE i - 1 \in 2 .. n /\ todo'[i] = todo[i - 1]
      <4>1. i - 1 \in 1 .. n /\ 1 < i - 1
        BY <1>8, <3>2
      <4>2. p.end <= todo[i - 1].start
        BY <1>3, <1>9, <2>1, <4>1
      <4>3. CASE k = 1
        <5>1. todo[i - 1].start \in Nat
          BY <1>2, <1>8, <4>1 DEF Piece
        <5>2. cut <= todo[i - 1].start
          BY <1>4, <1>5, <1>6, <4>2, <5>1
        <5> QED BY <1>7, <1>8, <3>2, <4>3, <5>2
      <4>4. CASE k = 2
        BY <1>7, <1>8, <3>2, <4>2, <4>4
      <4>5. CASE k - 1 \in 2 .. n /\ todo'[k] = todo[k - 1]
        <5>1. k - 1 \in 1 .. n /\ k - 1 < i - 1
          BY <1>8, <2>4, <4>1, <4>5
        <5> QED BY <2>1, <3>2, <4>1, <4>5, <5>1
      <4> QED BY <1>9, <4>3, <4>4, <4>5
    <3>3. i # 1
      BY <2>4
    <3> QED BY <1>9, <3>1, <3>2, <3>3
  <2> QED BY <1>1, <1>8, <2>1, <2>3, <2>4 DEF Exclusive
<1>15. MergedRight' /\ CutsKept'
  <2>1. /\ MergedRight'
        /\ \A t : WithEnvelope(t)' = WithEnvelope(t)
        /\ \A t : Silence(t)' = Silence(t)
        /\ \A q, t : EndsInSilence(q, t)' <=> EndsInSilence(q, t)
    BY <1>1, SameMeeting DEF TurnsInv
  <2>2. ASSUME NEW t \in ToSet(merged), Duration(t) > MaxLen, Silence(t) # {}
        PROVE  \/ \E k \in DOMAIN todo' : todo'[k] = WithEnvelope(t)
               \/ \E k \in DOMAIN todo' : /\ Duration(todo'[k]) >= MinLen
                                          /\ EndsInSilence(todo'[k], t)
               \/ \E k \in DOMAIN shaped : EndsInSilence(shaped[k], t)
    <3>1. \/ \E k \in DOMAIN todo : todo[k] = WithEnvelope(t)
          \/ \E k \in DOMAIN todo : Duration(todo[k]) >= MinLen /\ EndsInSilence(todo[k], t)
          \/ \E k \in DOMAIN shaped : EndsInSilence(shaped[k], t)
      BY <1>1, <2>2 DEF TurnsInv, CutsKept
    <3>2. p = WithEnvelope(t) => EndsInSilence(a, t)
      <4> SUFFICES ASSUME p = WithEnvelope(t) PROVE EndsInSilence(a, t)
        OBVIOUS
      <4>1. p.start = t.start /\ p.speaker = t.speaker
        BY DEF WithEnvelope
      <4>2. t \in Span
        BY <1>2 DEF ToSet
      <4>3. cut \in Silence(t)
        BY <1>2, <2>2, <4>1, <4>2, CutSilent DEF cut
      <4> QED BY <1>7, <4>1, <4>3 DEF EndsInSilence
    <3>3. EndsInSilence(p, t) => EndsInSilence(b, t)
      BY <1>7 DEF EndsInSilence
    <3>4. ASSUME NEW k \in 1 .. n, todo[k] = WithEnvelope(t)
          PROVE  \/ \E i \in DOMAIN todo' : todo'[i] = WithEnvelope(t)
                 \/ \E i \in DOMAIN todo' : /\ Duration(todo'[i]) >= MinLen
                                            /\ EndsInSilence(todo'[i], t)
      <4>1. CASE k = 1
        BY <1>3, <1>8, <1>10, <3>2, <3>4, <4>1
      <4>2. CASE k \in 2 .. n
        BY <1>8, <3>4, <4>2
      <4> QED BY <1>9, <4>1, <4>2
    <3>5. ASSUME NEW k \in 1 .. n, Duration(todo[k]) >= MinLen, EndsInSilence(todo[k], t)
          PROVE  \E i \in DOMAIN todo' : /\ Duration(todo'[i]) >= MinLen
                                         /\ EndsInSilence(todo'[i], t)
      <4>1. CASE k = 1
        BY <1>3, <1>8, <1>10, <3>3, <3>5, <4>1
      <4>2. CASE k \in 2 .. n
        BY <1>8, <3>5, <4>2
      <4> QED BY <1>9, <4>1, <4>2
    <3> QED BY <1>8, <3>1, <3>4, <3>5
  <2> QED BY <1>1, <2>1, <2>2 DEF CutsKept, Duration
<1> QED BY <1>11, <1>12, <1>13, <1>14, <1>15 DEF TurnsInv

LEMMA TurnsReturn == TurnsInv /\ Return => TurnsInv'
<1> SUFFICES ASSUME TurnsInv, Return PROVE TurnsInv'
  OBVIOUS
<1>1. /\ step = "split" /\ step' = "done" /\ raw' = raw /\ samples' = samples
      /\ quiet' = quiet /\ merged' = merged /\ shaped' = shaped
      /\ todo' = todo /\ todo = <<>>
  BY DEF Return
<1>2. TurnTypes' /\ AudioKept' /\ KeptPieces' /\ OrderKept'
  BY <1>1 DEF TurnsInv, TurnTypes, AudioKept, KeptPieces, OrderKept, Says, Duration, Exclusive
<1>3. MergedRight' /\ CutsKept'
  <2>1. /\ MergedRight'
        /\ \A t : WithEnvelope(t)' = WithEnvelope(t)
        /\ \A t : Silence(t)' = Silence(t)
        /\ \A q, t : EndsInSilence(q, t)' <=> EndsInSilence(q, t)
    BY <1>1, SameMeeting DEF TurnsInv
  <2> QED BY <1>1, <2>1 DEF TurnsInv, CutsKept, Duration
<1> QED BY <1>2, <1>3 DEF TurnsInv

LEMMA TurnsStep == TurnsInv /\ [Next]_vars => TurnsInv'
<1>1. TurnsInv /\ UNCHANGED vars => TurnsInv'
  <2> SUFFICES ASSUME TurnsInv, UNCHANGED vars PROVE TurnsInv'
    OBVIOUS
  <2>1. /\ raw' = raw /\ samples' = samples /\ quiet' = quiet /\ merged' = merged
        /\ todo' = todo /\ shaped' = shaped /\ step' = step
    BY DEF vars
  <2>2. TurnTypes' /\ AudioKept' /\ KeptPieces'
    BY <2>1 DEF TurnsInv, TurnTypes, AudioKept, KeptPieces, Says, Duration, Sorted
  <2>3. OrderKept'
    BY <2>1 DEF TurnsInv, OrderKept, Exclusive
  <2>4. MergedRight'
    BY <2>1 DEF TurnsInv, MergedRight, MergedUpTo, InPause, Exclusive
  <2>5. CutsKept'
    <3>1. /\ \A t : WithEnvelope(t)' = WithEnvelope(t)
          /\ \A t : Silence(t)' = Silence(t)
          /\ \A q, t : EndsInSilence(q, t)' <=> EndsInSilence(q, t)
      BY <2>1 DEF WithEnvelope, EndsInSilence, Silence
    <3> QED BY <2>1, <3>1 DEF TurnsInv, CutsKept, Duration
  <2> QED BY <2>2, <2>3, <2>4, <2>5 DEF TurnsInv
<1> QED BY <1>1, TurnsMerge, TurnsVisit, TurnsSplit, TurnsReturn DEF Next
-----------------------------------------------------------------------------
LEMMA TurnsAlways == RSpec => []TurnsInv
<1>1. RInit => TurnsInv
  BY TurnsStart DEF RInit
<1>2. TurnsInv /\ [RNext]_rvars => TurnsInv'
  <2>1. [RNext]_rvars => [Next]_vars
    BY DEF RNext, rvars, vars, Begin, SkipEmpty, Save, Transcribe
  <2> QED BY <2>1, TurnsStep
<1> QED BY <1>1, <1>2, PTL DEF RSpec

\* The times at which a speaker of some turns speaks.
LEMMA SpokenTimes ==
  ASSUME NEW T, T \subseteq Span, NEW s
  PROVE  /\ Spoken(T, s) \subseteq Nat
         /\ \A x \in Nat : x \in Spoken(T, s) <=> \E t \in T : Says(t, s, x)
<1>1. \A t \in T : /\ t.start \in Nat /\ t.end \in Nat
                   /\ t.start .. t.end - 1 \subseteq Nat
                   /\ \A x \in Nat : x \in t.start .. t.end - 1 <=> t.start <= x /\ x < t.end
  BY DEF Span
<1> QED BY <1>1 DEF Spoken, Says

\* merge_turns, for any diarization: nobody's speech is lost, and what is added to
\* a speaker's is a pause of less than MERGE_GAP_SECONDS between two turns of
\* their own, however the turns of several speakers interleave or overlap.
THEOREM MergeHolds == RSpec => []MergeKeepsSpeech
<1>1. TurnsInv => MergeKeepsSpeech
  <2> SUFFICES ASSUME TurnsInv, step # "merge", NEW s \in Speakers
               PROVE  /\ Spoken(ToSet(raw), s) \subseteq Spoken(ToSet(merged), s)
                      /\ \A x \in Spoken(ToSet(merged), s) \ Spoken(ToSet(raw), s) :
                           \E a, b \in ToSet(raw) :
                             /\ a.speaker = s /\ b.speaker = s
                             /\ a.end <= x /\ x < b.start /\ b.start - a.end < Gap
    BY DEF MergeKeepsSpeech
  <2>1. /\ raw \in Seq(Span) /\ merged \in Seq(Span)
        /\ MergedUpTo(Len(raw), merged)
    BY DEF TurnsInv, TurnTypes, MergedRight
  <2>2. /\ ToSet(raw) \subseteq Span /\ ToSet(merged) \subseteq Span
        /\ \A k \in 1 .. Len(raw) : raw[k] \in ToSet(raw)
        /\ \A k \in 1 .. Len(merged) : merged[k] \in ToSet(merged)
        /\ \A t \in ToSet(raw) : \E k \in 1 .. Len(raw) : t = raw[k]
        /\ \A t \in ToSet(merged) : \E k \in 1 .. Len(merged) : t = merged[k]
    BY <2>1 DEF ToSet
  <2>3. /\ Spoken(ToSet(raw), s) \subseteq Nat
        /\ \A x \in Nat : x \in Spoken(ToSet(raw), s) <=> \E t \in ToSet(raw) : Says(t, s, x)
    BY <2>2, SpokenTimes
  <2>4. /\ Spoken(ToSet(merged), s) \subseteq Nat
        /\ \A x \in Nat : x \in Spoken(ToSet(merged), s) <=>
                            \E t \in ToSet(merged) : Says(t, s, x)
    BY <2>2, SpokenTimes
  <2>5. ASSUME NEW x \in Spoken(ToSet(raw), s) PROVE x \in Spoken(ToSet(merged), s)
    <3>1. x \in Nat /\ \E k \in 1 .. Len(raw) : Says(raw[k], s, x)
      BY <2>2, <2>3
    <3>2. \E m \in 1 .. Len(merged) : Says(merged[m], s, x)
      BY <2>1, <3>1 DEF MergedUpTo
    <3> QED BY <2>2, <2>4, <3>1, <3>2
  <2>6. ASSUME NEW x \in Spoken(ToSet(merged), s), x \notin Spoken(ToSet(raw), s)
        PROVE  \E a, b \in ToSet(raw) :
                 /\ a.speaker = s /\ b.speaker = s
                 /\ a.end <= x /\ x < b.start /\ b.start - a.end < Gap
    <3>1. x \in Nat /\ \E m \in 1 .. Len(merged) : Says(merged[m], s, x)
      BY <2>2, <2>4
    <3>2. ~ \E k \in 1 .. Len(raw) : Says(raw[k], s, x)
      BY <2>2, <2>3, <2>6, <3>1
    <3>3. \E i, j \in 1 .. Len(raw) : InPause(i, j, s, x)
      BY <2>1, <3>1, <3>2 DEF MergedUpTo
    <3> QED BY <2>2, <3>3 DEF InPause
  <2> QED BY <2>5, <2>6
<1> QED BY <1>1, TurnsAlways, PTL

\* shape_turns, for any recording: its pieces are short enough for one call of
\* speech recognition, and are said exactly what the merged turns of at least
\* MIN_TURN_SECONDS are, wherever a long turn is cut and however often.
THEOREM SplitHolds == RSpec => []SplitKeepsAudio
<1>1. TurnsInv => SplitKeepsAudio
  <2> SUFFICES ASSUME TurnsInv, step = "done"
               PROVE  /\ \A s \in Speakers :
                           Spoken(ToSet(shaped), s) =
                             Spoken({t \in ToSet(merged) : Duration(t) >= MinLen}, s)
                      /\ \A k \in DOMAIN shaped : Duration(shaped[k]) <= MaxLen
    BY DEF SplitKeepsAudio
  <2>1. merged \in Seq(Span) /\ shaped \in Seq(Span) /\ DOMAIN todo = {} /\ AudioKept
    BY DEF TurnsInv, TurnTypes
  <2> DEFINE Long == {t \in ToSet(merged) : Duration(t) >= MinLen}
  <2>2. ASSUME NEW s \in Speakers PROVE Spoken(ToSet(shaped), s) = Spoken(Long, s)
    <3>1. ToSet(shaped) \subseteq Span /\ Long \subseteq Span
      BY <2>1 DEF ToSet
    <3>2. \A x : (\E m \in DOMAIN merged : /\ Duration(merged[m]) >= MinLen
                                           /\ Says(merged[m], s, x))
                   <=> \E t \in Long : Says(t, s, x)
      BY DEF ToSet
    <3>3. \A x : (\E m \in DOMAIN shaped : Says(shaped[m], s, x))
                   <=> \E t \in ToSet(shaped) : Says(t, s, x)
      BY DEF ToSet
    <3>4. \A x \in Nat : (\E m \in DOMAIN merged : /\ Duration(merged[m]) >= MinLen
                                                   /\ Says(merged[m], s, x))
                           <=> \E m \in DOMAIN shaped : Says(shaped[m], s, x)
      BY <2>1 DEF AudioKept
    <3> HIDE DEF Long
    <3>5. /\ Spoken(ToSet(shaped), s) \subseteq Nat
          /\ \A x \in Nat : x \in Spoken(ToSet(shaped), s) <=>
                              \E t \in ToSet(shaped) : Says(t, s, x)
      BY <3>1, SpokenTimes
    <3>6. /\ Spoken(Long, s) \subseteq Nat
          /\ \A x \in Nat : x \in Spoken(Long, s) <=> \E t \in Long : Says(t, s, x)
      BY <3>1, SpokenTimes
    <3>7. \A x \in Nat : x \in Spoken(ToSet(shaped), s) <=> x \in Spoken(Long, s)
      BY <3>2, <3>3, <3>4, <3>5, <3>6
    <3> QED BY <3>5, <3>6, <3>7
  <2> QED BY <2>2 DEF TurnsInv, KeptPieces
<1> QED BY <1>1, TurnsAlways, PTL

\* What exclusive diarization promises survives merging and splitting: no moment
\* is transcribed twice, and the turns are in the order of the recording.
THEOREM ExclusiveHolds == RSpec => []StaysExclusive
<1>1. TurnsInv => StaysExclusive
  BY DEF TurnsInv, OrderKept, StaysExclusive
<1> QED BY <1>1, TurnsAlways, PTL

\* A merged turn that is too long for one call is cut in a silence when its middle
\* fifth has one, and the piece that ends there is never dropped as a scrap.
THEOREM SilenceHolds == RSpec => []CutInSilence
<1>1. TurnsInv => CutInSilence
  <2> SUFFICES ASSUME TurnsInv, step = "done", NEW t \in ToSet(merged), Duration(t) > MaxLen,
                      Silence(t) # {}
               PROVE  \E p \in ToSet(shaped) : p.speaker = t.speaker /\ p.end \in Silence(t)
    BY DEF CutInSilence, Silence
  <2>1. DOMAIN todo = {}
    BY DEF TurnsInv, TurnTypes
  <2>2. \E n \in DOMAIN shaped : EndsInSilence(shaped[n], t)
    BY <2>1 DEF TurnsInv, CutsKept
  <2> QED BY <2>2 DEF EndsInSilence, ToSet
<1> QED BY <1>1, TurnsAlways, PTL
-----------------------------------------------------------------------------
(* The guard: has_repeat_run finds the texts that repeat themselves. *)

\* A recursion on 1 .. n, by the fold that takes the greatest first.
Iterates(f, n, b, h) == f[0] = b /\ \A k \in 1 .. n : f[k] = h[<<k, f[k - 1]>>]

LEMMA StepsExist ==
  ASSUME NEW n \in Nat, NEW T, NEW b \in T, NEW h \in [(1 .. n) \X T -> T]
  PROVE  \E f \in [0 .. n -> T] : Iterates(f, n, b, h)
<1> DEFINE D == 1 .. n
           pick == [s \in SUBSET D |-> Max(s)]
<1>1. IsFiniteSet(D)
  BY FS_Interval
<1>2. \A s \in SUBSET D : s # {} => pick[s] \in s
  <2>1. \A s \in SUBSET (1 .. n) : s # {} => Max(s) \in s
    BY MaxOfTurns
  <2> QED BY <2>1
<1>3. PICK g \in [SUBSET D -> T] : IsFold(g, D, b, pick, h)
  BY <1>1, <1>2, FoldExists
<1> DEFINE f == [k \in 0 .. n |-> g[1 .. k]]
<1>4. \A k \in 0 .. n : 1 .. k \in SUBSET D
  OBVIOUS
<1>5. f \in [0 .. n -> T]
  BY <1>4
<1>6. f[0] = b
  <2>1. 1 .. 0 = {} /\ 0 \in 0 .. n
    OBVIOUS
  <2> QED BY <1>3, <2>1 DEF IsFold
<1>7. ASSUME NEW k \in 1 .. n PROVE f[k] = h[<<k, f[k - 1]>>]
  <2>1. 1 .. k \in SUBSET D /\ k \in 1 .. k /\ k \in 0 .. n /\ k - 1 \in 0 .. n
    OBVIOUS
  <2>2. Max(1 .. k) = k
    BY MaxOfTurns
  <2>3. (1 .. k) \ {k} = 1 .. k - 1
    OBVIOUS
  <2>4. pick[1 .. k] = k
    BY <2>1, <2>2
  <2>5. g[1 .. k] = h[<<pick[1 .. k], g[(1 .. k) \ {pick[1 .. k]}]>>]
    BY <1>3, <2>1 DEF IsFold
  <2>6. g[1 .. k] = h[<<k, g[1 .. k - 1]>>]
    BY <2>3, <2>4, <2>5
  <2> QED BY <2>1, <2>6
<1> HIDE DEF f
<1>8. Iterates(f, n, b, h)
  BY <1>6, <1>7 DEF Iterates
<1> QED BY <1>5, <1>8

\* How often the word at k has been said in a row.
IsRun(words, run) ==
  \A k \in DOMAIN words :
    run[k] = IF k > 1 /\ words[k] = words[k - 1] THEN run[k - 1] + 1 ELSE 1

LEMMA RunsExist ==
  ASSUME NEW S, NEW words \in Seq(S)
  PROVE  IsRun(words, RunAt(words))
<1> DEFINE n == Len(words)
           h == [p \in (1 .. n) \X Nat |-> IF p[1] > 1 /\ words[p[1]] = words[p[1] - 1]
                                           THEN p[2] + 1 ELSE 1]
<1>1. n \in Nat /\ DOMAIN words = 1 .. n
  OBVIOUS
<1>2. h \in [(1 .. n) \X Nat -> Nat]
  OBVIOUS
<1>3. \A k \in 1 .. n, m \in Nat :
        h[<<k, m>>] = IF k > 1 /\ words[k] = words[k - 1] THEN m + 1 ELSE 1
  OBVIOUS
<1> HIDE DEF n, h
<1>4. PICK f \in [0 .. n -> Nat] : \A k \in 1 .. n : f[k] = h[<<k, f[k - 1]>>]
  <2>1. n \in Nat /\ 0 \in Nat /\ h \in [(1 .. n) \X Nat -> Nat]
    BY <1>1, <1>2
  <2>2. PICK f \in [0 .. n -> Nat] : Iterates(f, n, 0, h)
    BY <2>1, StepsExist
  <2> QED BY <2>2 DEF Iterates
<1> DEFINE run == [k \in 1 .. n |-> f[k]]
<1>5. ASSUME NEW k \in 1 .. n
      PROVE  run[k] = IF k > 1 /\ words[k] = words[k - 1] THEN run[k - 1] + 1 ELSE 1
  <2>1. f[k - 1] \in Nat
    BY <1>1
  <2>2. f[k] = IF k > 1 /\ words[k] = words[k - 1] THEN f[k - 1] + 1 ELSE 1
    BY <1>3, <1>4, <2>1
  <2>3. k > 1 => k - 1 \in 1 .. n
    BY <1>1
  <2> QED BY <2>2, <2>3
<1>6. run = [k \in DOMAIN words |->
               IF k > 1 /\ words[k] = words[k - 1] THEN run[k - 1] + 1 ELSE 1]
  BY <1>1, <1>5
<1> HIDE DEF run
<1>7. RunAt(words) = [k \in DOMAIN words |->
               IF k > 1 /\ words[k] = words[k - 1] THEN RunAt(words)[k - 1] + 1 ELSE 1]
  BY <1>6 DEF RunAt
<1> QED BY <1>7 DEF IsRun

\* A run goes back over equal words as far as they go.
LEMMA RunsAreMaximal ==
  ASSUME NEW S, NEW words \in Seq(S), NEW run, IsRun(words, run)
  PROVE  \A k \in DOMAIN words :
           /\ run[k] \in 1 .. k
           /\ \A i \in k - run[k] + 1 .. k - 1 : words[i] = words[i + 1]
           /\ run[k] = k \/ words[k - run[k]] # words[k - run[k] + 1]
<1> DEFINE n == Len(words)
           Maximal(k) == /\ run[k] \in 1 .. k
                         /\ \A i \in k - run[k] + 1 .. k - 1 : words[i] = words[i + 1]
                         /\ run[k] = k \/ words[k - run[k]] # words[k - run[k] + 1]
           T == {k \in Nat : k \in 1 .. n => Maximal(k)}
<1>1. n \in Nat /\ DOMAIN words = 1 .. n
  OBVIOUS
<1>2. 0 \in T
  OBVIOUS
<1>3. ASSUME NEW j \in Nat, j \in T PROVE j + 1 \in T
  <2> DEFINE k == j + 1
  <2> SUFFICES ASSUME k \in 1 .. n PROVE Maximal(k)
    OBVIOUS
  <2>1. run[k] = IF k > 1 /\ words[k] = words[k - 1] THEN run[k - 1] + 1 ELSE 1
    BY <1>1 DEF IsRun
  <2>2. k \in Nat /\ k - 1 = j
    OBVIOUS
  <2>3. CASE k > 1 /\ words[k] = words[k - 1]
    <3>1. j \in 1 .. n /\ Maximal(j) /\ run[k] = run[j] + 1 /\ words[j] = words[j + 1]
      BY <1>1, <1>3, <2>1, <2>3
    <3>2. /\ k - run[k] = j - run[j] /\ run[k] \in 1 .. k /\ (run[k] = k <=> run[j] = j)
          /\ run[j] \in Nat /\ run[k] \in Nat
      <4>1. run[j] \in 1 .. j /\ run[k] = run[j] + 1 /\ run[j] \in Nat
        BY <3>1
      <4> QED BY <4>1
    <3>3. ASSUME NEW i \in k - run[k] + 1 .. k - 1 PROVE words[i] = words[i + 1]
      <4>1. i \in j - run[j] + 1 .. j - 1 \/ i = j
        BY <2>2, <3>2
      <4> QED BY <3>1, <4>1
    <3>4. run[k] = k \/ words[k - run[k]] # words[k - run[k] + 1]
      BY <3>1, <3>2
    <3> QED BY <3>2, <3>3, <3>4
  <2>4. CASE ~(k > 1 /\ words[k] = words[k - 1])
    <3>1. run[k] = 1 /\ (k = 1 \/ words[k] # words[k - 1])
      BY <2>1, <2>2, <2>4
    <3> QED BY <3>1, <2>2
  <2> QED BY <2>3, <2>4
<1> HIDE DEF T, Maximal
<1>4. \A k \in Nat : k \in T
  BY <1>2, <1>3, Induction
<1>5. \A k \in DOMAIN words : Maximal(k)
  BY <1>1, <1>4 DEF T
<1> QED BY <1>5 DEF Maximal

\* The pieces of has_repeat_run's second pass.
Compact(text) == FlattenSeq(text)
Copies(c, n) == FlattenSeq([i \in 1 .. n |-> c])

LEMMA FlattenExists ==
  ASSUME NEW S, NEW seqs \in Seq(Seq(S)), Len(seqs) > 0
  PROVE  \E f \in [1 .. Len(seqs) -> Seq(S)] :
           /\ \A i \in 1 .. Len(seqs) : f[i] = IF i = 1 THEN seqs[1] ELSE f[i - 1] \o seqs[i]
           /\ FlattenSeq(seqs) = f[Len(seqs)]
<1> DEFINE n == Len(seqs)
           T == Seq(S)
           h == [p \in (1 .. n) \X T |-> IF p[1] = 1 THEN seqs[1] ELSE p[2] \o seqs[p[1]]]
           flat == CHOOSE f : f = [i \in 1 .. n |-> IF i = 1 THEN seqs[i] ELSE f[i - 1] \o seqs[i]]
<1>1. n \in Nat /\ n > 0 /\ <<>> \in T
  OBVIOUS
<1>2. \A k \in 1 .. n : seqs[k] \in T
  OBVIOUS
<1>3. \A k \in 1 .. n, a \in T : (IF k = 1 THEN seqs[1] ELSE a \o seqs[k]) \in T
  BY <1>1, <1>2, ConcatProperties
<1>4. h \in [(1 .. n) \X T -> T]
  BY <1>3
<1>5. \A k \in 1 .. n, a \in T : h[<<k, a>>] = IF k = 1 THEN seqs[1] ELSE a \o seqs[k]
  OBVIOUS
<1> HIDE DEF n, T, h
<1>6. PICK f \in [0 .. n -> T] : \A k \in 1 .. n : f[k] = h[<<k, f[k - 1]>>]
  <2>1. PICK f \in [0 .. n -> T] : Iterates(f, n, <<>>, h)
    BY <1>1, <1>4, StepsExist
  <2> QED BY <2>1 DEF Iterates
<1> DEFINE g == [i \in 1 .. n |-> f[i]]
<1>7. ASSUME NEW i \in 1 .. n PROVE g[i] = IF i = 1 THEN seqs[i] ELSE g[i - 1] \o seqs[i]
  <2>1. f[i - 1] \in T
    BY <1>1
  <2>2. f[i] = IF i = 1 THEN seqs[1] ELSE f[i - 1] \o seqs[i]
    BY <1>5, <1>6, <2>1
  <2>3. i # 1 => i - 1 \in 1 .. n
    BY <1>1
  <2> QED BY <2>2, <2>3
<1>8. g = [i \in 1 .. n |-> IF i = 1 THEN seqs[i] ELSE g[i - 1] \o seqs[i]]
  BY <1>7
<1>9. g \in [1 .. n -> T]
  BY <1>1
<1> HIDE DEF g
<1>10. flat = [i \in 1 .. n |-> IF i = 1 THEN seqs[i] ELSE flat[i - 1] \o seqs[i]]
  BY <1>8
<1>11. FlattenSeq(seqs) = flat[n]
  BY <1>1 DEF FlattenSeq, n
<1> HIDE DEF flat
<1> DEFINE U == {k \in Nat : k \in 1 .. n => flat[k] \in T}
<1>12. 0 \in U
  OBVIOUS
<1>13. ASSUME NEW j \in Nat, j \in U PROVE j + 1 \in U
  <2> SUFFICES ASSUME j + 1 \in 1 .. n PROVE flat[j + 1] \in T
    OBVIOUS
  <2>1. flat[j + 1] = IF j + 1 = 1 THEN seqs[j + 1] ELSE flat[(j + 1) - 1] \o seqs[j + 1]
    BY <1>10
  <2>2. seqs[j + 1] \in T
    BY <1>2
  <2>3. CASE j = 0
    BY <2>1, <2>2, <2>3
  <2>4. CASE j # 0
    <3>1. flat[j] \in T /\ (j + 1) - 1 = j /\ j + 1 # 1
      BY <1>1, <1>13, <2>4
    <3>2. flat[j] \o seqs[j + 1] \in T
      BY <2>2, <3>1, ConcatProperties DEF T
    <3> QED BY <2>1, <3>1, <3>2
  <2> QED BY <2>3, <2>4
<1> HIDE DEF U
<1>14. \A k \in Nat : k \in U
  BY <1>12, <1>13, Induction
<1>15. \A i \in 1 .. n : flat[i] \in T
  BY <1>14 DEF U
<1>16. flat \in [1 .. n -> T]
  BY <1>10, <1>15
<1>17. \A i \in 1 .. n : flat[i] = IF i = 1 THEN seqs[1] ELSE flat[i - 1] \o seqs[i]
  BY <1>10
<1> QED BY <1>11, <1>16, <1>17 DEF n, T

LEMMA FlattenIsSeq ==
  ASSUME NEW S, NEW seqs \in Seq(Seq(S))
  PROVE  FlattenSeq(seqs) \in Seq(S)
<1>1. CASE Len(seqs) = 0
  <2>1. FlattenSeq(seqs) = <<>>
    BY <1>1 DEF FlattenSeq
  <2> QED BY <2>1
<1>2. CASE Len(seqs) # 0
  <2>1. Len(seqs) > 0 /\ Len(seqs) \in 1 .. Len(seqs)
    BY <1>2
  <2>2. PICK f \in [1 .. Len(seqs) -> Seq(S)] : FlattenSeq(seqs) = f[Len(seqs)]
    BY <2>1, FlattenExists
  <2> QED BY <2>1, <2>2
<1> QED BY <1>1, <1>2

\* d is made of copies of c: it begins and ends with c, and what follows u later
\* is the same.
MadeOf(d, c) ==
  LET u == Len(c) IN
  /\ Len(d) >= u
  /\ \A j \in 1 .. u : d[j] = c[j] /\ d[Len(d) - u + j] = c[j]
  /\ \A j \in 1 .. Len(d) - u : d[j + u] = d[j]

LEMMA OneMore ==
  ASSUME NEW S, NEW c \in Seq(S), NEW d \in Seq(S), MadeOf(d, c)
  PROVE  d \o c \in Seq(S) /\ Len(d \o c) = Len(d) + Len(c) /\ MadeOf(d \o c, c)
<1> DEFINE e == d \o c
           u == Len(c)
           m == Len(d)
<1>1. u \in Nat /\ m \in Nat
  OBVIOUS
<1>2. /\ e \in Seq(S) /\ Len(e) = m + u
      /\ \A i \in 1 .. m + u : e[i] = IF i <= m THEN d[i] ELSE c[i - m]
  BY ConcatProperties
<1>3. /\ m >= u
      /\ \A j \in 1 .. u : d[j] = c[j] /\ d[m - u + j] = c[j]
      /\ \A j \in 1 .. m - u : d[j + u] = d[j]
  BY DEF MadeOf
<1> HIDE DEF e, u, m
<1>4. ASSUME NEW j \in 1 .. u PROVE e[j] = c[j] /\ e[(m + u) - u + j] = c[j]
  <2>1. j \in 1 .. m + u /\ j <= m /\ m + j \in 1 .. m + u /\ ~(m + j <= m)
        /\ (m + j) - m = j /\ (m + u) - u + j = m + j
    BY <1>1, <1>3
  <2> QED BY <1>2, <1>3, <2>1
<1>5. ASSUME NEW j \in 1 .. (m + u) - u PROVE e[j + u] = e[j]
  <2>1. j \in 1 .. m + u /\ j <= m /\ j + u \in 1 .. m + u /\ j \in Nat
    BY <1>1
  <2>2. CASE j + u <= m
    <3>1. j \in 1 .. m - u
      BY <1>1, <2>1, <2>2
    <3> QED BY <1>2, <1>3, <2>1, <2>2, <3>1
  <2>3. CASE ~(j + u <= m)
    <3> DEFINE i == j + u - m
    <3>1. i \in 1 .. u /\ m - u + i = j /\ (j + u) - m = i
      BY <1>1, <2>1, <2>3
    <3>2. e[j + u] = c[i] /\ e[j] = d[j]
      BY <1>2, <2>1, <2>3, <3>1
    <3> HIDE DEF i
    <3> QED BY <1>3, <3>1, <3>2
  <2> QED BY <2>2, <2>3
<1>6. m + u >= u
  BY <1>1
<1>7. MadeOf(e, c)
  BY <1>2, <1>4, <1>5, <1>6 DEF MadeOf, u
<1> QED BY <1>2, <1>7 DEF e, u, m

LEMMA CopiesShape ==
  ASSUME NEW S, NEW c \in Seq(S), NEW n \in Nat, n > 0
  PROVE  Copies(c, n) \in Seq(S) /\ Len(Copies(c, n)) = n * Len(c) /\ MadeOf(Copies(c, n), c)
<1> DEFINE seqs == [i \in 1 .. n |-> c]
           u == Len(c)
<1>1. u \in Nat /\ seqs \in Seq(Seq(S)) /\ Len(seqs) = n /\ \A i \in 1 .. n : seqs[i] = c
  OBVIOUS
<1> HIDE DEF seqs
<1>2. PICK f \in [1 .. n -> Seq(S)] :
           /\ \A i \in 1 .. n : f[i] = IF i = 1 THEN seqs[1] ELSE f[i - 1] \o seqs[i]
           /\ FlattenSeq(seqs) = f[n]
  BY <1>1, FlattenExists
<1>3. \A i \in 1 .. n : f[i] = IF i = 1 THEN c ELSE f[i - 1] \o c
  BY <1>1, <1>2
<1> HIDE DEF u
<1> DEFINE T == {k \in Nat : k + 1 <= n => /\ Len(f[k + 1]) = (k + 1) * u
                                           /\ MadeOf(f[k + 1], c)}
<1>4. 0 \in T
  <2>1. 1 \in 1 .. n /\ (0 + 1) * u = u /\ 0 + 1 = 1
    BY <1>1
  <2>2. f[1] = c
    BY <1>3, <2>1
  <2>3. MadeOf(c, c)
    <3>1. Len(c) \in Nat /\ Len(c) - Len(c) = 0
      OBVIOUS
    <3> QED BY <3>1 DEF MadeOf
  <2> QED BY <2>1, <2>2, <2>3 DEF u
<1>5. ASSUME NEW k \in Nat, k \in T PROVE k + 1 \in T
  <2> SUFFICES ASSUME (k + 1) + 1 <= n
               PROVE  Len(f[(k + 1) + 1]) = ((k + 1) + 1) * u /\ MadeOf(f[(k + 1) + 1], c)
    OBVIOUS
  <2>1. k + 1 \in 1 .. n /\ (k + 1) + 1 \in 1 .. n /\ (k + 1) + 1 # 1
        /\ ((k + 1) + 1) - 1 = k + 1
    OBVIOUS
  <2>2. f[(k + 1) + 1] = f[k + 1] \o c
    BY <1>3, <2>1
  <2>3. f[k + 1] \in Seq(S) /\ Len(f[k + 1]) = (k + 1) * u /\ MadeOf(f[k + 1], c)
    BY <1>5, <2>1
  <2>4. Len(f[k + 1] \o c) = (k + 1) * u + u /\ MadeOf(f[k + 1] \o c, c)
    BY <2>3, OneMore DEF u
  <2>5. (k + 1) * u + u = ((k + 1) + 1) * u
    BY <1>1
  <2> QED BY <2>2, <2>4, <2>5
<1> HIDE DEF T
<1>6. \A k \in Nat : k \in T
  BY <1>4, <1>5, Induction
<1>7. n - 1 \in Nat /\ (n - 1) + 1 = n /\ n \in 1 .. n
  OBVIOUS
<1>8. Len(f[n]) = n * u /\ MadeOf(f[n], c)
  <2>1. n - 1 \in T
    BY <1>6, <1>7
  <2> QED BY <1>7, <2>1 DEF T
<1> QED BY <1>2, <1>7, <1>8 DEF Copies, seqs, u

\* A sequence that begins like c and goes on as it did u before is made of copies.
LEMMA CopiesOnly ==
  ASSUME NEW S, NEW c \in Seq(S), Len(c) > 0, NEW n \in Nat, n > 0, NEW d \in Seq(S),
         Len(d) = n * Len(c),
         \A j \in 1 .. Len(c) : j <= Len(d) => d[j] = c[j],
         \A j \in 1 .. Len(d) - Len(c) : d[j + Len(c)] = d[j]
  PROVE  d = Copies(c, n)
<1> DEFINE u == Len(c)
           e == Copies(c, n)
           Wrong == {j \in 1 .. Len(d) : d[j] # e[j]}
<1>1. u \in Nat /\ u > 0 /\ Len(d) \in Nat
  OBVIOUS
<1>2. e \in Seq(S) /\ Len(e) = Len(d) /\ MadeOf(e, c)
  BY CopiesShape
<1>3. /\ \A j \in 1 .. u : e[j] = c[j]
      /\ \A j \in 1 .. Len(d) - u : e[j + u] = e[j]
  BY <1>2 DEF MadeOf
<1> HIDE DEF e
<1>4. Wrong = {}
  <2> SUFFICES ASSUME Wrong # {} PROVE FALSE
    OBVIOUS
  <2>1. Wrong \subseteq Nat
    OBVIOUS
  <2> HIDE DEF Wrong
  <2>2. PICK j \in Wrong : \A i \in Wrong : j <= i
    BY <2>1, LeastNumber
  <2>3. j \in 1 .. Len(d) /\ d[j] # e[j]
    BY DEF Wrong
  <2>4. CASE j <= u
    <3>1. j \in 1 .. u /\ j <= Len(d)
      BY <1>1, <2>3, <2>4
    <3> QED BY <1>3, <2>3, <3>1
  <2>5. CASE ~(j <= u)
    <3>1. j - u \in 1 .. Len(d) - u /\ (j - u) + u = j /\ j - u \in 1 .. Len(d) /\ j - u < j
      BY <1>1, <2>3, <2>5
    <3>2. d[j] = d[j - u] /\ e[j] = e[j - u]
      BY <1>3, <3>1
    <3>3. j - u \in Wrong
      BY <2>3, <3>1, <3>2 DEF Wrong
    <3> QED BY <1>1, <2>2, <2>3, <3>1, <3>3
  <2> QED BY <2>4, <2>5
<1> QED BY <1>1, <1>2, <1>4, SeqEqual DEF e

LEMMA WordLoops ==
  ASSUME NEW S, NEW words \in Seq(S)
  PROVE  (\E k \in DOMAIN words : RunAt(words)[k] > MaxRepeats) <=>
         \E k \in DOMAIN words :
           /\ k + MaxRepeats <= Len(words)
           /\ \A i \in k .. k + MaxRepeats - 1 : words[i] = words[i + 1]
<1> DEFINE run == RunAt(words)
           n == Len(words)
<1>1. /\ n \in Nat /\ DOMAIN words = 1 .. n /\ MaxRepeats \in Nat
      /\ \A k \in 1 .. n : k \in Nat
  BY RecognitionAssumption
<1>2. \A k \in 1 .. n :
        /\ run[k] \in 1 .. k
        /\ \A i \in k - run[k] + 1 .. k - 1 : words[i] = words[i + 1]
        /\ run[k] = k \/ words[k - run[k]] # words[k - run[k] + 1]
  <2>1. IsRun(words, run)
    BY RunsExist
  <2> HIDE DEF run
  <2>2. \A k \in DOMAIN words :
          /\ run[k] \in 1 .. k
          /\ \A i \in k - run[k] + 1 .. k - 1 : words[i] = words[i + 1]
          /\ run[k] = k \/ words[k - run[k]] # words[k - run[k] + 1]
    BY <2>1, RunsAreMaximal
  <2> QED BY <1>1, <2>2
<1> HIDE DEF run, n
<1>3. ASSUME NEW k \in 1 .. n, run[k] > MaxRepeats
      PROVE  \E j \in 1 .. n : /\ j + MaxRepeats <= n
                               /\ \A i \in j .. j + MaxRepeats - 1 : words[i] = words[i + 1]
  <2> DEFINE j == k - MaxRepeats
  <2>1. run[k] \in 1 .. k /\ \A i \in k - run[k] + 1 .. k - 1 : words[i] = words[i + 1]
    BY <1>2
  <2>2. j \in 1 .. n /\ j + MaxRepeats = k /\ k <= n
    BY <1>1, <1>3, <2>1
  <2>3. \A i \in j .. k - 1 : i \in k - run[k] + 1 .. k - 1
    BY <1>1, <1>3, <2>1
  <2>4. j + MaxRepeats <= n /\ (j + MaxRepeats) - 1 = k - 1
    BY <2>2
  <2> HIDE DEF j
  <2>5. \A i \in j .. j + MaxRepeats - 1 : words[i] = words[i + 1]
    <3>1. \A i \in j .. k - 1 : words[i] = words[i + 1]
      BY <2>1, <2>3
    <3>2. j .. j + MaxRepeats - 1 = j .. k - 1
      BY <1>1, <2>2 DEF j
    <3> QED BY <3>1, <3>2
  <2> QED BY <2>2, <2>4, <2>5
<1>4. ASSUME NEW j \in 1 .. n, j + MaxRepeats <= n,
             \A i \in j .. j + MaxRepeats - 1 : words[i] = words[i + 1]
      PROVE  \E k \in 1 .. n : run[k] > MaxRepeats
  <2> DEFINE k == j + MaxRepeats
             r == run[k]
  <2>1. k \in 1 .. n /\ k \in Nat /\ j \in Nat
    BY <1>1, <1>4
  <2>2. r \in 1 .. k /\ (r = k \/ words[k - r] # words[k - r + 1])
    BY <1>2, <2>1
  <2>3. r > MaxRepeats
    <3> SUFFICES ASSUME r <= MaxRepeats PROVE FALSE
      BY <1>1, <2>1, <2>2
    <3>1. r # k /\ k - r \in j .. j + MaxRepeats - 1
      BY <1>1, <2>1, <2>2
    <3> QED BY <1>4, <2>2, <3>1
  <2> QED BY <2>1, <2>3
<1> QED BY <1>1, <1>3, <1>4 DEF run, n

\* From first to last there is room for this many units, and no more.
SpanOf(first, last, unit, times) == last = first + unit * times - 1
\* The letters there are one unit, over and over: as copies, and letter by letter.
Copied(s, first, last, unit, times) ==
  SubSeq(s, first, last) = Copies(SubSeq(s, first, first + unit - 1), times)
Recurring(s, first, last, unit) == \A k \in first .. last - unit : s[k] = s[k + unit]

LEMMA LetterLoops ==
  ASSUME NEW s \in Seq(Nat), NEW unit \in Nat, unit > 0, NEW times \in Nat, times > 0,
         NEW start \in Nat, start > 0,
         NEW last \in Nat, SpanOf(start, last, unit, times),
         last <= Len(s)
  PROVE  Copied(s, start, last, unit, times) <=> Recurring(s, start, last, unit)
<1> DEFINE span == unit * times
           c == SubSeq(s, start, start + unit - 1)
           d == SubSeq(s, start, last)
<1>1. /\ span \in Nat /\ span >= unit /\ span = times * unit
      /\ last = start + span - 1
  <2>1. unit * (times - 1) \in Nat
    OBVIOUS
  <2>2. unit * times = unit * (times - 1) + unit
    OBVIOUS
  <2> QED BY <2>1, <2>2 DEF SpanOf
<1> HIDE DEF span
<1>2. last <= Len(s) /\ Len(s) \in Nat /\ start + unit - 1 <= last /\ last \in Nat
  BY <1>1 DEF span
<1>3. /\ c \in Seq(Nat) /\ Len(c) = unit
      /\ \A j \in 1 .. unit : c[j] = s[start + j - 1]
  <2>1. \A i \in start .. start + unit - 1 : s[i] \in Nat
    BY <1>2
  <2>2. start \in Int /\ start + unit - 1 \in Int /\ start <= (start + unit - 1) + 1
        /\ (start + unit - 1) - start + 1 = unit
    OBVIOUS
  <2> QED BY <2>1, <2>2, SubSeqProperties
<1>4. /\ d \in Seq(Nat) /\ Len(d) = span
      /\ \A j \in 1 .. span : d[j] = s[start + j - 1]
  <2>1. \A i \in start .. last : s[i] \in Nat
    BY <1>2
  <2>2. start \in Int /\ last \in Int /\ start <= last + 1 /\ last - start + 1 = span
    BY <1>1
  <2> QED BY <2>1, <2>2, SubSeqProperties
<1> HIDE DEF c, d
<1>5. ASSUME d = Copies(c, times), NEW k \in start .. last - unit PROVE s[k] = s[k + unit]
  <2>1. \A j \in 1 .. span - unit : d[j + unit] = d[j]
    <3>1. MadeOf(Copies(c, times), c)
      BY <1>3, CopiesShape
    <3> QED BY <1>3, <1>4, <1>5, <3>1 DEF MadeOf
  <2> DEFINE j == k - start + 1
  <2>2. /\ j \in 1 .. span - unit /\ j \in 1 .. span /\ j + unit \in 1 .. span
        /\ start + j - 1 = k /\ start + (j + unit) - 1 = k + unit
    BY <1>1
  <2> HIDE DEF j
  <2>3. d[j + unit] = s[k + unit] /\ d[j] = s[k]
    BY <1>4, <2>2
  <2> QED BY <2>1, <2>2, <2>3
<1>6. ASSUME \A k \in start .. last - unit : s[k] = s[k + unit] PROVE d = Copies(c, times)
  <2>1. ASSUME NEW j \in 1 .. unit PROVE j <= span => d[j] = c[j]
    <3>1. j \in 1 .. span
      <4>1. span \in Nat /\ span >= unit
        BY <1>1
      <4> QED BY <4>1
    <3> QED BY <1>3, <1>4, <3>1
  <2>2. ASSUME NEW j \in 1 .. span - unit PROVE d[j + unit] = d[j]
    <3>1. /\ start + j - 1 \in start .. last - unit
          /\ (start + j - 1) + unit = start + (j + unit) - 1
          /\ j \in 1 .. span /\ j + unit \in 1 .. span
      <4>1. j \in Nat /\ j > 0 /\ j <= span - unit /\ span \in Nat /\ last = start + span - 1
        BY <1>1
      <4> QED BY <4>1
    <3> QED BY <1>4, <1>6, <3>1
  <2>3. Len(d) = times * Len(c) /\ Len(c) > 0
    BY <1>1, <1>3, <1>4
  <2>4. /\ \A j \in 1 .. Len(c) : j <= Len(d) => d[j] = c[j]
        /\ \A j \in 1 .. Len(d) - Len(c) : d[j + Len(c)] = d[j]
    BY <1>3, <1>4, <2>1, <2>2
  <2> QED BY <1>3, <1>4, <2>3, <2>4, CopiesOnly
<1> QED BY <1>5, <1>6 DEF c, d, span, Copied, Recurring

\* has_repeat_run, with its recursion over the words and its search through the
\* letters without spaces, finds exactly the texts that repeat a word, or up to
\* MaxUnit letters, more than MAX_REPEATS times in a row: for every text.
THEOREM GuardFindsLoops ==
  ASSUME NEW text \in Seq(Seq(Nat))
  PROVE  HasRepeatRun(text) <=> Repeats(text)
<1> DEFINE s == FlattenSeq(text)
           times == MaxRepeats + 1
           Loops(start, unit) ==
             SubSeq(s, start, start + unit * times - 1)
               = Copies(SubSeq(s, start, start + unit - 1), times)
           Fits(start, unit) == start + unit * times - 1 <= Len(s)
           Recurs(start, unit) ==
             \A k \in start .. (start + unit * times - 1) - unit : s[k] = s[k + unit]
           Words == \E k \in DOMAIN text :
                      /\ k + MaxRepeats <= Len(text)
                      /\ \A i \in k .. k + MaxRepeats - 1 : text[i] = text[i + 1]
<1>1. s \in Seq(Nat)
  BY FlattenIsSeq
<1> HIDE DEF s
<1>2. MaxRepeats \in Nat /\ MaxUnit \in Nat /\ times \in Nat /\ times > 0
  BY RecognitionAssumption
<1>3. Words <=> \E k \in DOMAIN text : RunAt(text)[k] > MaxRepeats
  BY WordLoops
<1>4. HasRepeatRun(text) <=>
        \/ \E k \in DOMAIN text : RunAt(text)[k] > MaxRepeats
        \/ \E unit \in 1 .. MaxUnit : \E start \in 1 .. Len(s) - unit * times + 1 :
             Loops(start, unit)
  BY DEF HasRepeatRun, s, Copies
<1>5. Repeats(text) <=>
        \/ Words
        \/ \E k \in DOMAIN s : \E n \in 1 .. MaxUnit : Fits(k, n) /\ Recurs(k, n)
  <2>1. Repeats(text) <=>
          \/ \E k \in DOMAIN text : Periodic(text, k, k + MaxRepeats, 1)
          \/ \E k \in DOMAIN s : \E n \in 1 .. MaxUnit :
               Periodic(s, k, k + n * (MaxRepeats + 1) - 1, n)
    BY Zenon DEF Repeats, s
  <2>2. (\E k \in DOMAIN text : Periodic(text, k, k + MaxRepeats, 1)) <=> Words
    <3>1. ASSUME NEW k \in DOMAIN text
          PROVE  Periodic(text, k, k + MaxRepeats, 1)
                   <=> /\ k + MaxRepeats <= Len(text)
                       /\ \A i \in k .. k + MaxRepeats - 1 : text[i] = text[i + 1]
      <4> HIDE DEF times, Loops, Fits, Recurs, Words
      <4>1. k \in Nat
        OBVIOUS
      <4>2. MaxRepeats \in Nat
        BY <1>2
      <4>3. k + (MaxRepeats - 1) = (k + MaxRepeats) - 1
        BY <4>1, <4>2
      <4> QED BY <4>3 DEF Periodic
    <3> QED BY <3>1, Zenon
  <2>3. ASSUME NEW k \in DOMAIN s, NEW n \in 1 .. MaxUnit
        PROVE  Periodic(s, k, k + n * (MaxRepeats + 1) - 1, n) <=> Fits(k, n) /\ Recurs(k, n)
    BY Zenon DEF Periodic
  <2> QED BY <2>1, <2>2, <2>3, Zenon
<1>6. ASSUME NEW unit \in 1 .. MaxUnit
      PROVE  unit * times \in Nat /\ unit * times > 0
  <2>1. unit \in Nat /\ unit > 0 /\ unit * MaxRepeats \in Nat
    BY <1>2
  <2>2. unit * times = unit * MaxRepeats + unit
    BY <1>2, <2>1
  <2> QED BY <2>1, <2>2
<1>7. ASSUME NEW unit \in 1 .. MaxUnit, NEW start \in Nat, start > 0, Fits(start, unit)
      PROVE  Loops(start, unit) <=> Recurs(start, unit)
  <2>1. unit \in Nat /\ unit > 0
    BY <1>2
  <2>2. start + unit * times - 1 <= Len(s)
    BY <1>7
  <2> DEFINE last == start + unit * times - 1
  <2>3. times \in Nat /\ times > 0 /\ last <= Len(s) /\ SpanOf(start, last, unit, times)
    BY <1>2, <2>2 DEF SpanOf
  <2>4. last \in Nat
    <3>1. unit * times \in Nat /\ unit * times > 0
      BY <1>6, <2>1
    <3> QED BY <3>1
  <2> HIDE DEF last, times
  <2>5. Copied(s, start, last, unit, times) <=> Recurring(s, start, last, unit)
    BY <1>1, <1>7, <2>1, <2>3, <2>4, LetterLoops, Zenon
  <2> QED BY <2>5, Zenon DEF last, Copied, Recurring, times
<1>8. ASSUME NEW unit \in 1 .. MaxUnit, NEW start
      PROVE  start \in 1 .. Len(s) - unit * times + 1 <=> start \in DOMAIN s /\ Fits(start, unit)
  <2> DEFINE span == unit * times
  <2>1. span \in Nat /\ span > 0
    BY <1>6
  <2> HIDE DEF span
  <2>2. Len(s) \in Nat /\ DOMAIN s = 1 .. Len(s)
    BY <1>1
  <2>3. start \in 1 .. Len(s) - span + 1 <=> start \in 1 .. Len(s) /\ start + span - 1 <= Len(s)
    BY <2>1, <2>2
  <2> QED BY <2>2, <2>3 DEF span
<1> HIDE DEF Loops, Recurs, Fits, Words, times
<1>9. ASSUME NEW unit \in 1 .. MaxUnit, NEW start
      PROVE  start \in 1 .. Len(s) - unit * times + 1 /\ Loops(start, unit)
               <=> start \in DOMAIN s /\ Fits(start, unit) /\ Recurs(start, unit)
  <2>1. start \in DOMAIN s => start \in Nat /\ start > 0
    BY <1>1
  <2> QED BY <1>7, <1>8, <2>1
<1> QED BY <1>3, <1>4, <1>5, <1>9
-----------------------------------------------------------------------------
(* build_prompt and transcribe. *)

\* A term of the glossary is listed once.
Listed(t, acc) == IF Contains(acc, t) THEN acc ELSE Append(acc, t)

Listing(terms) ==
  CHOOSE g : g = [s \in SUBSET DOMAIN terms |-> IF s = {} THEN <<>>
                                      ELSE Listed(terms[Max(s)], g[s \ {Max(s)}])]

LEMMA PromptIsListing ==
  FoldLeft(LAMBDA acc, t : IF Contains(acc, t) THEN acc ELSE Append(acc, t), <<>>, Glossary)
    = Listing(Glossary)[DOMAIN Glossary]
BY DEF FoldLeft, MapThenFoldSet, Listing, Listed

LEMMA ListingIsSeq ==
  ASSUME NEW W, NEW terms \in Seq(W)
  PROVE  Listing(terms)[DOMAIN terms] \in Seq(W)
<1> DEFINE D == 1 .. Len(terms)
           T == Seq(W)
           pick == [s \in SUBSET D |-> Max(s)]
           h == [p \in D \X T |-> Listed(terms[p[1]], p[2])]
<1>1. IsFiniteSet(D) /\ <<>> \in T /\ DOMAIN terms = D /\ Len(terms) \in Nat
  BY FS_Interval
<1>2. \A s \in SUBSET D : s # {} => pick[s] \in s
  <2>1. \A s \in SUBSET (1 .. Len(terms)) : s # {} => Max(s) \in s
    BY <1>1, MaxOfTurns
  <2> QED BY <2>1
<1>3. ASSUME NEW x \in D, NEW acc \in T PROVE Listed(terms[x], acc) \in T
  BY AppendProperties DEF Listed
<1>4. h \in [D \X T -> T]
  BY <1>3
<1>5. \A x \in D, acc \in T : h[<<x, acc>>] = Listed(terms[x], acc)
  OBVIOUS
<1> HIDE DEF h, T
<1>6. PICK g \in [SUBSET D -> T] : IsFold(g, D, <<>>, pick, h)
  BY <1>1, <1>2, <1>4, FoldExists
<1>7. ASSUME NEW s \in SUBSET D
      PROVE  g[s] = IF s = {} THEN <<>> ELSE Listed(terms[Max(s)], g[s \ {Max(s)}])
  <2>1. g[s] = IF s = {} THEN <<>> ELSE h[<<pick[s], g[s \ {pick[s]}]>>]
    BY <1>6 DEF IsFold
  <2>2. CASE s = {}
    BY <2>1, <2>2
  <2>3. CASE s # {}
    <3>1. pick[s] = Max(s) /\ Max(s) \in D /\ g[s \ {Max(s)}] \in T
      BY <1>2, <2>3
    <3> QED BY <1>5, <2>1, <2>3, <3>1
  <2> QED BY <2>2, <2>3
<1>8. g = [s \in SUBSET DOMAIN terms |->
             IF s = {} THEN <<>> ELSE Listed(terms[Max(s)], g[s \ {Max(s)}])]
  BY <1>1, <1>7
<1>9. Listing(terms) = [s \in SUBSET DOMAIN terms |-> IF s = {} THEN <<>>
                                 ELSE Listed(terms[Max(s)], Listing(terms)[s \ {Max(s)}])]
  BY <1>8 DEF Listing
<1> DEFINE U == {k \in Nat : k <= Len(terms) => Listing(terms)[1 .. k] \in T}
<1>10. 0 \in U
  BY <1>1, <1>9
<1>11. ASSUME NEW k \in Nat, k \in U PROVE k + 1 \in U
  <2> SUFFICES ASSUME k + 1 <= Len(terms) PROVE Listing(terms)[1 .. k + 1] \in T
    OBVIOUS
  <2>1. Listing(terms)[1 .. k] \in T /\ k + 1 \in D
    BY <1>1, <1>11
  <2>2. 1 .. k + 1 \in SUBSET DOMAIN terms /\ 1 .. k + 1 # {}
    <3>1. k + 1 \in 1 .. k + 1
      OBVIOUS
    <3>2. \A x \in 1 .. k + 1 : x \in 1 .. Len(terms)
      BY <1>1
    <3> QED BY <1>1, <3>1, <3>2
  <2>3. Max(1 .. k + 1) = k + 1
    BY <1>1, <2>1, MaxOfTurns
  <2>4. (1 .. k + 1) \ {k + 1} = 1 .. k
    OBVIOUS
  <2>5. Listing(terms)[1 .. k + 1] = Listed(terms[k + 1], Listing(terms)[1 .. k])
    BY <1>9, <2>2, <2>3, <2>4
  <2> QED BY <1>3, <2>1, <2>5
<1> HIDE DEF U
<1>12. \A k \in Nat : k \in U
  BY <1>10, <1>11, Induction
<1> QED BY <1>1, <1>12 DEF U, T

LEMMA PromptIsSeq == Prompt \in Seq(Seq(Nat))
<1> DEFINE terms == Listing(Glossary)[DOMAIN Glossary]
           last == Min({MaxPrompt, Len(terms)})
<1>1. terms \in Seq(Seq(Nat))
  BY RecognitionAssumption, ListingIsSeq
<1>2. Prompt = SubSeq(terms, 1, last)
  BY PromptIsListing DEF Prompt
<1> HIDE DEF terms
<1>3. last \in Nat /\ last <= Len(terms)
  <2>1. MaxPrompt \in Int /\ MaxPrompt \in Nat /\ Len(terms) \in Int /\ Len(terms) \in Nat
    BY <1>1, RecognitionAssumption
  <2> QED BY <2>1, MinOfTwo
<1> HIDE DEF last
<1>4. \A i \in 1 .. last : terms[i] \in Seq(Nat)
  BY <1>1, <1>3
<1> QED BY <1>2, <1>3, <1>4, SubSeqProperties

\* What the model repeats is the end of its prompt, as a rule none or all of it.
LEMMA EchoIsSeq == Echoes \subseteq Seq(Seq(Nat))
<1>1. Prompt \in Seq(Seq(Nat))
  BY PromptIsSeq
<1>2. ASSUME NEW n \in 1 .. Len(Prompt) + 1
      PROVE  SubSeq(Prompt, n, Len(Prompt)) \in Seq(Seq(Nat))
  <2>1. n \in Int /\ Len(Prompt) \in Int
    BY <1>1
  <2>2. \A i \in n .. Len(Prompt) : Prompt[i] \in Seq(Nat)
    BY <1>1
  <2> QED BY <1>1, <2>1, <2>2, SubSeqProperties
<1> QED BY <1>2 DEF Echoes

LEMMA HeardIsSeq ==
  ASSUME echo \in Seq(Seq(Nat)), NEW text \in Seq(Seq(Nat))
  PROVE  Heard(text) \in Seq(Seq(Nat))
<1>1. Prompt \in Seq(Seq(Nat))
  BY PromptIsSeq
<1> DEFINE decoded == echo \o text
<1>2. decoded \in Seq(Seq(Nat))
  BY ConcatProperties
<1>3. Heard(text) = decoded \/ Heard(text) = SubSeq(decoded, Len(Prompt) + 1, Len(decoded))
  BY DEF Heard, Decoded
<1> HIDE DEF decoded
<1>4. SubSeq(decoded, Len(Prompt) + 1, Len(decoded)) \in Seq(Seq(Nat))
  <2>1. Len(Prompt) \in Nat /\ Len(Prompt) + 1 \in Int /\ Len(decoded) \in Int
    BY <1>1, <1>2
  <2>2. \A i \in Len(Prompt) + 1 .. Len(decoded) : decoded[i] \in Seq(Nat)
    BY <1>1, <1>2
  <2> QED BY <1>2, <2>1, <2>2, SubSeqProperties
<1> QED BY <1>2, <1>3, <1>4

\* What is heard in a turn is what was said in it: the prompt the model repeats is
\* taken off again, and nothing else.  The end of one that it has cut stays.
LEMMA HeardIsSaid ==
  ASSUME echo \in Seq(Seq(Nat)), NEW text \in Seq(Seq(Nat)),
         echo = Prompt \/ ~IsPrefix(Prompt, echo \o text)
  PROVE  Heard(text) = IF echo = Prompt THEN text ELSE echo \o text
<1>1. Prompt \in Seq(Seq(Nat))
  BY PromptIsSeq
<1>2. CASE echo = Prompt /\ Prompt = <<>>
  <2>1. <<>> \o text = text
    BY ConcatEmptySeq
  <2> QED BY <1>2, <2>1 DEF Heard, Decoded
<1>3. CASE echo = Prompt /\ Prompt # <<>>
  <2> DEFINE decoded == Prompt \o text
  <2>1. SubSeq(decoded, 1, Len(Prompt)) = Prompt
    BY <1>1, SubSeqOfConcat1, SubSeqFull
  <2>2. IsPrefix(Prompt, decoded)
    <3>1. SubSeq(Prompt, 1, Len(Prompt)) = Prompt
      BY <1>1, SubSeqFull
    <3>2. Len(Prompt) <= Len(decoded)
      BY <1>1, ConcatProperties
    <3> QED BY <2>1, <3>1, <3>2 DEF IsPrefix
  <2>3. SubSeq(decoded, Len(Prompt) + 1, Len(decoded)) = text
    BY <1>1, SubSeqOfConcat2, SubSeqFull, ConcatProperties
  <2> QED BY <1>3, <2>2, <2>3 DEF Heard, Decoded
<1>4. CASE echo # Prompt
  BY <1>4 DEF Heard, Decoded
<1> QED BY <1>2, <1>3, <1>4
-----------------------------------------------------------------------------
(* The transcript. *)

\* The turns in which something was said that is neither a loop nor boilerplate.
IsSpeech(text) == text # <<>> /\ text \notin Boilerplate /\ ~Repeats(text)
Kept(texts) == {k \in 1 .. Len(texts) : IsSpeech(texts[k])}
KeptTo(texts, k) == {i \in Kept(texts) : i <= k}

Stored == [id: Nat, start: Nat, end: Nat, speaker: Speakers, text: Seq(Seq(Nat))]
Tells(seg, m, t, text) ==
  seg = [id |-> m - 1, start |-> t.start, end |-> t.end, speaker |-> t.speaker, text |-> text]

\* What the model made of each turn that was listened to.
Told == [k \in 1 .. Len(said) |-> IF NoClip(shaped[k]) THEN <<>> ELSE Heard(said[k])]

\* Speech has been recorded of every turn up to the loop's, and of no other.
LoopInv ==
  /\ at \in Nat /\ at <= Len(shaped) + 1
  /\ at > 0 => step = "done"
  /\ said \in Seq(Seq(Seq(Nat)))
  /\ Len(said) = IF at = 0 THEN 0 ELSE at - 1
  /\ echo \in Seq(Seq(Nat))
  /\ segments \in Seq(Stored)
  /\ outcome = "saved" => at > Len(shaped)

ToldInOrder ==
  /\ Len(segments) = Cardinality(Kept(Told))
  /\ \A m \in 1 .. Len(segments) : \E k \in Kept(Told) :
       Cardinality(KeptTo(Told, k)) = m /\ Tells(segments[m], m, shaped[k], Told[k])

RecognitionInv == TurnsInv /\ LoopInv /\ ToldInOrder

ToldOK == /\ Told \in Seq(Seq(Seq(Nat))) /\ Len(Told) = Len(said)
          /\ \A k \in 1 .. Len(said) :
               Told[k] = IF NoClip(shaped[k]) THEN <<>> ELSE Heard(said[k])

LEMMA ToldIsSeq == LoopInv => ToldOK
<1> SUFFICES ASSUME LoopInv PROVE ToldOK
  OBVIOUS
<1>1. /\ said \in Seq(Seq(Seq(Nat))) /\ echo \in Seq(Seq(Nat)) /\ Len(said) \in Nat
      /\ \A k \in 1 .. Len(said) : said[k] \in Seq(Seq(Nat))
  BY DEF LoopInv
<1>2. \A k \in 1 .. Len(said) : Heard(said[k]) \in Seq(Seq(Nat))
  BY <1>1, HeardIsSeq
<1>3. \A k \in 1 .. Len(said) :
        (IF NoClip(shaped[k]) THEN <<>> ELSE Heard(said[k])) \in Seq(Seq(Nat))
  BY <1>2
<1>4. Told \in [1 .. Len(said) -> Seq(Seq(Nat))]
  BY <1>3 DEF Told
<1> QED BY <1>1, <1>4 DEF Told, ToldOK

LEMMA ToldGrows ==
  ASSUME LoopInv, Looping, samples' = samples, shaped' = shaped, echo' = echo,
         NEW word \in Seq(Seq(Nat)), said' = Append(said, word), LoopInv'
  PROVE  Told' = Append(Told, IF NoClip(shaped[at]) THEN <<>> ELSE Heard(word))
<1> DEFINE n == Len(said)
           new == IF NoClip(shaped[at]) THEN <<>> ELSE Heard(word)
           more == Append(Told, new)
<1>1. /\ said \in Seq(Seq(Seq(Nat))) /\ n \in Nat /\ n + 1 = at
      /\ Len(said') = n + 1 /\ said'[n + 1] = word
      /\ \A i \in 1 .. n : said'[i] = said[i]
  <2>1. said \in Seq(Seq(Seq(Nat))) /\ Len(said) = (IF at = 0 THEN 0 ELSE at - 1) /\ at \in Nat
    BY DEF LoopInv
  <2>2. at # 0
    BY DEF Looping
  <2> QED BY <2>1, <2>2, AppendProperties
<1>2. /\ Told \in Seq(Seq(Seq(Nat))) /\ Len(Told) = n
      /\ \A k \in 1 .. n : Told[k] = IF NoClip(shaped[k]) THEN <<>> ELSE Heard(said[k])
  BY ToldIsSeq DEF ToldOK
<1>3. /\ Told' \in Seq(Seq(Seq(Nat))) /\ Len(Told') = n + 1
      /\ \A k \in 1 .. n + 1 : Told'[k] = IF NoClip(shaped[k]) THEN <<>> ELSE Heard(said'[k])
  <2>1. /\ Told' \in Seq(Seq(Seq(Nat))) /\ Len(Told') = Len(said')
        /\ \A k \in 1 .. Len(said') :
              Told'[k] = (IF NoClip(shaped[k]) THEN <<>> ELSE Heard(said[k]))'
    <3>1. LoopInv' => ToldOK'
      BY ToldIsSeq, PTL
    <3> QED BY <3>1 DEF ToldOK
  <2>2. \A t : NoClip(t)' <=> NoClip(t)
    BY DEF NoClip
  <2>3. \A t : Heard(t)' = Heard(t)
    BY DEF Heard, Decoded
  <2> QED BY <1>1, <2>1, <2>2, <2>3
<1>4. new \in Seq(Seq(Nat))
  <2>1. echo \in Seq(Seq(Nat))
    BY DEF LoopInv
  <2> QED BY <2>1, HeardIsSeq
<1>5. /\ more \in Seq(Seq(Seq(Nat))) /\ Len(more) = n + 1 /\ more[n + 1] = new
      /\ \A i \in 1 .. n : more[i] = Told[i]
  BY <1>2, <1>4, AppendProperties
<1>6. Told'[n + 1] = new
  <2>1. n + 1 \in 1 .. n + 1
    BY <1>1
  <2>2. Told'[n + 1] = IF NoClip(shaped[n + 1]) THEN <<>> ELSE Heard(said'[n + 1])
    BY <1>3, <2>1
  <2> QED BY <1>1, <2>2
<1>7. ASSUME NEW i \in 1 .. n PROVE Told'[i] = Told[i]
  <2>1. i \in 1 .. n + 1
    BY <1>1
  <2>2. Told'[i] = IF NoClip(shaped[i]) THEN <<>> ELSE Heard(said'[i])
    BY <1>3, <2>1
  <2>3. said'[i] = said[i]
    BY <1>1
  <2> QED BY <1>2, <2>2, <2>3
<1> DEFINE later == Told'
<1>8. \A i \in 1 .. n + 1 : later[i] = more[i]
  BY <1>1, <1>5, <1>6, <1>7
<1>9. later \in Seq(Seq(Seq(Nat))) /\ Len(later) = n + 1
  BY <1>3
<1> HIDE DEF later, more
<1>10. later = more
  BY <1>1, <1>5, <1>8, <1>9
<1> QED BY <1>10 DEF later, more

LEMMA KeptGrows ==
  ASSUME NEW texts \in Seq(Seq(Seq(Nat))), NEW text \in Seq(Seq(Nat))
  PROVE  LET n == Len(texts)
             more == Append(texts, text)
         IN /\ IsFiniteSet(Kept(texts)) /\ Cardinality(Kept(texts)) \in Nat
            /\ Kept(more) = IF IsSpeech(text) THEN Kept(texts) \cup {n + 1} ELSE Kept(texts)
            /\ IsSpeech(text) => /\ KeptTo(more, n + 1) = Kept(more)
                                 /\ Cardinality(Kept(more)) = Cardinality(Kept(texts)) + 1
            /\ \A k \in Kept(texts) : KeptTo(more, k) = KeptTo(texts, k)
<1> DEFINE n == Len(texts)
           more == Append(texts, text)
<1>1. /\ n \in Nat /\ Len(more) = n + 1 /\ more[n + 1] = text
      /\ \A i \in 1 .. n : more[i] = texts[i]
  BY AppendProperties
<1> HIDE DEF more, n
<1>2. Kept(texts) \subseteq 1 .. n
  BY DEF Kept, n
<1>3. IsFiniteSet(Kept(texts)) /\ Cardinality(Kept(texts)) \in Nat
  <2>1. IsFiniteSet(1 .. n)
    BY <1>1, FS_Interval
  <2> QED BY <1>2, <2>1, FS_Subset, FS_CardinalityType
<1>4. Kept(more) = IF IsSpeech(text) THEN Kept(texts) \cup {n + 1} ELSE Kept(texts)
  <2>1. \A i : i \in Kept(more) <=> i \in 1 .. n + 1 /\ IsSpeech(more[i])
    BY <1>1 DEF Kept
  <2>2. \A i : i \in Kept(texts) <=> i \in 1 .. n /\ IsSpeech(texts[i])
    BY DEF Kept, n
  <2>3. \A i : i \in 1 .. n + 1 <=> i \in 1 .. n \/ i = n + 1
    BY <1>1
  <2>4. \A i \in 1 .. n : IsSpeech(more[i]) <=> IsSpeech(texts[i])
    BY <1>1
  <2>5. \A i : i \in Kept(more) <=> i \in Kept(texts) \/ (i = n + 1 /\ IsSpeech(text))
    BY <1>1, <2>1, <2>2, <2>3, <2>4
  <2> QED BY <2>5
<1>5. ASSUME IsSpeech(text)
      PROVE  /\ KeptTo(more, n + 1) = Kept(more)
             /\ Cardinality(Kept(more)) = Cardinality(Kept(texts)) + 1
  <2>1. n + 1 \notin Kept(texts) /\ \A i \in Kept(more) : i <= n + 1
    BY <1>1, <1>2, <1>4
  <2>2. Cardinality(Kept(texts) \cup {n + 1}) = Cardinality(Kept(texts)) + 1
    BY <1>3, <2>1, FS_AddElement
  <2> QED BY <1>4, <1>5, <2>1, <2>2 DEF KeptTo
<1>6. ASSUME NEW k \in Kept(texts) PROVE KeptTo(more, k) = KeptTo(texts, k)
  <2>1. k \in Nat /\ ~(n + 1 <= k)
    BY <1>1, <1>2
  <2> QED BY <1>4, <2>1 DEF KeptTo
<1> QED BY <1>3, <1>4, <1>5, <1>6 DEF more, n

\* The guard passes on what was heard exactly when it is speech: no turn that is
\* left is shorter than MIN_SEGMENT_SECONDS.
LEMMA GuardIsRight ==
  ASSUME TurnsInv, NEW k \in 1 .. Len(shaped), NEW text \in Seq(Seq(Nat))
  PROVE  LooksHallucinated(text, Duration(shaped[k])) <=> ~IsSpeech(text)
<1>1. Duration(shaped[k]) \in MinLen .. MaxLen
  <2>1. k \in DOMAIN shaped
    BY DEF TurnsInv, TurnTypes
  <2> QED BY <2>1 DEF TurnsInv, KeptPieces
<1>2. ~(Duration(shaped[k]) < MinSegment)
  <2> DEFINE d == Duration(shaped[k])
  <2>1. MinLen \in Nat /\ MaxLen \in Nat /\ MinSegment \in Nat /\ MinSegment <= MinLen
    BY RecognitionAssumption, TurnsAssumption
  <2>2. d \in MinLen .. MaxLen
    BY <1>1
  <2> HIDE DEF d
  <2>3. ~(d < MinSegment)
    BY <2>1, <2>2
  <2> QED BY <2>3 DEF d
<1>3. HasRepeatRun(text) <=> Repeats(text)
  BY GuardFindsLoops
<1> QED BY <1>2, <1>3, Zenon DEF LooksHallucinated, IsSpeech

LEMMA RecognitionStarts == RInit => RecognitionInv
<1> SUFFICES ASSUME RInit PROVE RecognitionInv
  OBVIOUS
<1>1. TurnsInv /\ shaped = <<>>
  BY TurnsStart DEF RInit, Init
<1>2. at = 0 /\ segments = <<>> /\ said = <<>> /\ echo = <<>> /\ outcome = "running"
  BY DEF RInit
<1>3. LoopInv
  BY <1>1, <1>2 DEF LoopInv
<1>4. Kept(Told) = {} /\ Len(segments) = 0
  BY <1>2, <1>3, ToldIsSeq DEF Kept, ToldOK
<1>5. ToldInOrder
  BY <1>4, FS_EmptySet DEF ToldInOrder
<1> QED BY <1>1, <1>3, <1>5 DEF RecognitionInv

\* The next turn has been listened to.
LEMMA TurnHeard ==
  ASSUME RecognitionInv, Looping, UNCHANGED <<vars, echo, outcome>>,
         NEW word \in Seq(Seq(Nat)), NEW text \in Seq(Seq(Nat)),
         said' = Append(said, word), at' = at + 1,
         text = (IF NoClip(shaped[at]) THEN <<>> ELSE Heard(word)),
         segments' = IF IsSpeech(text) THEN Append(segments, Segment(shaped[at], text))
                                      ELSE segments
  PROVE  LoopInv' /\ ToldInOrder'
<1> DEFINE n == Len(said)
           p == Len(segments)
           new == Segment(shaped[at], text)
<1>1. /\ shaped' = shaped /\ step' = step /\ outcome' = outcome
      /\ shaped \in Seq(Span) /\ at \in 1 .. Len(shaped) /\ at \in Nat
      /\ said \in Seq(Seq(Seq(Nat))) /\ n = at - 1
      /\ segments \in Seq(Stored) /\ p \in Nat /\ n \in Nat /\ step = "done"
      /\ outcome # "saved"
  <2>1. shaped' = shaped /\ step' = step /\ outcome' = outcome
    BY DEF vars
  <2>2. /\ shaped \in Seq(Span) /\ at \in Nat /\ said \in Seq(Seq(Seq(Nat)))
        /\ Len(said) = (IF at = 0 THEN 0 ELSE at - 1) /\ segments \in Seq(Stored)
        /\ (at > 0 => step = "done") /\ (outcome = "saved" => at > Len(shaped))
    BY DEF RecognitionInv, TurnsInv, TurnTypes, LoopInv
  <2>3. at \in 1 .. Len(shaped) /\ at > 0
    BY DEF Looping
  <2>4. at # 0 /\ ~(at > Len(shaped)) /\ Len(said) = at - 1
    BY <2>2, <2>3
  <2> QED BY <2>1, <2>2, <2>3, <2>4
<1>2. new \in Stored /\ new = [id |-> p, start |-> shaped[at].start, end |-> shaped[at].end,
                               speaker |-> shaped[at].speaker, text |-> text]
  BY <1>1 DEF Span, Stored, Segment
<1>3. said' \in Seq(Seq(Seq(Nat))) /\ Len(said') = n + 1
  BY <1>1, AppendProperties
<1>4. IsSpeech(text) =>
        /\ segments' \in Seq(Stored) /\ Len(segments') = p + 1 /\ segments'[p + 1] = new
        /\ \A i \in 1 .. p : segments'[i] = segments[i]
  BY <1>1, <1>2, AppendProperties
<1>5. ~IsSpeech(text) => segments' = segments
  OBVIOUS
<1> HIDE DEF n, p, new
<1>6. LoopInv'
  <2>1. segments' \in Seq(Stored)
    BY <1>1, <1>4, <1>5
  <2>2. at' \in Nat /\ at' <= Len(shaped) + 1 /\ at' # 0 /\ at' - 1 = at
    BY <1>1
  <2>3. echo' \in Seq(Seq(Nat))
    BY DEF RecognitionInv, LoopInv
  <2> QED BY <1>1, <1>3, <2>1, <2>2, <2>3 DEF LoopInv
<1>16. /\ Told \in Seq(Seq(Seq(Nat))) /\ Len(Told) = n
       /\ Told' = Append(Told, text)
  <2>1. samples' = samples /\ shaped' = shaped /\ echo' = echo
    BY DEF vars
  <2>2. LoopInv
    BY DEF RecognitionInv
  <2>3. Told' = Append(Told, IF NoClip(shaped[at]) THEN <<>> ELSE Heard(word))
    BY <1>6, <2>1, <2>2, ToldGrows
  <2> QED BY <2>2, <2>3, ToldIsSeq DEF n, ToldOK
<1>17. /\ Len(Told') = n + 1 /\ Told'[n + 1] = text
       /\ \A i \in 1 .. n : Told'[i] = Told[i]
  BY <1>1, <1>16, AppendProperties
<1>7. /\ Kept(Told') = IF IsSpeech(text) THEN Kept(Told) \cup {n + 1} ELSE Kept(Told)
      /\ IsSpeech(text) => /\ KeptTo(Told', n + 1) = Kept(Told')
                           /\ Cardinality(Kept(Told')) = Cardinality(Kept(Told)) + 1
      /\ \A k \in Kept(Told) : KeptTo(Told', k) = KeptTo(Told, k)
  BY <1>1, <1>16, KeptGrows
<1>8. /\ p = Cardinality(Kept(Told))
      /\ \A m \in 1 .. p : \E k \in Kept(Told) :
           Cardinality(KeptTo(Told, k)) = m /\ Tells(segments[m], m, shaped[k], Told[k])
  BY DEF RecognitionInv, ToldInOrder, p
<1>9. \A k \in Kept(Told) : k \in 1 .. n /\ Told'[k] = Told[k]
  BY <1>16, <1>17 DEF Kept
<1>11. Len(segments') = Cardinality(Kept(Told'))
  BY <1>4, <1>5, <1>7, <1>8 DEF p
<1>12. ASSUME NEW m \in 1 .. p
       PROVE  \E k \in Kept(Told') :
                Cardinality(KeptTo(Told', k)) = m
                /\ Tells(segments'[m], m, shaped'[k], Told'[k])
  <2>1. PICK k \in Kept(Told) : Cardinality(KeptTo(Told, k)) = m
                                /\ Tells(segments[m], m, shaped[k], Told[k])
    BY <1>8
  <2>2. segments'[m] = segments[m]
    BY <1>4, <1>5
  <2>3. k \in Kept(Told') /\ KeptTo(Told', k) = KeptTo(Told, k)
    BY <1>7
  <2>4. Tells(segments'[m], m, shaped'[k], Told'[k])
    BY <1>1, <1>9, <2>1, <2>2 DEF Tells
  <2> QED BY <2>1, <2>3, <2>4
<1>13. IsSpeech(text) =>
         \E k \in Kept(Told') : Cardinality(KeptTo(Told', k)) = p + 1
                                 /\ Tells(segments'[p + 1], p + 1, shaped'[k], Told'[k])
  <2> SUFFICES ASSUME IsSpeech(text)
               PROVE  \E k \in Kept(Told') : Cardinality(KeptTo(Told', k)) = p + 1
                        /\ Tells(segments'[p + 1], p + 1, shaped'[k], Told'[k])
    OBVIOUS
  <2>1. n + 1 \in Kept(Told') /\ Cardinality(KeptTo(Told', n + 1)) = p + 1
    BY <1>7, <1>8
  <2>2. n + 1 = at /\ (p + 1) - 1 = p
    BY <1>1
  <2>3. Tells(segments'[p + 1], p + 1, shaped'[n + 1], Told'[n + 1])
    BY <1>1, <1>2, <1>4, <1>17, <2>2 DEF Tells
  <2> QED BY <2>1, <2>3
<1>14. ASSUME NEW m \in 1 .. Len(segments')
       PROVE  \E k \in Kept(Told') : Cardinality(KeptTo(Told', k)) = m
                                       /\ Tells(segments'[m], m, shaped'[k], Told'[k])
  <2>1. m \in 1 .. p \/ (IsSpeech(text) /\ m = p + 1)
    BY <1>1, <1>4, <1>5 DEF p
  <2>2. CASE m \in 1 .. p
    BY <1>12, <2>2
  <2>3. CASE IsSpeech(text) /\ m = p + 1
    BY <1>13, <2>3, Zenon
  <2> QED BY <2>1, <2>2, <2>3
<1>15. ToldInOrder'
  BY <1>11, <1>14, Zenon DEF ToldInOrder
<1> QED BY <1>6, <1>15

LEMMA NothingTold == LoopInv /\ Len(said) = 0 /\ Len(segments) = 0 => ToldInOrder
<1> SUFFICES ASSUME LoopInv, Len(said) = 0, Len(segments) = 0 PROVE ToldInOrder
  OBVIOUS
<1>1. Kept(Told) = {}
  BY ToldIsSeq DEF Kept, ToldOK
<1> QED BY <1>1, FS_EmptySet DEF ToldInOrder

LEMMA RecognitionStep == RecognitionInv /\ [RNext]_rvars => RecognitionInv'
<1> SUFFICES ASSUME RecognitionInv, [RNext]_rvars PROVE RecognitionInv'
  OBVIOUS
<1>1. TurnsInv'
  <2>1. [Next]_vars
    BY DEF RNext, rvars, vars, Begin, SkipEmpty, Save, Transcribe
  <2> QED BY <2>1, TurnsStep DEF RecognitionInv
<1>2. LoopInv /\ ToldInOrder /\ TurnsInv
  BY DEF RecognitionInv
<1>3. Len(shaped) \in Nat /\ Len(shaped') \in Nat
  BY <1>1, <1>2 DEF TurnsInv, TurnTypes
<1>4. CASE Next /\ UNCHANGED <<at, odd, segments, said, echo, outcome>>
  <2>1. step # "done"
    BY <1>4 DEF Next, Merge, Visit, Split, Return
  <2>2. at = 0 /\ Len(said) = 0
    BY <1>2, <2>1 DEF LoopInv
  <2>3. Len(segments) = 0
    <3>1. Kept(Told) = {}
      BY <1>2, <2>2, ToldIsSeq DEF Kept, ToldOK
    <3> QED BY <1>2, <3>1, FS_EmptySet DEF ToldInOrder
  <2>4. LoopInv'
    BY <1>2, <1>3, <1>4, <2>2 DEF LoopInv
  <2>5. Len(said') = 0 /\ Len(segments') = 0
    BY <1>4, <2>2, <2>3
  <2>6. ToldInOrder'
    <3>1. (LoopInv /\ Len(said) = 0 /\ Len(segments) = 0 => ToldInOrder)'
      BY NothingTold, PTL
    <3> QED BY <2>4, <2>5, <3>1
  <2> QED BY <1>1, <2>4, <2>6 DEF RecognitionInv
<1>5. ASSUME UNCHANGED <<samples, shaped, segments, said, echo>> PROVE ToldInOrder'
  <2>1. Told' = Told
    BY <1>5 DEF Told, NoClip, Heard, Decoded
  <2> QED BY <1>2, <1>5, <2>1 DEF ToldInOrder
<1>6. CASE Begin
  <2>1. /\ step = "done" /\ at = 0 /\ outcome = "running" /\ step' = step
        /\ UNCHANGED <<shaped, segments, said>>
        /\ at' \in {0, 1} /\ outcome' # "saved" /\ echo' \in Echoes
    BY <1>6 DEF Begin, vars
  <2>2. /\ Len(said) = 0 /\ said \in Seq(Seq(Seq(Nat))) /\ segments \in Seq(Stored)
        /\ echo' \in Seq(Seq(Nat))
    BY <1>2, <2>1, EchoIsSeq DEF LoopInv
  <2>3. at' \in Nat /\ at' <= Len(shaped') + 1 /\ 0 = IF at' = 0 THEN 0 ELSE at' - 1
    BY <1>3, <2>1
  <2>4. LoopInv'
    BY <2>1, <2>2, <2>3 DEF LoopInv
  <2>5. Len(segments) = 0
    <3>1. Kept(Told) = {}
      BY <1>2, <2>2, ToldIsSeq DEF Kept, ToldOK
    <3> QED BY <1>2, <3>1, FS_EmptySet DEF ToldInOrder
  <2>6. Len(said') = 0 /\ Len(segments') = 0
    BY <2>1, <2>2, <2>5
  <2>7. ToldInOrder'
    <3>1. (LoopInv /\ Len(said) = 0 /\ Len(segments) = 0 => ToldInOrder)'
      BY NothingTold, PTL
    <3> QED BY <2>4, <2>6, <3>1
  <2> QED BY <1>1, <2>4, <2>7 DEF RecognitionInv
<1>7. CASE Save
  <2>1. LoopInv' /\ UNCHANGED <<samples, shaped, segments, said, echo>>
    BY <1>2, <1>3, <1>7 DEF Save, LoopInv, vars
  <2> QED BY <1>1, <1>5, <2>1 DEF RecognitionInv
<1>8. CASE SkipEmpty
  <2>1. <<>> \in Seq(Seq(Nat)) /\ ~IsSpeech(<<>>)
    BY DEF IsSpeech
  <2>2. /\ Looping /\ UNCHANGED <<vars, echo, outcome>> /\ at' = at + 1
        /\ said' = Append(said, <<>>) /\ segments' = segments /\ NoClip(shaped[at])
    BY <1>8 DEF SkipEmpty
  <2>3. segments' = IF IsSpeech(<<>>) THEN Append(segments, Segment(shaped[at], <<>>)) ELSE segments
    BY <2>1, <2>2
  <2>4. LoopInv' /\ ToldInOrder'
    BY <2>1, <2>2, <2>3, TurnHeard
  <2> QED BY <1>1, <2>4 DEF RecognitionInv
<1>9. ASSUME NEW text \in Texts, Transcribe(text) PROVE RecognitionInv'
  <2>1. text \in Seq(Seq(Nat))
    BY RecognitionAssumption
  <2>2. /\ Looping /\ UNCHANGED <<vars, echo, outcome>> /\ at' = at + 1
        /\ said' = Append(said, text) /\ ~NoClip(shaped[at])
        /\ segments' = IF LooksHallucinated(Heard(text), Duration(shaped[at])) THEN segments
                       ELSE Append(segments, Segment(shaped[at], Heard(text)))
    BY <1>9 DEF Transcribe
  <2>3. at \in 1 .. Len(shaped)
    BY <2>2 DEF Looping
  <2> DEFINE heard == Heard(text)
  <2>7. heard \in Seq(Seq(Nat)) /\ heard = (IF NoClip(shaped[at]) THEN <<>> ELSE Heard(text))
    <3>1. echo \in Seq(Seq(Nat))
      BY <1>2 DEF LoopInv
    <3> QED BY <2>1, <2>2, <3>1, HeardIsSeq
  <2>4. LooksHallucinated(heard, Duration(shaped[at])) <=> ~IsSpeech(heard)
    BY <1>2, <2>3, <2>7, GuardIsRight
  <2>5. segments' = IF IsSpeech(heard) THEN Append(segments, Segment(shaped[at], heard))
                                       ELSE segments
    BY <2>2, <2>4
  <2> HIDE DEF heard
  <2>6. LoopInv' /\ ToldInOrder'
    BY <2>1, <2>2, <2>5, <2>7, TurnHeard
  <2> QED BY <1>1, <2>6 DEF RecognitionInv
<1>10. CASE UNCHANGED rvars
  <2>1. LoopInv' /\ UNCHANGED <<samples, shaped, segments, said, echo>>
    BY <1>2, <1>10 DEF rvars, LoopInv
  <2> QED BY <1>1, <1>5, <2>1 DEF RecognitionInv
<1> QED
  <2>1. \A text \in (IF odd < MaxOdd THEN Texts ELSE {Plain}) : text \in Texts
    BY RecognitionAssumption
  <2> QED BY <1>4, <1>6, <1>7, <1>8, <1>9, <1>10, <2>1 DEF RNext

\* The recognition loop, for any recording and whatever of its prompt the model
\* repeats: a stored transcript has one segment for every turn of which something
\* was made that is neither a loop nor boilerplate, and no other, in order, with
\* the turn's times and speaker, the words as they were said (after the end of the
\* prompt, if only that is repeated) and ids without gaps.
THEOREM ExactHolds == RSpec => []TranscriptIsExact
<1>1. RecognitionInv => TranscriptIsExact
  <2> DEFINE told == [k \in DOMAIN shaped |->
                        IF NoClip(shaped[k]) THEN <<>>
                        ELSE IF echo = Prompt THEN said[k] ELSE echo \o said[k]]
             spoken == {k \in DOMAIN shaped :
                          told[k] # <<>> /\ told[k] \notin Boilerplate /\ ~Repeats(told[k])}
             Exact == /\ Len(segments) = Cardinality(spoken)
                      /\ \A m \in DOMAIN segments :
                           \E k \in spoken :
                             /\ Cardinality({i \in spoken : i <= k}) = m
                             /\ segments[m] = [id |-> m - 1, start |-> shaped[k].start,
                                               end |-> shaped[k].end,
                                               speaker |-> shaped[k].speaker, text |-> told[k]]
  <2> SUFFICES ASSUME RecognitionInv, outcome = "saved",
                      \A k \in DOMAIN shaped : echo = Prompt \/ ~IsPrefix(Prompt, echo \o said[k])
               PROVE  Exact
    BY DEF TranscriptIsExact
  <2>0. LoopInv
    BY DEF RecognitionInv
  <2>1. /\ shaped \in Seq(Span) /\ at \in Nat /\ at <= Len(shaped) + 1 /\ at > Len(shaped)
        /\ Len(said) = (IF at = 0 THEN 0 ELSE at - 1) /\ segments \in Seq(Stored)
        /\ said \in Seq(Seq(Seq(Nat))) /\ echo \in Seq(Seq(Nat))
    BY DEF RecognitionInv, TurnsInv, TurnTypes, LoopInv
  <2>2. Len(said) = Len(shaped) /\ DOMAIN shaped = 1 .. Len(shaped)
        /\ DOMAIN segments = 1 .. Len(segments)
    BY <2>1
  <2>3. told = Told /\ Len(Told) = Len(shaped)
    <3>1. /\ Len(Told) = Len(said)
          /\ \A k \in 1 .. Len(said) :
               Told[k] = IF NoClip(shaped[k]) THEN <<>> ELSE Heard(said[k])
      BY <2>0, ToldIsSeq DEF ToldOK
    <3>2. ASSUME NEW k \in 1 .. Len(said)
          PROVE  Heard(said[k]) = IF echo = Prompt THEN said[k] ELSE echo \o said[k]
      <4>1. said[k] \in Seq(Seq(Nat))
        BY <2>1
      <4>2. echo = Prompt \/ ~IsPrefix(Prompt, echo \o said[k])
        BY <2>2
      <4> QED BY <2>1, <4>1, <4>2, HeardIsSaid
    <3>3. DOMAIN shaped = 1 .. Len(said)
      BY <2>2
    <3> QED BY <2>2, <3>1, <3>2, <3>3 DEF Told
  <2> HIDE DEF told
  <2>4. spoken = Kept(Told)
    BY <2>2, <2>3 DEF Kept, IsSpeech
  <2>5. \A k : KeptTo(Told, k) = {i \in spoken : i <= k}
    BY <2>4 DEF KeptTo
  <2> HIDE DEF spoken
  <2>6. /\ Len(segments) = Cardinality(Kept(Told))
        /\ \A m \in 1 .. Len(segments) : \E k \in Kept(Told) :
             Cardinality(KeptTo(Told, k)) = m /\ Tells(segments[m], m, shaped[k], Told[k])
    BY DEF RecognitionInv, ToldInOrder
  <2>7. ASSUME NEW m \in DOMAIN segments
        PROVE  \E k \in spoken :
           /\ Cardinality({i \in spoken : i <= k}) = m
           /\ segments[m] = [id |-> m - 1, start |-> shaped[k].start, end |-> shaped[k].end,
                             speaker |-> shaped[k].speaker, text |-> told[k]]
    <3>1. PICK k \in Kept(Told) :
             Cardinality(KeptTo(Told, k)) = m /\ Tells(segments[m], m, shaped[k], Told[k])
      BY <2>2, <2>6
    <3>2. k \in spoken /\ Cardinality({i \in spoken : i <= k}) = m
      <4>1. KeptTo(Told, k) = {i \in spoken : i <= k}
        BY <2>5
      <4> QED BY <2>4, <3>1, <4>1
    <3> QED BY <2>3, <3>1, <3>2 DEF Tells
  <2> QED BY <2>4, <2>6, <2>7
<1>2. RInit => RecognitionInv
  BY RecognitionStarts
<1>3. RecognitionInv /\ [RNext]_rvars => RecognitionInv'
  BY RecognitionStep
<1> QED BY <1>1, <1>2, <1>3, PTL DEF RSpec
=============================================================================
