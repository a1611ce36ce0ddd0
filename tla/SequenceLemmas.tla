--------------------------- MODULE SequenceLemmas ---------------------------
(***************************************************************************)
(* Induction over the natural numbers and what follows from it for the     *)
(* recursive function the specifications are built from, the flattening of *)
(* a sequence of sequences.                                                *)
(*                                                                         *)
(* The induction theorems of the library take the predicate as an operator *)
(* parameter.  Here induction is over a set: a set of natural numbers that *)
(* lacks one has a least one it lacks, since < is well founded.            *)
(***************************************************************************)
EXTENDS Integers, SequencesExt, SequenceTheorems, WellFoundedInduction, TLAPS

\* Every set of natural numbers that has an element has a least one.
LEMMA LeastNatural ==
  ASSUME NEW T, T \subseteq Nat, T # {}
  PROVE  \E x \in T : \A y \in T : x <= y
<1> DEFINE R == OpToRel(<, Nat)
<1>1. ASSUME NEW x \in Nat, NEW y \in Nat, x < y
      PROVE  <<x, y>> \in R
  BY <1>1 DEF OpToRel
<1>2. IsWellFoundedOn(R, Nat)
  BY NatLessThanWellFounded
<1> HIDE DEF R
<1>3. PICK x \in T : \A y \in T : ~ (<<y, x>> \in R)
  BY <1>2, WFMin
<1>4. \A y \in T : ~ (y < x)
  BY <1>1, <1>3
<1> QED
  BY <1>3, <1>4

\* Every set of natural numbers up to a bound that has an element has a greatest one.
LEMMA GreatestNatural ==
  ASSUME NEW m \in Nat, NEW T, T \subseteq 0 .. m, T # {}
  PROVE  \E x \in T : \A y \in T : y <= x
<1> DEFINE U == {n \in Nat : m - n \in T}
<1>1. U \subseteq Nat /\ U # {}
  <2>1. PICK y \in T : TRUE
    OBVIOUS
  <2>2. y \in 0 .. m /\ m - y \in Nat /\ m - (m - y) = y
    BY <2>1
  <2>3. m - y \in U
    BY <2>1, <2>2
  <2> QED BY <2>3
<1>2. PICK n \in U : \A l \in U : n <= l
  <2> HIDE DEF U
  <2> QED BY <1>1, LeastNatural
<1>3. m - n \in T /\ n \in Nat
  BY <1>2
<1>4. ASSUME NEW y \in T
      PROVE  y <= m - n
  <2>1. y \in 0 .. m /\ m - y \in Nat /\ m - (m - y) = y
    OBVIOUS
  <2>2. m - y \in U
    BY <2>1
  <2>3. n <= m - y
    BY <1>2, <2>2
  <2> QED BY <1>3, <2>1, <2>3
<1> QED BY <1>3, <1>4

\* A set with 0 and with the successor of each of its numbers has them all.
LEMMA InductionOverSet ==
  ASSUME NEW T, 0 \in T, \A n \in Nat : n \in T => n + 1 \in T
  PROVE  \A n \in Nat : n \in T
<1> SUFFICES ASSUME ~ (Nat \subseteq T)
             PROVE  FALSE
  OBVIOUS
<1> DEFINE U == Nat \ T
<1>1. PICK x \in U : \A y \in U : x <= y
  <2>1. U \subseteq Nat /\ U # {}
    OBVIOUS
  <2> HIDE DEF U
  <2> QED BY <2>1, LeastNatural
<1>2. x # 0
  OBVIOUS
<1>3. x - 1 \in Nat /\ x - 1 \notin U
  BY <1>1, <1>2
<1> QED BY <1>3

\* The same up to a bound.
LEMMA InductionUpTo ==
  ASSUME NEW m \in Nat, NEW T, 0 \in T,
         \A n \in 0 .. m - 1 : n \in T => n + 1 \in T
  PROVE  \A n \in 0 .. m : n \in T
<1> DEFINE U == {n \in Nat : n <= m => n \in T}
<1>1. 0 \in U
  OBVIOUS
<1>2. \A n \in Nat : n \in U => n + 1 \in U
  OBVIOUS
<1> HIDE DEF U
<1>3. \A n \in Nat : n \in U
  BY <1>1, <1>2, InductionOverSet
<1> QED BY <1>3 DEF U

-----------------------------------------------------------------------------
(* Recursion: there is a function with a given first value and step.       *)

\* g takes the steps from base to n.
Steps(g, base, step, n) ==
  g[0] = base /\ \A k \in 0 .. n - 1 : g[k + 1] = step[k][g[k]]

\* The steps determine the values.
LEMMA StepsAreUnique ==
  ASSUME NEW base, NEW step, NEW n \in Nat, NEW g, NEW h,
         Steps(g, base, step, n), Steps(h, base, step, n)
  PROVE  \A k \in 0 .. n : g[k] = h[k]
<1> DEFINE T == {k \in Nat : g[k] = h[k]}
<1>1. 0 \in T
  BY DEF Steps
<1>2. \A k \in 0 .. n - 1 : k \in T => k + 1 \in T
  BY DEF Steps
<1> HIDE DEF T
<1>3. \A k \in 0 .. n : k \in T
  BY <1>1, <1>2, InductionUpTo
<1> QED BY <1>3 DEF T

\* There are functions that take any number of steps.
LEMMA StepsExist ==
  ASSUME NEW X, NEW base \in X, NEW step \in [Nat -> [X -> X]], NEW n \in Nat
  PROVE  \E g \in [0 .. n -> X] : Steps(g, base, step, n)
<1> DEFINE T == {m \in Nat : \E g \in [0 .. m -> X] : Steps(g, base, step, m)}
<1>1. 0 \in T
  <2>1. [k \in 0 .. 0 |-> base] \in [0 .. 0 -> X]
    OBVIOUS
  <2>2. Steps([k \in 0 .. 0 |-> base], base, step, 0)
    BY DEF Steps
  <2> QED BY <2>1, <2>2
<1>2. ASSUME NEW m \in Nat, m \in T
      PROVE  m + 1 \in T
  <2>1. PICK g \in [0 .. m -> X] : Steps(g, base, step, m)
    BY <1>2
  <2> DEFINE next == step[m][g[m]]
             h == [k \in 0 .. m + 1 |-> IF k = m + 1 THEN next ELSE g[k]]
  <2>2. next \in X
    OBVIOUS
  <2> HIDE DEF next
  <2>3. h \in [0 .. m + 1 -> X]
    BY <2>2
  <2>4. h[0] = base
    BY <2>1 DEF Steps
  <2>5. ASSUME NEW k \in 0 .. m
        PROVE  h[k + 1] = step[k][h[k]]
    <3>1. CASE k = m
      BY <3>1 DEF next
    <3>2. CASE k # m
      BY <2>1, <3>2 DEF Steps
    <3> QED BY <3>1, <3>2
  <2>6. Steps(h, base, step, m + 1)
    <3> HIDE DEF h
    <3> QED BY <2>4, <2>5 DEF Steps
  <2> QED BY <2>3, <2>6
<1> HIDE DEF T
<1>3. n \in T
  BY <1>1, <1>2, InductionOverSet
<1> QED BY <1>3 DEF T

-----------------------------------------------------------------------------
(* FlattenSeq.                                                             *)

\* g[k] is what the first k sequences of s are put together.
Flattens(g, s) ==
  g[0] = <<>> /\ \A k \in 0 .. Len(s) - 1 : g[k + 1] = g[k] \o s[k + 1]

\* The elements of a sequence of sequences are sequences.
LEMMA ElementsAreSequences ==
  ASSUME NEW S, NEW s \in Seq(Seq(S)), NEW k \in 1 .. Len(s)
  PROVE  s[k] \in Seq(S)
OBVIOUS

\* Such a function exists.
LEMMA FlattensExists ==
  ASSUME NEW S, NEW s \in Seq(Seq(S))
  PROVE  \E g \in [0 .. Len(s) -> Seq(S)] : Flattens(g, s)
<1> DEFINE step == [k \in Nat |-> [q \in Seq(S) |->
                      IF k + 1 <= Len(s) THEN q \o s[k + 1] ELSE q]]
<1>1. ASSUME NEW k \in Nat, NEW q \in Seq(S)
      PROVE  (IF k + 1 <= Len(s) THEN q \o s[k + 1] ELSE q) \in Seq(S)
  BY ElementsAreSequences
<1>2. step \in [Nat -> [Seq(S) -> Seq(S)]]
  BY <1>1
<1>3. \A k \in 0 .. Len(s) - 1, q \in Seq(S) : step[k][q] = q \o s[k + 1]
  OBVIOUS
<1> HIDE DEF step
<1>4. <<>> \in Seq(S) /\ Len(s) \in Nat
  OBVIOUS
<1>5. PICK g \in [0 .. Len(s) -> Seq(S)] : Steps(g, <<>>, step, Len(s))
  BY <1>2, <1>4, StepsExist
<1>6. Flattens(g, s)
  <2>1. ASSUME NEW k \in 0 .. Len(s) - 1
        PROVE  g[k + 1] = g[k] \o s[k + 1]
    <3>1. k \in 0 .. Len(s)
      OBVIOUS
    <3>2. g[k + 1] = step[k][g[k]] /\ g[k] \in Seq(S)
      BY <1>5, <3>1 DEF Steps
    <3> QED BY <1>3, <3>2
  <2> QED BY <1>5, <2>1 DEF Flattens, Steps
<1> QED BY <1>6

\* FlattenSeq computes it.
LEMMA FlattenIs ==
  ASSUME NEW S, NEW s \in Seq(Seq(S)), NEW g, Flattens(g, s)
  PROVE  FlattenSeq(s) = g[Len(s)]
<1> DEFINE E(f) == f = [i \in 1 .. Len(s) |-> IF i = 1 THEN s[i] ELSE f[i - 1] \o s[i]]
           flatten == CHOOSE f : E(f)
<1>1. CASE Len(s) = 0
  <2>1. s = <<>>
    BY <1>1
  <2> QED BY <1>1, <2>1 DEF FlattenSeq, Flattens
<1>2. CASE Len(s) # 0
  <2>1. FlattenSeq(s) = flatten[Len(s)]
    BY <1>2 DEF FlattenSeq
  <2>2. PICK h \in [0 .. Len(s) -> Seq(S)] : Flattens(h, s)
    BY FlattensExists
  <2> DEFINE f0 == [i \in 1 .. Len(s) |-> h[i]]
  <2>3. ASSUME NEW i \in 1 .. Len(s)
        PROVE  h[i] = IF i = 1 THEN s[i] ELSE f0[i - 1] \o s[i]
    <3>1. i - 1 \in 0 .. Len(s) - 1 /\ h[i] = h[i - 1] \o s[i]
      BY <2>2 DEF Flattens
    <3>2. s[i] \in Seq(S)
      BY ElementsAreSequences
    <3>3. CASE i = 1
      <4>1. i - 1 = 0
        BY <3>3
      <4>2. h[i - 1] = <<>>
        BY <2>2, <4>1, Zenon DEF Flattens
      <4>3. h[i] = <<>> \o s[i]
        BY <3>1, <4>2, Zenon
      <4>4. <<>> \o s[i] = s[i]
        BY <3>2
      <4> QED BY <3>3, <4>3, <4>4
    <3>4. CASE i # 1
      <4>1. i - 1 \in 1 .. Len(s)
        BY <3>4
      <4>2. f0[i - 1] = h[i - 1]
        BY <4>1
      <4> QED BY <3>1, <3>4, <4>2
    <3> QED BY <3>3, <3>4
  <2>4. E(f0)
    BY <2>3
  <2>5. E(flatten)
    <3> HIDE DEF f0
    <3> QED BY <2>4
  <2> HIDE DEF flatten
  <2> DEFINE T == {k \in Nat : k >= 1 => flatten[k] = g[k]}
  <2>6. 0 \in T
    OBVIOUS
  <2>7. ASSUME NEW k \in 0 .. Len(s) - 1, k \in T
        PROVE  k + 1 \in T
    <3>1. g[k + 1] = g[k] \o s[k + 1]
      BY DEF Flattens
    <3>2. flatten[k + 1] = IF k + 1 = 1 THEN s[k + 1] ELSE flatten[k] \o s[k + 1]
      <4>1. k + 1 \in 1 .. Len(s) /\ (k + 1) - 1 = k
        OBVIOUS
      <4> QED BY <2>5, <4>1
    <3>3. CASE k = 0
      <4>1. g[1] = s[1]
        <5>1. s[1] \in Seq(S)
          BY <3>3, ElementsAreSequences
        <5>2. g[k] = <<>>
          BY <3>3, Zenon DEF Flattens
        <5>3. k + 1 = 1
          BY <3>3
        <5>4. g[1] = <<>> \o s[1]
          BY <3>1, <5>2, <5>3, Zenon
        <5> QED BY <5>1, <5>4
      <4> QED BY <3>2, <3>3, <4>1
    <3>4. CASE k # 0
      <4>1. flatten[k] = g[k]
        BY <2>7, <3>4
      <4>2. k + 1 # 1 /\ k + 1 >= 1
        BY <3>4
      <4>3. flatten[k + 1] = g[k + 1]
        BY <3>1, <3>2, <4>1, <4>2, Zenon
      <4> QED BY <4>3
    <3> QED BY <3>3, <3>4
  <2> HIDE DEF T
  <2>8. Len(s) \in Nat
    OBVIOUS
  <2>9. \A k \in 0 .. Len(s) : k \in T
    BY <2>6, <2>7, <2>8, InductionUpTo
  <2> QED BY <1>2, <2>1, <2>8, <2>9 DEF T
<1> QED BY <1>1, <1>2

\* What is put together has the elements of the parts.
LEMMA FlattenType ==
  ASSUME NEW S, NEW s \in Seq(Seq(S))
  PROVE  FlattenSeq(s) \in Seq(S)
<1>1. PICK g \in [0 .. Len(s) -> Seq(S)] : Flattens(g, s)
  BY FlattensExists
<1>2. Len(s) \in 0 .. Len(s)
  OBVIOUS
<1>3. FlattenSeq(s) = g[Len(s)]
  BY <1>1, FlattenIs
<1> QED BY <1>2, <1>3

\* No parts make an empty sequence.
LEMMA FlattenEmpty == FlattenSeq(<<>>) = <<>>
BY DEF FlattenSeq

\* A further part comes at the end.
LEMMA FlattenAppend ==
  ASSUME NEW S, NEW s \in Seq(Seq(S)), NEW x \in Seq(S)
  PROVE  FlattenSeq(Append(s, x)) = FlattenSeq(s) \o x
<1> DEFINE t == Append(s, x)
<1>1. /\ t \in Seq(Seq(S))
      /\ Len(t) = Len(s) + 1
      /\ Len(s) \in Nat
      /\ \A k \in 1 .. Len(s) : t[k] = s[k]
      /\ t[Len(s) + 1] = x
  OBVIOUS
<1> HIDE DEF t
<1>2. PICK g \in [0 .. Len(t) -> Seq(S)] : Flattens(g, t)
  BY <1>1, FlattensExists
<1>3. FlattenSeq(t) = g[Len(t)]
  BY <1>1, <1>2, FlattenIs
<1>4. Flattens(g, s)
  <2>1. g[0] = <<>>
    BY <1>2 DEF Flattens
  <2>2. ASSUME NEW k \in 0 .. Len(s) - 1
        PROVE  g[k + 1] = g[k] \o s[k + 1]
    <3>1. k \in 0 .. Len(t) - 1 /\ k + 1 \in 1 .. Len(s)
      BY <1>1
    <3>2. g[k + 1] = g[k] \o t[k + 1]
      BY <1>2, <3>1 DEF Flattens
    <3>3. t[k + 1] = s[k + 1]
      BY <1>1, <3>1
    <3> QED BY <3>2, <3>3, Zenon
  <2> QED BY <2>1, <2>2 DEF Flattens
<1>5. FlattenSeq(s) = g[Len(s)]
  BY <1>4, FlattenIs
<1>6. g[Len(s) + 1] = g[Len(s)] \o t[Len(s) + 1]
  <2>1. Len(s) \in 0 .. Len(t) - 1
    BY <1>1
  <2> QED BY <1>2, <2>1 DEF Flattens
<1>7. FlattenSeq(t) = FlattenSeq(s) \o x
  BY <1>1, <1>3, <1>5, <1>6, Zenon
<1> QED BY <1>7 DEF t

\* Concatenation is associative.
ConcatAssociates(S) == \A a, b, c \in Seq(S) : (a \o b) \o c = a \o (b \o c)

\* Any three sequences of one kind.
LEMMA Associative ==
  ASSUME NEW S
  PROVE  ConcatAssociates(S)
<1> SUFFICES ASSUME NEW a \in Seq(S), NEW b \in Seq(S), NEW c \in Seq(S)
             PROVE  (a \o b) \o c = a \o (b \o c)
  BY DEF ConcatAssociates
<1>1. Len((a \o b) \o c) = Len(a \o (b \o c))
  OBVIOUS
<1>2. \A k \in 1 .. Len(a) + Len(b) + Len(c) : ((a \o b) \o c)[k] = (a \o (b \o c))[k]
  OBVIOUS
<1> QED BY <1>1, <1>2, SeqEqual

\* The parts of one sequence, then those of another.
LEMMA FlattenConcat ==
  ASSUME NEW S, NEW s \in Seq(Seq(S)), NEW t \in Seq(Seq(S))
  PROVE  FlattenSeq(s \o t) = FlattenSeq(s) \o FlattenSeq(t)
<1>0. ConcatAssociates(S)
  BY Associative
<1> DEFINE First(k) == SubSeq(t, 1, k)
           T == {k \in Nat : k <= Len(t) =>
                   FlattenSeq(s \o First(k)) = FlattenSeq(s) \o FlattenSeq(First(k))}
<1>1. 0 \in T
  <2>1. First(0) = <<>> /\ s \o <<>> = s
    OBVIOUS
  <2>2. FlattenSeq(s) \o <<>> = FlattenSeq(s)
    BY FlattenType, ConcatEmptySeq
  <2> QED BY <2>1, <2>2, FlattenEmpty
<1>2. ASSUME NEW k \in 0 .. Len(t) - 1, k \in T
      PROVE  k + 1 \in T
  <2> DEFINE u == First(k)
  <2>1. /\ u \in Seq(Seq(S))
        /\ t[k + 1] \in Seq(S)
        /\ s \o u \in Seq(Seq(S))
    OBVIOUS
  <2>2. First(k + 1) = Append(u, t[k + 1])
    OBVIOUS
  <2>3. FlattenSeq(s \o u) = FlattenSeq(s) \o FlattenSeq(u)
    BY <1>2
  <2> HIDE DEF u
  <2>4. s \o Append(u, t[k + 1]) = Append(s \o u, t[k + 1])
    BY <2>1
  <2>5. /\ FlattenSeq(Append(s \o u, t[k + 1])) = FlattenSeq(s \o u) \o t[k + 1]
        /\ FlattenSeq(Append(u, t[k + 1])) = FlattenSeq(u) \o t[k + 1]
    BY <2>1, FlattenAppend
  <2>6. /\ FlattenSeq(s) \in Seq(S)
        /\ FlattenSeq(u) \in Seq(S)
    BY <2>1, FlattenType
  <2>7. (FlattenSeq(s) \o FlattenSeq(u)) \o t[k + 1]
          = FlattenSeq(s) \o (FlattenSeq(u) \o t[k + 1])
    BY <1>0, <2>1, <2>6, Zenon DEF ConcatAssociates
  <2>8. FlattenSeq(s \o First(k + 1)) = FlattenSeq(s) \o FlattenSeq(First(k + 1))
    BY <2>2, <2>3, <2>4, <2>5, <2>7, Zenon
  <2> QED BY <2>8
<1> HIDE DEF T
<1>3. Len(t) \in T
  <2>1. Len(t) \in Nat
    OBVIOUS
  <2>2. \A k \in 0 .. Len(t) : k \in T
    BY <1>1, <1>2, <2>1, InductionUpTo
  <2> QED BY <2>1, <2>2
<1>4. First(Len(t)) = t
  OBVIOUS
<1>5. FlattenSeq(s \o First(Len(t))) = FlattenSeq(s) \o FlattenSeq(First(Len(t)))
  BY <1>3 DEF T
<1> QED BY <1>4, <1>5

\* Every element comes from one of the parts, and none is lost.
LEMMA FlattenRange ==
  ASSUME NEW S, NEW s \in Seq(Seq(S)), NEW v
  PROVE  v \in Range(FlattenSeq(s)) <=> \E k \in 1 .. Len(s) : v \in Range(s[k])
<1>1. PICK g \in [0 .. Len(s) -> Seq(S)] : Flattens(g, s)
  BY FlattensExists
<1>2. FlattenSeq(s) = g[Len(s)]
  BY <1>1, FlattenIs
<1> DEFINE T == {n \in Nat : v \in Range(g[n]) <=> \E k \in 1 .. n : v \in Range(s[k])}
<1>3. 0 \in T
  <2>1. g[0] = <<>>
    BY <1>1 DEF Flattens
  <2>2. v \notin Range(<<>>)
    BY DEF Range
  <2> QED BY <2>1, <2>2
<1>4. ASSUME NEW n \in 0 .. Len(s) - 1, n \in T
      PROVE  n + 1 \in T
  <2>1. g[n + 1] = g[n] \o s[n + 1]
    BY <1>1 DEF Flattens
  <2>2. g[n] \in Seq(S) /\ s[n + 1] \in Seq(S)
    <3>1. n \in 0 .. Len(s) /\ n + 1 \in 1 .. Len(s)
      OBVIOUS
    <3> QED BY <3>1, ElementsAreSequences
  <2>3. Range(g[n + 1]) = Range(g[n]) \cup Range(s[n + 1])
    BY <2>1, <2>2, RangeConcatenation
  <2>4. v \in Range(g[n]) <=> \E k \in 1 .. n : v \in Range(s[k])
    BY <1>4
  <2>5. \A k : k \in 1 .. n + 1 <=> k \in 1 .. n \/ k = n + 1
    OBVIOUS
  <2>6. v \in Range(g[n + 1]) <=> \E k \in 1 .. n + 1 : v \in Range(s[k])
    BY <2>3, <2>4, <2>5, Zenon
  <2> QED BY <2>6
<1> HIDE DEF T
<1>5. Len(s) \in T
  <2>1. Len(s) \in Nat
    OBVIOUS
  <2>2. \A k \in 0 .. Len(s) : k \in T
    BY <1>3, <1>4, <2>1, InductionUpTo
  <2> QED BY <2>1, <2>2
<1> QED BY <1>2, <1>5 DEF T

\* A set of sequences that contains the parts and what can be put together
\* of its members.
PutsTogether(T) ==
  /\ <<>> \in T
  /\ \A a, b \in T : a \o b \in T

\* A property that concatenation keeps is one of all parts together.
LEMMA FlattenStays ==
  ASSUME NEW S, NEW T \in SUBSET Seq(S), PutsTogether(T),
         NEW s \in Seq(Seq(S)), \A k \in 1 .. Len(s) : s[k] \in T
  PROVE  FlattenSeq(s) \in T
<1>1. PICK g \in [0 .. Len(s) -> Seq(S)] : Flattens(g, s)
  BY FlattensExists
<1>2. FlattenSeq(s) = g[Len(s)]
  BY <1>1, FlattenIs
<1> DEFINE N == {n \in Nat : g[n] \in T}
<1>3. 0 \in N
  BY <1>1 DEF Flattens, PutsTogether
<1>4. ASSUME NEW n \in 0 .. Len(s) - 1, n \in N
      PROVE  n + 1 \in N
  <2>1. g[n + 1] = g[n] \o s[n + 1]
    BY <1>1 DEF Flattens
  <2>2. g[n] \in T /\ s[n + 1] \in T
    BY <1>4
  <2>3. g[n] \o s[n + 1] \in T
    BY <2>2 DEF PutsTogether
  <2>4. n + 1 \in Nat /\ g[n + 1] \in T
    BY <2>1, <2>3
  <2> QED BY <2>4
<1> HIDE DEF N
<1>5. Len(s) \in N
  <2>1. Len(s) \in Nat
    OBVIOUS
  <2>2. \A k \in 0 .. Len(s) : k \in N
    BY <1>3, <1>4, <2>1, InductionUpTo
  <2> QED BY <2>1, <2>2
<1> QED BY <1>2, <1>5 DEF N

\* A single part.
LEMMA FlattenOne ==
  ASSUME NEW S, NEW x \in Seq(S)
  PROVE  FlattenSeq(<<x>>) = x
<1>1. <<>> \in Seq(Seq(S)) /\ Append(<<>>, x) = <<x>>
  OBVIOUS
<1>2. FlattenSeq(Append(<<>>, x)) = FlattenSeq(<<>>) \o x
  BY <1>1, FlattenAppend
<1>3. <<>> \o x = x
  OBVIOUS
<1> QED BY <1>1, <1>2, <1>3, FlattenEmpty

\* A function on an initial part of the numbers is a sequence.
LEMMA FunctionIsSeq ==
  ASSUME NEW S, NEW n \in Nat, NEW f \in [1 .. n -> S]
  PROVE  f \in Seq(S) /\ Len(f) = n
<1>1. Seq(S) = UNION {[1 .. m -> S] : m \in Nat}
  BY SeqDef, Zenon
<1>2. f \in Seq(S)
  BY <1>1, Zenon
<1>3. DOMAIN f = 1 .. n /\ DOMAIN f = 1 .. Len(f) /\ Len(f) \in Nat
  BY <1>2
<1> QED BY <1>2, <1>3

\* The parts given by a function, with the last of them apart.
LEMMA FlattenGrows ==
  ASSUME NEW S, NEW n \in Nat, NEW f \in [1 .. n + 1 -> Seq(S)]
  PROVE  FlattenSeq(f) = FlattenSeq([k \in 1 .. n |-> f[k]]) \o f[n + 1]
<1> DEFINE g == [k \in 1 .. n |-> f[k]]
<1>1. g \in [1 .. n -> Seq(S)]
  OBVIOUS
<1>2. /\ g \in Seq(Seq(S)) /\ Len(g) = n
      /\ f \in Seq(Seq(S)) /\ Len(f) = n + 1
  <2> HIDE DEF g
  <2> QED BY <1>1, FunctionIsSeq
<1>3. f[n + 1] \in Seq(S)
  OBVIOUS
<1>4. \A k \in 1 .. n : g[k] = f[k]
  OBVIOUS
<1> HIDE DEF g
<1>5. Append(g, f[n + 1]) = f
  <2>1. /\ Append(g, f[n + 1]) \in Seq(Seq(S))
        /\ Len(Append(g, f[n + 1])) = n + 1
        /\ \A k \in 1 .. n : Append(g, f[n + 1])[k] = f[k]
        /\ Append(g, f[n + 1])[n + 1] = f[n + 1]
    BY <1>2, <1>3, <1>4
  <2>2. \A k \in 1 .. n + 1 : k \in 1 .. n \/ k = n + 1
    OBVIOUS
  <2>3. \A k \in 1 .. n + 1 : Append(g, f[n + 1])[k] = f[k]
    BY <2>1, <2>2
  <2> QED BY <1>2, <2>1, <2>3, SeqEqual
<1>6. FlattenSeq(Append(g, f[n + 1])) = FlattenSeq(g) \o f[n + 1]
  BY <1>2, <1>3, FlattenAppend
<1> QED BY <1>5, <1>6 DEF g

\* The elements of a concatenation, when the length of the first part is known.
LEMMA ConcatAt ==
  ASSUME NEW S, NEW s \in Seq(S), NEW t \in Seq(S), NEW m \in Nat, Len(s) = m
  PROVE  /\ \A k \in 1 .. m : (s \o t)[k] = s[k]
         /\ \A k \in 1 .. Len(t) : (s \o t)[m + k] = t[k]
         /\ \A k \in m + 1 .. m + Len(t) : (s \o t)[k] = t[k - m]
OBVIOUS

\* An element of two sequences in a row is one of the first or of the second.
LEMMA ElementOfConcat ==
  ASSUME NEW S, NEW s \in Seq(S), NEW t \in Seq(S)
  PROVE  \A k \in DOMAIN (s \o t) :
            \/ k \in DOMAIN s /\ (s \o t)[k] = s[k]
            \/ k - Len(s) \in DOMAIN t /\ (s \o t)[k] = t[k - Len(s)]
OBVIOUS

\* No parts.
LEMMA FlattenNone ==
  ASSUME NEW S, NEW f \in [1 .. 0 -> Seq(S)]
  PROVE  FlattenSeq(f) = <<>>
<1>1. f \in Seq(Seq(S)) /\ Len(f) = 0
  BY FunctionIsSeq
<1>2. f = <<>>
  BY <1>1
<1> QED BY <1>2, FlattenEmpty

\* Parts of one element each.
LEMMA FlattenSingles ==
  ASSUME NEW S, NEW s \in Seq(S)
  PROVE  FlattenSeq([k \in 1 .. Len(s) |-> <<s[k]>>]) = s
<1> DEFINE f == [k \in 1 .. Len(s) |-> <<s[k]>>]
           g == [k \in 0 .. Len(s) |-> SubSeq(s, 1, k)]
<1>1. \A k \in 1 .. Len(s) : <<s[k]>> \in Seq(S)
  OBVIOUS
<1>2. f \in [1 .. Len(s) -> Seq(S)] /\ Len(s) \in Nat
  BY <1>1
<1>3. f \in Seq(Seq(S)) /\ Len(f) = Len(s)
  <2> HIDE DEF f
  <2> QED BY <1>2, FunctionIsSeq
<1>4. Flattens(g, f)
  <2>1. g[0] = <<>>
    OBVIOUS
  <2>2. ASSUME NEW k \in 0 .. Len(s) - 1
        PROVE  g[k + 1] = g[k] \o f[k + 1]
    <3>1. k \in 0 .. Len(s) /\ k + 1 \in 0 .. Len(s) /\ k + 1 \in 1 .. Len(s)
      OBVIOUS
    <3>2. g[k + 1] = SubSeq(s, 1, k + 1) /\ g[k] = SubSeq(s, 1, k) /\ f[k + 1] = <<s[k + 1]>>
      BY <3>1
    <3>3. SubSeq(s, 1, k + 1) = SubSeq(s, 1, k) \o <<s[k + 1]>>
      BY <3>1
    <3> QED BY <3>2, <3>3, Zenon
  <2> HIDE DEF f, g
  <2> QED BY <1>3, <2>1, <2>2 DEF Flattens
<1>5. g[Len(s)] = s
  <2>1. Len(s) \in 0 .. Len(s)
    BY <1>2
  <2> QED BY <2>1
<1> HIDE DEF f, g
<1>6. FlattenSeq(f) = s
  BY <1>3, <1>4, <1>5, FlattenIs
<1> QED BY <1>6 DEF f

-----------------------------------------------------------------------------
(* Concatenation.                                                          *)

\* Two elements are one and one more.
LEMMA Pair ==
  ASSUME NEW S, NEW a \in S, NEW b \in S
  PROVE  <<a, b>> \in Seq(S) /\ <<a>> \o <<b>> = <<a, b>>
<1> DEFINE x == <<a>>
           y == <<b>>
<1>1. x \in Seq(S) /\ y \in Seq(S) /\ Len(x) = 1 /\ Len(y) = 1 /\ x[1] = a /\ y[1] = b
  OBVIOUS
<1>2. <<a, b>> \in Seq(S) /\ Len(<<a, b>>) = 2 /\ <<a, b>>[1] = a /\ <<a, b>>[2] = b
  OBVIOUS
<1> HIDE DEF x, y
<1>3. x \o y \in Seq(S) /\ Len(x \o y) = 2
  BY <1>1, ConcatProperties
<1>4. (x \o y)[1] = a /\ (x \o y)[2] = b
  BY <1>1, ConcatAt
<1>5. x \o y = <<a, b>>
  <2> DEFINE u == x \o y
             v == <<a, b>>
  <2>1. /\ u \in Seq(S) /\ Len(u) = 2 /\ u[1] = a /\ u[2] = b
        /\ v \in Seq(S) /\ Len(v) = 2 /\ v[1] = a /\ v[2] = b
    BY <1>2, <1>3, <1>4
  <2> HIDE DEF u, v
  <2>2. u = v
    BY <2>1
  <2> QED BY <2>2 DEF u, v
<1> QED BY <1>2, <1>5 DEF x, y

\* The elements of a concatenation.
LEMMA ConcatRange ==
  ASSUME NEW S, NEW s \in Seq(S), NEW t \in Seq(S), NEW v
  PROVE  v \in Range(s \o t) <=> v \in Range(s) \/ v \in Range(t)
<1>1. /\ s \o t \in Seq(S) /\ Len(s \o t) = Len(s) + Len(t)
      /\ Len(s) \in Nat /\ Len(t) \in Nat
      /\ DOMAIN s = 1 .. Len(s) /\ DOMAIN t = 1 .. Len(t)
      /\ DOMAIN (s \o t) = 1 .. Len(s) + Len(t)
  BY ConcatProperties, LenProperties
<1>2. /\ \A k \in 1 .. Len(s) : (s \o t)[k] = s[k]
      /\ \A k \in 1 .. Len(t) : (s \o t)[Len(s) + k] = t[k]
      /\ \A k \in Len(s) + 1 .. Len(s) + Len(t) : (s \o t)[k] = t[k - Len(s)]
  BY <1>1, ConcatAt
<1>3. ASSUME NEW k \in 1 .. Len(s) + Len(t), (s \o t)[k] = v
      PROVE  (\E i \in 1 .. Len(s) : s[i] = v) \/ (\E i \in 1 .. Len(t) : t[i] = v)
  <2>1. CASE k \in 1 .. Len(s)
    BY <1>2, <1>3, <2>1
  <2>2. CASE k \in Len(s) + 1 .. Len(s) + Len(t)
    <3>1. k - Len(s) \in 1 .. Len(t)
      BY <1>1, <2>2
    <3> QED BY <1>2, <1>3, <2>2, <3>1
  <2> QED BY <1>1, <2>1, <2>2
<1>4. /\ \A k \in 1 .. Len(s) : k \in 1 .. Len(s) + Len(t)
      /\ \A k \in 1 .. Len(t) : Len(s) + k \in 1 .. Len(s) + Len(t)
  BY <1>1
<1>5. /\ v \in Range(s) <=> \E k \in 1 .. Len(s) : s[k] = v
      /\ v \in Range(t) <=> \E k \in 1 .. Len(t) : t[k] = v
      /\ v \in Range(s \o t) <=> \E k \in 1 .. Len(s) + Len(t) : (s \o t)[k] = v
  BY <1>1 DEF Range
<1> QED BY <1>2, <1>3, <1>4, <1>5, Zenon

-----------------------------------------------------------------------------
(* Sequences taken apart again.                                            *)

\* Two ways to split a sequence at an element of D, the rest having none.
Free(s, D) == \A k \in 1 .. Len(s) : s[k] \notin D

SplitsAt(D, a, x, c, b, y, d) ==
  /\ x \in D
  /\ y \in D
  /\ Free(c, D)
  /\ Free(d, D)
  /\ (a \o <<x>>) \o c = (b \o <<y>>) \o d

\* They are the same: that is where its last element of D is.
LEMMA LastSplit ==
  ASSUME NEW S, NEW a \in Seq(S), NEW b \in Seq(S), NEW c \in Seq(S), NEW d \in Seq(S),
         NEW x \in S, NEW y \in S, NEW D, SplitsAt(D, a, x, c, b, y, d)
  PROVE  a = b
<1> DEFINE s == a \o <<x>>
           t == b \o <<y>>
<1>0. /\ x \in D /\ y \in D
      /\ \A k \in 1 .. Len(c) : c[k] \notin D
      /\ \A k \in 1 .. Len(d) : d[k] \notin D
  BY DEF SplitsAt, Free
<1>1. /\ s \in Seq(S) /\ Len(s) = Len(a) + 1 /\ s[Len(s)] = x
      /\ \A k \in 1 .. Len(a) : s[k] = a[k]
  OBVIOUS
<1>2. /\ t \in Seq(S) /\ Len(t) = Len(b) + 1 /\ t[Len(t)] = y
      /\ \A k \in 1 .. Len(b) : t[k] = b[k]
  OBVIOUS
<1>3. s \o c = t \o d
  BY DEF SplitsAt
<1>4. /\ Len(a) \in Nat /\ Len(b) \in Nat /\ Len(c) \in Nat /\ Len(d) \in Nat
      /\ Len(s) \in Nat /\ Len(t) \in Nat
  BY <1>1, <1>2
<1> HIDE DEF s, t
<1>5. Len(s) + Len(c) = Len(t) + Len(d)
  <2>1. Len(s \o c) = Len(s) + Len(c)
    BY <1>1, ConcatProperties
  <2>2. Len(t \o d) = Len(t) + Len(d)
    BY <1>2, ConcatProperties
  <2> QED BY <1>3, <2>1, <2>2
<1>6. ASSUME Len(s) < Len(t)
      PROVE  FALSE
  <2>1. (s \o c)[Len(t)] = c[Len(t) - Len(s)] /\ Len(t) - Len(s) \in 1 .. Len(c)
    BY <1>1, <1>4, <1>5, <1>6
  <2>2. (t \o d)[Len(t)] = y
    BY <1>2, <1>4
  <2> QED BY <1>0, <1>3, <2>1, <2>2
<1>7. ASSUME Len(t) < Len(s)
      PROVE  FALSE
  <2>1. (t \o d)[Len(s)] = d[Len(s) - Len(t)] /\ Len(s) - Len(t) \in 1 .. Len(d)
    BY <1>2, <1>4, <1>5, <1>7
  <2>2. (s \o c)[Len(s)] = x
    BY <1>1, <1>4
  <2> QED BY <1>0, <1>3, <2>1, <2>2
<1>8. Len(s) = Len(t) /\ Len(c) = Len(d) /\ Len(a) = Len(b)
  BY <1>1, <1>2, <1>4, <1>5, <1>6, <1>7
<1>9. \A k \in 1 .. Len(s) : s[k] = t[k]
  <2> SUFFICES ASSUME NEW k \in 1 .. Len(s) PROVE s[k] = t[k]
    OBVIOUS
  <2>1. (s \o c)[k] = s[k] /\ (t \o d)[k] = t[k]
    BY <1>1, <1>2, <1>8
  <2> QED BY <1>3, <2>1
<1>10. s = t
  BY <1>1, <1>2, <1>8, <1>9, SeqEqual
<1>12. a = b
  <2>1. \A k \in 1 .. Len(a) : a[k] = b[k]
    BY <1>1, <1>2, <1>8, <1>10
  <2> QED BY <1>8, <2>1, SeqEqual
<1> QED BY <1>12

\* So the rests are the same too.
LEMMA RestOfSplit ==
  ASSUME NEW S, NEW a \in Seq(S), NEW b \in Seq(S), NEW c \in Seq(S), NEW d \in Seq(S),
         NEW x \in S, NEW y \in S, NEW D, SplitsAt(D, a, x, c, b, y, d)
  PROVE  c = d
<1> DEFINE s == a \o <<x>>
           t == b \o <<y>>
<1>1. Len(a) = Len(b)
  <2>1. a = b
    BY LastSplit
  <2> QED BY <2>1
<1>2. s \in Seq(S) /\ t \in Seq(S) /\ Len(s) = Len(t) /\ Len(s) \in Nat
  BY <1>1
<1>3. s \o c = t \o d
  BY DEF SplitsAt
<1> HIDE DEF s, t
<1>4. /\ Len(s \o c) = Len(s) + Len(c)
      /\ Len(t \o d) = Len(t) + Len(d)
  BY <1>2, ConcatProperties
<1>5. Len(c) = Len(d) /\ Len(c) \in Nat
  <2>1. Len(c) \in Nat /\ Len(d) \in Nat
    OBVIOUS
  <2> QED BY <1>2, <1>3, <1>4, <2>1
<1>6. \A k \in 1 .. Len(c) : c[k] = d[k]
  <2> SUFFICES ASSUME NEW k \in 1 .. Len(c) PROVE c[k] = d[k]
    OBVIOUS
  <2>1. (s \o c)[Len(s) + k] = c[k]
    BY <1>2
  <2>2. (t \o d)[Len(t) + k] = d[k]
    BY <1>2, <1>5
  <2> QED BY <1>2, <1>3, <2>1, <2>2
<1> QED BY <1>5, <1>6, SeqEqual

\* The same beginning can be taken off.
LEMMA CancelLeft ==
  ASSUME NEW S, NEW s \in Seq(S), NEW c \in Seq(S), NEW d \in Seq(S), s \o c = s \o d
  PROVE  c = d
<1>1. Len(c) = Len(d)
  <2>1. Len(s \o c) = Len(s) + Len(c) /\ Len(s \o d) = Len(s) + Len(d)
    OBVIOUS
  <2> QED BY <2>1
<1>2. \A k \in 1 .. Len(c) : c[k] = d[k]
  <2> SUFFICES ASSUME NEW k \in 1 .. Len(c) PROVE c[k] = d[k]
    OBVIOUS
  <2>1. (s \o c)[Len(s) + k] = c[k]
    OBVIOUS
  <2>2. (s \o d)[Len(s) + k] = d[k]
    BY <1>1
  <2> QED BY <2>1, <2>2
<1> QED BY <1>1, <1>2, SeqEqual

\* An element put in front of a sequence.
LEMMA Prepended ==
  ASSUME NEW S, NEW x \in S, NEW t \in Seq(S)
  PROVE  /\ <<x>> \o t \in Seq(S)
         /\ Len(<<x>> \o t) = Len(t) + 1
         /\ (<<x>> \o t)[1] = x
         /\ \A k \in 1 .. Len(t) : (<<x>> \o t)[k + 1] = t[k]
OBVIOUS

\* The first of the parts that are put together.
LEMMA FlattenFirst ==
  ASSUME NEW S, NEW n \in Nat, NEW f \in [1 .. n + 1 -> Seq(S)]
  PROVE  FlattenSeq(f) = f[1] \o FlattenSeq([k \in 1 .. n |-> f[k + 1]])
<1> DEFINE g == [k \in 1 .. n |-> f[k + 1]]
           h == <<f[1]>>
<1>1. g \in [1 .. n -> Seq(S)] /\ f[1] \in Seq(S)
  OBVIOUS
<1>2. f \in Seq(Seq(S)) /\ Len(f) = n + 1
  BY FunctionIsSeq
<1>3. g \in Seq(Seq(S)) /\ Len(g) = n
  <2> HIDE DEF g
  <2> QED BY <1>1, FunctionIsSeq
<1>4. h \in Seq(Seq(S)) /\ Len(h) = 1 /\ h[1] = f[1]
  BY <1>1
<1>5. FlattenSeq(h) = f[1]
  BY <1>1, FlattenOne
<1>6. \A k \in 1 .. n : g[k] = f[k + 1]
  OBVIOUS
<1> HIDE DEF g, h
<1>7. f = h \o g
  <2>1. h \o g \in Seq(Seq(S)) /\ Len(h \o g) = n + 1
    <3>1. h \o g \in Seq(Seq(S)) /\ Len(h \o g) = Len(h) + Len(g)
      BY <1>3, <1>4, ConcatProperties
    <3> QED BY <1>3, <1>4, <3>1
  <2>3. /\ (h \o g)[1] = f[1]
        /\ \A k \in 1 .. Len(g) : (h \o g)[k + 1] = g[k]
    BY <1>1, <1>3, Prepended DEF h
  <2>2. \A k \in 1 .. n + 1 : f[k] = (h \o g)[k]
    <3> SUFFICES ASSUME NEW k \in 1 .. n + 1 PROVE f[k] = (h \o g)[k]
      OBVIOUS
    <3>1. CASE k = 1
      BY <2>3, <3>1
    <3>2. CASE k # 1
      <4> DEFINE m == k - 1
      <4>1. m \in 1 .. n /\ m + 1 = k
        BY <3>2
      <4> HIDE DEF m
      <4>2. (h \o g)[m + 1] = g[m]
        BY <1>3, <2>3, <4>1
      <4> QED BY <1>6, <4>1, <4>2
    <3> QED BY <3>1, <3>2
  <2> QED BY <1>2, <2>1, <2>2, SeqEqual
<1>8. FlattenSeq(h \o g) = FlattenSeq(h) \o FlattenSeq(g)
  BY <1>3, <1>4, FlattenConcat
<1> QED BY <1>5, <1>7, <1>8 DEF g

\* An element in front of two.
LEMMA Triple ==
  ASSUME NEW S, NEW a \in S, NEW b \in S, NEW c \in S
  PROVE  <<a>> \o <<b, c>> = <<a, b, c>>
<1> DEFINE s == <<a>> \o <<b, c>>
           t == <<a, b, c>>
           u == <<b, c>>
<1>1. u \in Seq(S) /\ Len(u) = 2 /\ u[1] = b /\ u[2] = c
  OBVIOUS
<1>2. /\ t \in Seq(S) /\ Len(t) = 3
      /\ t[1] = a /\ t[2] = b /\ t[3] = c
  OBVIOUS
<1>3. /\ s \in Seq(S) /\ Len(s) = Len(u) + 1 /\ s[1] = a
      /\ \A k \in 1 .. Len(u) : s[k + 1] = u[k]
  <2> HIDE DEF u
  <2> QED BY <1>1, Prepended DEF u
<1>4. s[2] = b /\ s[3] = c /\ Len(s) = 3
  <2>1. s[1 + 1] = u[1] /\ s[2 + 1] = u[2]
    <3> HIDE DEF s, u
    <3> QED BY <1>1, <1>3
  <2> HIDE DEF s, u
  <2> QED BY <1>1, <1>3, <2>1
<1> HIDE DEF s, t, u
<1>5. s[1] = t[1] /\ s[2] = t[2] /\ s[3] = t[3]
  BY <1>2, <1>3, <1>4
<1>6. \A k \in 1 .. Len(s) : k = 1 \/ k = 2 \/ k = 3
  BY <1>4
<1>7. \A k \in 1 .. Len(s) : s[k] = t[k]
  BY <1>5, <1>6
<1> QED BY <1>2, <1>3, <1>4, <1>7, SeqEqual DEF s, t

\* The same for the end, and for a last element.
LEMMA CancelLast ==
  ASSUME NEW S, NEW a \in Seq(S), NEW b \in Seq(S), NEW x \in S, NEW y \in S,
         a \o <<x>> = b \o <<y>>
  PROVE  a = b /\ x = y
<1> DEFINE s == a \o <<x>>
           t == b \o <<y>>
<1>1. /\ s \in Seq(S) /\ Len(s) = Len(a) + 1 /\ s[Len(a) + 1] = x
      /\ \A k \in 1 .. Len(a) : s[k] = a[k]
  OBVIOUS
<1>2. /\ t \in Seq(S) /\ Len(t) = Len(b) + 1 /\ t[Len(b) + 1] = y
      /\ \A k \in 1 .. Len(b) : t[k] = b[k]
  OBVIOUS
<1>3. s = t
  OBVIOUS
<1> HIDE DEF s, t
<1>4. Len(a) = Len(b)
  <2>1. Len(a) \in Nat /\ Len(b) \in Nat
    OBVIOUS
  <2> QED BY <1>1, <1>2, <1>3, <2>1
<1>5. \A k \in 1 .. Len(a) : a[k] = b[k]
  BY <1>1, <1>2, <1>3, <1>4
<1> QED BY <1>1, <1>2, <1>3, <1>4, <1>5, SeqEqual

\* A sequence that has three sequences in a row.
LEMMA ThreeParts ==
  ASSUME NEW S, NEW p \in Seq(S), NEW q \in Seq(S), NEW r \in Seq(S), NEW f \in Seq(S),
         Len(f) = Len(p) + Len(q) + Len(r),
         \A k \in 1 .. Len(p) : f[k] = p[k],
         \A k \in 1 .. Len(q) : f[Len(p) + k] = q[k],
         \A k \in 1 .. Len(r) : f[Len(p) + Len(q) + k] = r[k]
  PROVE  (p \o q) \o r = f
<1> DEFINE s == p \o q
           t == s \o r
<1>1. /\ s \in Seq(S) /\ Len(s) = Len(p) + Len(q)
      /\ Len(p) \in Nat /\ Len(q) \in Nat /\ Len(r) \in Nat
  OBVIOUS
<1>2. \A k \in 1 .. Len(s) : s[k] = f[k]
  <2> SUFFICES ASSUME NEW k \in 1 .. Len(s) PROVE s[k] = f[k]
    OBVIOUS
  <2>1. CASE k <= Len(p)
    BY <2>1
  <2>2. CASE k > Len(p)
    <3> DEFINE j == k - Len(p)
    <3>1. j \in 1 .. Len(q) /\ Len(p) + j = k
      BY <1>1, <2>2
    <3>2. s[k] = q[j] /\ f[Len(p) + j] = q[j]
      BY <2>2, <3>1
    <3> QED BY <3>1, <3>2
  <2> QED BY <1>1, <2>1, <2>2
<1> HIDE DEF s
<1>3. t \in Seq(S) /\ Len(t) = Len(s) + Len(r)
  BY <1>1, ConcatProperties
<1>4. \A k \in 1 .. Len(t) : t[k] = f[k]
  <2> SUFFICES ASSUME NEW k \in 1 .. Len(t) PROVE t[k] = f[k]
    OBVIOUS
  <2>1. CASE k <= Len(s)
    BY <1>1, <1>2, <1>3, <2>1
  <2>2. CASE k > Len(s)
    <3> DEFINE j == k - Len(s)
    <3>1. j \in 1 .. Len(r) /\ Len(p) + Len(q) + j = k
      BY <1>1, <1>3, <2>2
    <3>2. t[k] = r[j]
      <4>1. k \in 1 .. Len(s) + Len(r) /\ ~ (k <= Len(s))
        BY <1>1, <1>3, <2>2
      <4> QED BY <1>1, <4>1, ConcatProperties
    <3>3. f[Len(p) + Len(q) + j] = r[j]
      BY <3>1
    <3> QED BY <3>1, <3>2, <3>3
  <2> QED BY <1>1, <1>3, <2>1, <2>2
<1> HIDE DEF t
<1>5. t = f
  BY <1>1, <1>3, <1>4, SeqEqual
<1> QED BY <1>5 DEF t, s

\* Empty parts put nothing together.
LEMMA FlattenEmpties ==
  ASSUME NEW S, NEW n \in Nat, NEW f \in [1 .. n -> Seq(S)], \A k \in 1 .. n : f[k] = <<>>
  PROVE  FlattenSeq(f) = <<>>
<1> DEFINE none == <<>>
           T == {none}
<1>1. f \in Seq(Seq(S)) /\ Len(f) = n
  BY FunctionIsSeq
<1>2. T \in SUBSET Seq(S) /\ PutsTogether(T)
  BY DEF PutsTogether
<1>3. \A k \in 1 .. Len(f) : f[k] \in T
  BY <1>1
<1> HIDE DEF T
<1>4. FlattenSeq(f) \in T
  BY <1>1, <1>2, <1>3, FlattenStays
<1> QED BY <1>4 DEF T

\* The parts around which there are only empty ones.
LEMMA FlattenPart ==
  ASSUME NEW S, NEW n \in Nat, NEW f \in [1 .. n -> Seq(S)],
         NEW a \in 1 .. n, NEW b \in a .. n, \A k \in 1 .. n : k \notin a .. b => f[k] = <<>>
  PROVE  FlattenSeq(f) = FlattenSeq([k \in 1 .. b - a + 1 |-> f[a + k - 1]])
<1> DEFINE i == a - 1
           m == b - a + 1
           j == n - b
           p == [k \in 1 .. i |-> f[k]]
           q == [k \in 1 .. m |-> f[a + k - 1]]
           r == [k \in 1 .. j |-> f[b + k]]
           N == Seq(S)
<1>1. i \in Nat /\ m \in Nat /\ j \in Nat /\ i + m = b /\ b + j = n /\ i + 1 = a
  OBVIOUS
<1>2. p \in [1 .. i -> N] /\ q \in [1 .. m -> N] /\ r \in [1 .. j -> N]
  OBVIOUS
<1>3. /\ \A k \in 1 .. i : p[k] = f[k] /\ k \in 1 .. n /\ k \notin a .. b
      /\ \A k \in 1 .. m : q[k] = f[i + k]
      /\ \A k \in 1 .. j : r[k] = f[b + k] /\ b + k \in 1 .. n /\ b + k \notin a .. b
  <2>1. \A k \in 1 .. m : a + k - 1 = i + k
    OBVIOUS
  <2> QED BY <2>1
<1> HIDE DEF p, q, r, i, m, j
<1>4. /\ p \in Seq(N) /\ Len(p) = i
      /\ q \in Seq(N) /\ Len(q) = m
      /\ r \in Seq(N) /\ Len(r) = j
      /\ f \in Seq(N) /\ Len(f) = n
  <2> HIDE DEF N
  <2>1. f \in [1 .. n -> N]
    BY DEF N
  <2> QED BY <1>1, <1>2, <2>1, FunctionIsSeq
<1>5. FlattenSeq(p) = <<>>
  <2>1. \A k \in 1 .. i : p[k] = <<>>
    BY <1>3
  <2> QED BY <1>1, <1>2, <2>1, FlattenEmpties
<1>6. FlattenSeq(r) = <<>>
  <2>1. \A k \in 1 .. j : r[k] = <<>>
    BY <1>3
  <2> QED BY <1>1, <1>2, <2>1, FlattenEmpties
<1> HIDE DEF N
<1> DEFINE s == p \o q
           t == s \o r
<1>7. s \in Seq(N)
  BY <1>4
<1>9. t = f
  <2>1. Len(f) = Len(p) + Len(q) + Len(r)
    BY <1>1, <1>4
  <2>2. /\ \A k \in 1 .. Len(p) : f[k] = p[k]
        /\ \A k \in 1 .. Len(q) : f[Len(p) + k] = q[k]
        /\ \A k \in 1 .. Len(r) : f[Len(p) + Len(q) + k] = r[k]
    BY <1>1, <1>3, <1>4
  <2> QED BY <1>4, <2>1, <2>2, ThreeParts
<1>10. FlattenSeq(t) = (FlattenSeq(p) \o FlattenSeq(q)) \o FlattenSeq(r)
  <2>1. FlattenSeq(s) = FlattenSeq(p) \o FlattenSeq(q)
    BY <1>4, FlattenConcat DEF N
  <2>2. FlattenSeq(s \o r) = FlattenSeq(s) \o FlattenSeq(r)
    <3> HIDE DEF s
    <3> QED BY <1>4, <1>7, FlattenConcat DEF N
  <2> QED BY <2>1, <2>2, Zenon
<1>11. FlattenSeq(q) \in Seq(S)
  BY <1>4, FlattenType DEF N
<1>12. (<<>> \o FlattenSeq(q)) \o <<>> = FlattenSeq(q)
  BY <1>11
<1> QED BY <1>5, <1>6, <1>9, <1>10, <1>12, Zenon DEF q, m

=============================================================================
