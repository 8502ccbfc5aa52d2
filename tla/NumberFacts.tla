---------------------------- MODULE NumberFacts ----------------------------
(* Facts about numbers and sequences that several of the proofs need.      *)
EXTENDS Integers, SequencesExt, FiniteSetTheorems, SequenceTheorems, WellFoundedInduction, TLAPS

\* A non-empty set of numbers has a least element.
LEMMA HasMin ==
    ASSUME NEW S \in SUBSET Nat, S # {}
    PROVE  \E x \in S : \A y \in S : x <= y
<1> DEFINE R == OpToRel(<, Nat)
<1>1. PICK x \in S : \A y \in S : ~ (<<y, x>> \in R)
  <2> HIDE DEF R
  <2>1. IsWellFoundedOn(R, Nat)
    BY NatLessThanWellFounded DEF R
  <2> QED
    BY <2>1, WFMin
<1>2. \A y \in S : x <= y
  <2> SUFFICES ASSUME NEW y \in S, y < x
               PROVE  FALSE
    OBVIOUS
  <2>1. <<y, x>> \in R
    BY DEF OpToRel
  <2> QED
    BY <1>1, <2>1
<1> QED
  BY <1>2

\* A set with the first of some numbers, and the successor of each it has,
\* has them all.
LEMMA Counting ==
    ASSUME NEW n \in Nat, NEW S \in SUBSET (0..n), 0 \in S,
           \A k \in S : k < n => k + 1 \in S
    PROVE  S = 0..n
<1> SUFFICES ASSUME (0..n) \ S # {}
             PROVE  FALSE
  OBVIOUS
<1>1. PICK x \in (0..n) \ S : \A y \in (0..n) \ S : x <= y
  <2>1. (0..n) \ S \in SUBSET Nat
    OBVIOUS
  <2> QED
    BY <2>1, HasMin
<1>2. x # 0 /\ x \in 1..n
  OBVIOUS
<1>3. x - 1 \in S
  BY <1>1, <1>2
<1>4. (x - 1) + 1 \in S
  BY <1>2, <1>3
<1> QED
  BY <1>2, <1>4

\* A non-empty set of numbers with a bound has a greatest element.
LEMMA BoundedHasMax ==
    ASSUME NEW n \in Nat, NEW S \in SUBSET (0..n), S # {}
    PROVE  \E x \in S : \A y \in S : y <= x
<1> DEFINE T == {n - x : x \in S}
<1>1. T \in SUBSET Nat /\ T # {}
  <2>1. PICK x \in S : TRUE
    OBVIOUS
  <2>2. n - x \in T
    BY <2>1
  <2>3. \A y \in S : n - y \in Nat
    OBVIOUS
  <2> QED
    BY <2>2, <2>3
<1>2. PICK t \in T : \A y \in T : t <= y
  <2> HIDE DEF T
  <2> QED BY <1>1, HasMin
<1>3. PICK x \in S : t = n - x
  OBVIOUS
<1>4. \A y \in S : y <= x
  BY <1>2, <1>3
<1> QED
  BY <1>4

\* Finitely many numbers have a bound.
LEMMA FiniteIsBounded ==
    ASSUME NEW S \in SUBSET Nat, IsFiniteSet(S)
    PROVE  \E n \in Nat : \A x \in S : x <= n
<1> DEFINE Bounded(T) == \E n \in Nat : \A x \in T : x <= n
           N == {n \in Nat : \E T \in SUBSET S : Cardinality(T) = n /\ ~ Bounded(T)}
           R == OpToRel(<, Nat)
<1> HIDE DEF Bounded
<1> SUFFICES ASSUME ~ Bounded(S)
             PROVE  FALSE
  BY DEF Bounded
<1>1. N \subseteq Nat /\ N # {}
  <2>1. Cardinality(S) \in Nat
    BY FS_CardinalityType
  <2>2. Cardinality(S) \in N
    BY <2>1
  <2> QED
    BY <2>2
<1>2. PICK n \in N : \A m \in N : ~ (<<m, n>> \in R)
  <2> HIDE DEF N, R
  <2>1. IsWellFoundedOn(R, Nat)
    BY NatLessThanWellFounded DEF R
  <2> QED
    BY <1>1, <2>1, WFMin
<1>3. PICK T \in SUBSET S : Cardinality(T) = n /\ ~ Bounded(T)
  BY <1>2
<1>4. IsFiniteSet(T)
  BY FS_Subset
<1>5. PICK x \in T : TRUE
  BY <1>3 DEF Bounded
<1>6. IsFiniteSet(T \ {x}) /\ Cardinality(T \ {x}) = n - 1
  BY <1>3, <1>4, <1>5, FS_RemoveElement
<1>7. n - 1 \in Nat /\ n \in Nat
  BY <1>1, <1>6, FS_CardinalityType
<1>8. Bounded(T \ {x})
  <2> SUFFICES ASSUME ~ Bounded(T \ {x})
               PROVE  FALSE
    OBVIOUS
  <2>1. n - 1 \in N
    BY <1>6, <1>7
  <2>2. <<n - 1, n>> \in R
    <3> HIDE DEF N
    <3> QED BY <1>7 DEF OpToRel
  <2> QED
    BY <1>2, <2>1, <2>2
<1>9. PICK b \in Nat : \A y \in T \ {x} : y <= b
  BY <1>8 DEF Bounded
<1>10. \A y \in T : y <= b + x
  BY <1>9, <1>5
<1>11. b + x \in Nat
  BY <1>5, <1>9
<1> QED
  BY <1>3, <1>10, <1>11 DEF Bounded

-----------------------------------------------------------------------------
(* Sequences.                                                              *)

\* The heads of a sequence.
LEMMA Heads ==
    ASSUME NEW S, NEW s \in Seq(S)
    PROVE  /\ Len(s) \in Nat /\ DOMAIN s = 1..Len(s)
           /\ SubSeq(s, 1, 0) = <<>> /\ SubSeq(s, 1, Len(s)) = s
           /\ \A k \in 0..Len(s) : SubSeq(s, 1, k) \in Seq(S) /\ Len(SubSeq(s, 1, k)) = k
           /\ \A k \in 0..Len(s) : k < Len(s) =>
                 /\ s[k + 1] \in S
                 /\ SubSeq(s, 1, k + 1) = Append(SubSeq(s, 1, k), s[k + 1])
<1>1. Len(s) \in Nat /\ DOMAIN s = 1..Len(s)
  OBVIOUS
<1>2. SubSeq(s, 1, 0) = <<>>
  OBVIOUS
<1>3. SubSeq(s, 1, Len(s)) = s
  OBVIOUS
<1>4. \A k \in 0..Len(s) : SubSeq(s, 1, k) \in Seq(S) /\ Len(SubSeq(s, 1, k)) = k
  OBVIOUS
<1>5. ASSUME NEW k \in 0..Len(s), k < Len(s)
      PROVE  s[k + 1] \in S /\ SubSeq(s, 1, k + 1) = Append(SubSeq(s, 1, k), s[k + 1])
  <2>1. s[k + 1] \in S
    BY <1>5
  <2>2. SubSeq(s, 1, k + 1) = Append(SubSeq(s, 1, k), s[k + 1])
    BY <1>5
  <2> QED
    BY <2>1, <2>2
<1> QED
  BY <1>1, <1>2, <1>3, <1>4, <1>5

\* The function that flattening defines exists, and gives it its value.
LEMMA FlattenByPrefixes ==
    ASSUME NEW s, Len(s) \in Nat, Len(s) # 0
    PROVE  \E g : /\ g = [i \in 1..Len(s) |-> IF i = 1 THEN s[i] ELSE g[i - 1] \o s[i]]
                  /\ FlattenSeq(s) = g[Len(s)]
<1> DEFINE Has(m) == \E g : g = [i \in 1..m |-> IF i = 1 THEN s[i] ELSE g[i - 1] \o s[i]]
           S == {m \in 0..Len(s) : Has(m)}
<1>1. Has(0)
  <2>1. PICK g : g = [i \in 1..0 |-> s]
    OBVIOUS
  <2>2. g = [i \in 1..0 |-> IF i = 1 THEN s[i] ELSE g[i - 1] \o s[i]]
    BY <2>1
  <2> QED
    BY <2>2
<1>2. ASSUME NEW m \in Nat, Has(m)
      PROVE  Has(m + 1)
  <2>1. PICK g : g = [i \in 1..m |-> IF i = 1 THEN s[i] ELSE g[i - 1] \o s[i]]
    BY <1>2
  <2>2. PICK h : h = [i \in 1..(m + 1) |->
                        IF i # m + 1 THEN g[i] ELSE IF i = 1 THEN s[i] ELSE g[m] \o s[i]]
    OBVIOUS
  <2>3. \A i \in 1..(m + 1) : h[i] = IF i = 1 THEN s[i] ELSE h[i - 1] \o s[i]
    <3> TAKE i \in 1..(m + 1)
    <3>1. CASE i = m + 1 /\ i # 1
      <4>1. m \in 1..(m + 1) /\ m # m + 1 /\ i - 1 = m
        BY <3>1
      <4>2. h[m] = g[m]
        BY <2>2, <4>1
      <4>3. h[i] = g[m] \o s[i]
        BY <2>2, <3>1, Zenon
      <4> QED BY <3>1, <4>1, <4>2, <4>3
    <3>2. CASE i # m + 1 /\ i # 1
      <4>1. i \in 1..m /\ i - 1 \in 1..(m + 1) /\ i - 1 # m + 1
        BY <3>2
      <4>2. h[i] = g[i] /\ h[i - 1] = g[i - 1] /\ g[i] = g[i - 1] \o s[i]
        BY <2>1, <2>2, <3>2, <4>1
      <4> QED BY <3>2, <4>2
    <3>3. CASE i = 1
      <4>1. CASE i = m + 1
        BY <2>2, <3>3, <4>1
      <4>2. CASE i # m + 1
        <5>1. i \in 1..m
          BY <4>2
        <5> QED
          BY <2>1, <2>2, <3>3, <4>2, <5>1
      <4> QED BY <4>1, <4>2
    <3> QED
      BY <3>1, <3>2, <3>3
  <2>4. h = [i \in 1..(m + 1) |-> IF i = 1 THEN s[i] ELSE h[i - 1] \o s[i]]
    BY <2>2, <2>3
  <2> QED
    BY <2>4
<1> HIDE DEF Has
<1>3. S = 0..Len(s)
  <2>1. 0 \in S /\ \A m \in S : m < Len(s) => m + 1 \in S
    BY <1>1, <1>2
  <2> QED
    BY <2>1, Counting
<1>4. Has(Len(s))
  BY <1>3
<1>5. \E g : g = [i \in 1..Len(s) |-> IF i = 1 THEN s[i] ELSE g[i - 1] \o s[i]]
  BY <1>4 DEF Has
<1> QED
  BY <1>5, Zenon DEF FlattenSeq

\* Flattening one sequence more appends it.
LEMMA FlattenOneMore ==
    ASSUME NEW N \in Nat, NEW S, NEW e \in [1..N -> Seq(S)], NEW n \in 0..N, n < N
    PROVE  FlattenSeq([t \in 1..(n + 1) |-> e[t]]) = FlattenSeq([t \in 1..n |-> e[t]]) \o e[n + 1]
<1>1. PICK s : s = [t \in 1..(n + 1) |-> e[t]]
  OBVIOUS
<1>2. Len(s) = n + 1 /\ Len(s) \in Nat /\ Len(s) # 0
  BY <1>1
<1>3. PICK g : /\ g = [i \in 1..Len(s) |-> IF i = 1 THEN s[i] ELSE g[i - 1] \o s[i]]
               /\ FlattenSeq(s) = g[Len(s)]
  BY <1>2, FlattenByPrefixes
<1>4. PICK r : r = [t \in 1..n |-> e[t]]
  OBVIOUS
<1>5. Len(r) = n
  BY <1>4
<1>6. CASE n = 0
  <2>1. Len(r) = 0
    BY <1>5, <1>6
  <2>2. FlattenSeq(r) = r
    BY <2>1, Zenon DEF FlattenSeq
  <2>3. r = <<>>
    BY <1>4, <1>6
  <2>4. g[1] = s[1] /\ s[1] = e[1] /\ e[1] \in Seq(S)
    BY <1>1, <1>2, <1>3, <1>6
  <2>5. <<>> \o e[1] = e[1]
    BY <2>4, ConcatEmptySeq
  <2>6. FlattenSeq(s) = g[1] /\ n + 1 = 1
    BY <1>2, <1>3, <1>6
  <2> QED
    BY <1>1, <1>4, <2>2, <2>3, <2>4, <2>5, <2>6
<1>7. CASE n # 0
  <2>1. Len(r) \in Nat /\ Len(r) # 0
    BY <1>5, <1>7
  <2>2. PICK h : /\ h = [i \in 1..Len(r) |-> IF i = 1 THEN r[i] ELSE h[i - 1] \o r[i]]
                 /\ FlattenSeq(r) = h[Len(r)]
    BY <2>1, FlattenByPrefixes
  <2> DEFINE A == {i \in 0..n : i = 0 \/ g[i] = h[i]}
  <2>3. ASSUME NEW i \in A, i < n
        PROVE  i + 1 \in A
    <3>1. i + 1 \in 1..n /\ i + 1 \in 1..(n + 1) /\ (i + 1) - 1 = i
      BY <2>3
    <3>2. s[i + 1] = e[i + 1] /\ r[i + 1] = e[i + 1]
      BY <1>1, <1>4, <3>1
    <3>3. g[i + 1] = IF i + 1 = 1 THEN e[i + 1] ELSE g[i] \o e[i + 1]
      BY <1>2, <1>3, <3>1, <3>2
    <3>4. h[i + 1] = IF i + 1 = 1 THEN e[i + 1] ELSE h[i] \o e[i + 1]
      BY <1>5, <2>2, <3>1, <3>2
    <3>5. g[i + 1] = h[i + 1]
      BY <2>3, <3>3, <3>4
    <3> QED
      BY <3>1, <3>5
  <2>4. A = 0..n
    <3>1. 0 \in A /\ A \in SUBSET (0..n) /\ n \in Nat
      OBVIOUS
    <3> HIDE DEF A
    <3> QED
      BY <2>3, <3>1, Counting
  <2>5. g[n] = h[n]
    <3>1. n \in A
      BY <2>4
    <3> QED
      BY <1>7, <3>1
  <2>6. g[n + 1] = g[n] \o s[n + 1]
    <3>1. n + 1 \in 1..Len(s) /\ n + 1 # 1 /\ (n + 1) - 1 = n
      BY <1>2, <1>7
    <3> QED
      BY <1>3, <3>1
  <2>7. s[n + 1] = e[n + 1]
    BY <1>1
  <2> QED
    BY <1>1, <1>2, <1>3, <1>4, <1>5, <2>2, <2>5, <2>6, <2>7
<1> QED
  BY <1>6, <1>7

\* What comes of flattening is a sequence.
LEMMA FlattenType ==
    ASSUME NEW N \in Nat, NEW S, NEW e \in [1..N -> Seq(S)], NEW n \in 0..N
    PROVE  FlattenSeq([t \in 1..n |-> e[t]]) \in Seq(S)
<1> DEFINE F(m) == FlattenSeq([t \in 1..m |-> e[t]])
           A == {m \in 0..N : F(m) \in Seq(S)}
<1>1. F(0) \in Seq(S)
  <2>1. PICK r : r = [t \in 1..0 |-> e[t]]
    OBVIOUS
  <2>2. r = <<>> /\ Len(r) = 0
    BY <2>1
  <2>3. FlattenSeq(r) = r
    BY <2>2, Zenon DEF FlattenSeq
  <2>4. r \in Seq(S)
    BY <2>2, EmptySeq
  <2> QED
    BY <2>1, <2>3, <2>4
<1>2. ASSUME NEW m \in 0..N, m < N, F(m) \in Seq(S)
      PROVE  F(m + 1) \in Seq(S)
  <2>1. F(m + 1) = F(m) \o e[m + 1]
    BY <1>2, FlattenOneMore
  <2>2. e[m + 1] \in Seq(S)
    BY <1>2
  <2> HIDE DEF F
  <2> QED
    BY <1>2, <2>1, <2>2, ConcatProperties
<1> HIDE DEF F
<1>3. A = 0..N
  <2>1. 0 \in A /\ \A m \in A : m < N => m + 1 \in A
    BY <1>1, <1>2
  <2> QED
    BY <2>1, Counting
<1> QED
  BY <1>3 DEF F

\* Nothing comes of nothing.
LEMMA FlattenNone == FlattenSeq(<<>>) = <<>>
<1>1. Len(<<>>) = 0
  OBVIOUS
<1> QED
  BY <1>1, Zenon DEF FlattenSeq

\* A sequence and what is appended to it, as functions.
LEMMA AppendIs ==
    ASSUME NEW T, NEW s \in Seq(T), NEW x \in T
    PROVE  LET e == Append(s, x)
               n == Len(s)
           IN /\ e \in [1..(n + 1) -> T] /\ e[n + 1] = x
              /\ s = [t \in 1..n |-> e[t]] /\ e = [t \in 1..(n + 1) |-> e[t]]
<1> DEFINE e == Append(s, x)
           n == Len(s)
<1>1. e \in Seq(T) /\ Len(e) = n + 1 /\ e[n + 1] = x /\ n \in Nat
  OBVIOUS
<1>2. DOMAIN s = 1..n /\ \A t \in 1..n : s[t] = e[t]
  OBVIOUS
<1>3. e \in [1..(n + 1) -> T]
  <2> HIDE DEF e, n
  <2> QED
    BY <1>1, LenProperties
<1>4. s = [t \in 1..n |-> s[t]]
  BY <1>2
<1> HIDE DEF e, n
<1>5. s = [t \in 1..n |-> e[t]]
  BY <1>2, <1>4
<1>6. e = [t \in 1..(n + 1) |-> e[t]]
  BY <1>3
<1> QED
  BY <1>1, <1>3, <1>5, <1>6 DEF e, n

\* Flattening a sequence to which one is appended appends that.
LEMMA FlattenAppend ==
    ASSUME NEW S, NEW s \in Seq(Seq(S)), NEW x \in Seq(S)
    PROVE  /\ FlattenSeq(s) \in Seq(S) /\ FlattenSeq(Append(s, x)) \in Seq(S)
           /\ FlattenSeq(Append(s, x)) = FlattenSeq(s) \o x
<1> DEFINE e == Append(s, x)
           n == Len(s)
<1>1. n \in Nat /\ n + 1 \in Nat /\ n \in 0..(n + 1) /\ n + 1 \in 0..(n + 1) /\ n < n + 1
  OBVIOUS
<1>2. e \in [1..(n + 1) -> Seq(S)] /\ e[n + 1] = x
  BY AppendIs
<1>3. s = [t \in 1..n |-> e[t]] /\ e = [t \in 1..(n + 1) |-> e[t]]
  BY AppendIs
<1> HIDE DEF e, n
<1>4. FlattenSeq([t \in 1..n |-> e[t]]) \in Seq(S) /\ FlattenSeq([t \in 1..(n + 1) |-> e[t]]) \in Seq(S)
  BY <1>1, <1>2, FlattenType
<1>5. FlattenSeq([t \in 1..(n + 1) |-> e[t]]) = FlattenSeq([t \in 1..n |-> e[t]]) \o e[n + 1]
  BY <1>1, <1>2, FlattenOneMore
<1> QED
  BY <1>2, <1>3, <1>4, <1>5 DEF e

\* The same, of the value alone.
LEMMA FlattenMore ==
    ASSUME NEW S, NEW s \in Seq(Seq(S)), NEW x \in Seq(S)
    PROVE  FlattenSeq(Append(s, x)) = FlattenSeq(s) \o x
BY FlattenAppend

\* Three sequences, however they are put together.
LEMMA ConcatThree ==
    ASSUME NEW S, NEW a \in Seq(S), NEW b \in Seq(S), NEW c \in Seq(S)
    PROVE  a \o (b \o c) = a \o b \o c
BY ConcatAssociative

\* A sequence behind four others, however it is put together.
JoinUp(a, b, c, d, e) == a \o (b \o c \o d \o e) = a \o b \o c \o d \o e

LEMMA ConcatFive ==
    ASSUME NEW S, NEW a \in Seq(S), NEW b \in Seq(S), NEW c \in Seq(S), NEW d \in Seq(S), NEW e \in Seq(S)
    PROVE  b \o c \o d \o e \in Seq(S) /\ JoinUp(a, b, c, d, e)
<1> DEFINE p == b \o c
           q == p \o d
<1>1. p \in Seq(S)
  BY ConcatProperties
<1>2. a \o p = (a \o b) \o c
  OBVIOUS
<1> HIDE DEF p
<1>3. q \in Seq(S)
  BY <1>1, ConcatProperties
<1>4. a \o q = (a \o p) \o d
  BY <1>1
<1> HIDE DEF q
<1>5. q \o e \in Seq(S)
  BY <1>3, ConcatProperties
<1>6. a \o (q \o e) = (a \o q) \o e
  BY <1>3
<1> QED
  BY <1>2, <1>4, <1>5, <1>6 DEF p, q, JoinUp

\* g lists the sets of which F names an element, that one first.
ListsBy(S, F, g) == g = [T \in SUBSET S |-> IF T = {} THEN <<>> ELSE <<F[T]>> \o g[T \ {F[T]}]]

\* Such a list exists, and what it lists of a set is all of it and nothing else.
LEMMA HasListing ==
    ASSUME NEW S, IsFiniteSet(S), NEW F, \A T \in SUBSET S : T # {} => F[T] \in T
    PROVE  /\ \E g : ListsBy(S, F, g)
           /\ \A g : ListsBy(S, F, g) => g[S] \in Seq(S) /\ \A x \in S : \E i \in DOMAIN g[S] : g[S][i] = x
<1> DEFINE K(k) == {T \in SUBSET S : Cardinality(T) <= k}
           Listed(D, g) == g = [T \in D |-> IF T = {} THEN <<>> ELSE <<F[T]>> \o g[T \ {F[T]}]]
           n == Cardinality(S)
           E == {k \in 0..n : \E g : Listed(K(k), g)}
<1>1. \A T \in SUBSET S : T # {} => F[T] \in T
  OBVIOUS
<1>2. \A T \in SUBSET S : IsFiniteSet(T) /\ Cardinality(T) \in Nat /\ Cardinality(T) <= n
  BY FS_Subset, FS_CardinalityType
<1>3. n \in Nat
  BY FS_CardinalityType
<1>4. \A T \in SUBSET S : Cardinality(T) = 0 <=> T = {}
  BY <1>2, FS_EmptySet
<1>5. \A T \in SUBSET S : T # {} =>
         /\ T \ {F[T]} \in SUBSET S
         /\ Cardinality(T \ {F[T]}) = Cardinality(T) - 1
  <2> SUFFICES ASSUME NEW T \in SUBSET S, T # {}
               PROVE  Cardinality(T \ {F[T]}) = Cardinality(T) - 1
    OBVIOUS
  <2>1. F[T] \in T /\ IsFiniteSet(T)
    BY <1>1, <1>2
  <2> QED
    BY <2>1, FS_RemoveElement
<1>6. S \in SUBSET S
  OBVIOUS
<1> HIDE DEF n
<1>7. E = 0..n
  <2>1. 0 \in E
    <3> DEFINE g == [T \in K(0) |-> <<>>]
    <3>1. \A T \in K(0) : T = {}
      BY <1>2, <1>4
    <3>2. Listed(K(0), g)
      <4>1. \A T \in K(0) : <<>> = IF T = {} THEN <<>> ELSE <<F[T]>> \o g[T \ {F[T]}]
        BY <3>1, Zenon
      <4> HIDE DEF K
      <4> QED
        BY <4>1, Zenon
    <3>3. 0 \in 0..n
      BY <1>3
    <3> HIDE DEF K, Listed, g
    <3> QED
      BY <3>2, <3>3
  <2>2. \A k \in E : k < n => k + 1 \in E
    <3> SUFFICES ASSUME NEW k \in 0..n, k < n, \E g : Listed(K(k), g)
                 PROVE  k + 1 \in 0..n /\ \E g : Listed(K(k + 1), g)
      <4> HIDE DEF Listed, K, n
      <4> QED OBVIOUS
    <3>1. PICK g : Listed(K(k), g)
      OBVIOUS
    <3> k \in Nat
      OBVIOUS
    <3> HIDE DEF Listed, E
    <3>2. \A T \in K(k) : T \in K(k + 1) /\ (T # {} => T \ {F[T]} \in K(k))
      BY <1>2, <1>5
    <3>3. \A T \in K(k + 1) : T # {} => T \ {F[T]} \in K(k)
      BY <1>2, <1>5
    <3> USE DEF Listed
    <3> DEFINE h == [T \in K(k + 1) |->
                       IF T \in K(k) THEN g[T] ELSE <<F[T]>> \o g[T \ {F[T]}]]
    <3>4. \A T \in K(k) : h[T] = g[T]
      <4> HIDE DEF K
      <4> QED BY <3>2
    <3>5. {} \in K(k)
      BY <1>3, <1>4
    <3>6. ASSUME NEW T \in K(k + 1)
          PROVE  h[T] = IF T = {} THEN <<>> ELSE <<F[T]>> \o h[T \ {F[T]}]
      <4> HIDE DEF K
      <4>1. CASE T \in K(k)
        <5>1. h[T] = g[T] /\ (T # {} => h[T \ {F[T]}] = g[T \ {F[T]}])
          BY <3>2, <3>4, <4>1
        <5>2. g[T] = IF T = {} THEN <<>> ELSE <<F[T]>> \o g[T \ {F[T]}]
          BY <3>1, <4>1, Zenon
        <5> HIDE DEF h
        <5> QED
          BY <5>1, <5>2, Zenon
      <4>2. CASE T \notin K(k)
        <5>1. T # {}
          BY <3>5, <4>2
        <5>2. h[T] = <<F[T]>> \o g[T \ {F[T]}]
          BY <4>2, Zenon
        <5>3. h[T \ {F[T]}] = g[T \ {F[T]}]
          BY <3>3, <3>4, <5>1
        <5> HIDE DEF h
        <5> QED
          BY <5>1, <5>2, <5>3, Zenon
      <4> QED
        BY <4>1, <4>2
    <3>7. h = [T \in K(k + 1) |-> h[T]]
      <4> HIDE DEF K
      <4> QED OBVIOUS
    <3> HIDE DEF h, K
    <3>8. Listed(K(k + 1), h)
      BY <3>6, <3>7, Zenon
    <3> HIDE DEF Listed
    <3> QED
      BY <1>3, <3>8
  <2> HIDE DEF E
  <2>3. E \in SUBSET (0..n)
    BY DEF E
  <2> QED
    BY <1>3, <2>1, <2>2, <2>3, Counting
<1>8. K(n) = SUBSET S
  BY <1>2
<1>9. \E g : Listed(SUBSET S, g)
  <2>1. n \in E
    <3> HIDE DEF E
    <3> QED BY <1>3, <1>7
  <2>2. \E g : Listed(K(n), g)
    <3> HIDE DEF Listed, K
    <3> QED BY <2>1
  <2> HIDE DEF Listed, K
  <2> QED
    BY <1>8, <2>2
<1>10. \E g : ListsBy(S, F, g)
  BY <1>9, Zenon DEF ListsBy
<1>11. ASSUME NEW L, ListsBy(S, F, L)
       PROVE  L[S] \in Seq(S) /\ \A x \in S : \E i \in DOMAIN L[S] : L[S][i] = x
  <2> DEFINE Good(T) == L[T] \in Seq(S) /\ \A x \in T : \E i \in DOMAIN L[T] : L[T][i] = x
             G == {k \in 0..n : \A T \in SUBSET S : Cardinality(T) <= k => Good(T)}
  <2>1. L[{}] = <<>>
    BY <1>11, Zenon DEF ListsBy
  <2>2. \A T \in SUBSET S : T # {} => L[T] = <<F[T]>> \o L[T \ {F[T]}]
    BY <1>11, Zenon DEF ListsBy
  <2>3. 0 \in G
    <3>1. \A T \in SUBSET S : Cardinality(T) <= 0 => T = {}
      BY <1>2, <1>4
    <3>2. L[{}] \in Seq(S)
      BY <2>1
    <3>3. 0 \in 0..n
      BY <1>3
    <3> QED
      BY <3>1, <3>2, <3>3
  <2>4. \A k \in G : k < n => k + 1 \in G
    <3> SUFFICES ASSUME NEW k \in G, k < n, NEW T \in SUBSET S, Cardinality(T) <= k + 1
                 PROVE  Good(T)
      <4> HIDE DEF Good
      <4> QED
        BY <1>3
    <3> DEFINE Rest == T \ {F[T]}
    <3>0. k \in Nat /\ \A U \in SUBSET S : Cardinality(U) <= k => Good(U)
      OBVIOUS
    <3> HIDE DEF G, Listed
    <3>1. CASE T = {}
      <4>1. L[T] = <<>>
        BY <2>1, <3>1, Zenon
      <4>2. <<>> \in Seq(S)
        OBVIOUS
      <4> QED
        BY <3>1, <4>1, <4>2
    <3>2. CASE T # {}
      <4>1. F[T] \in S /\ F[T] \in T /\ L[T] = <<F[T]>> \o L[T \ {F[T]}]
        BY <1>1, <2>2, <3>2
      <4>2. Cardinality(Rest) = Cardinality(T) - 1 /\ Rest \in SUBSET S
        BY <1>5, <3>2
      <4>3. Cardinality(Rest) <= k
        BY <1>2, <3>0, <4>2
      <4>4. Good(Rest)
        BY <3>0, <4>2, <4>3
      <4>5. \A x \in T : x = F[T] \/ x \in Rest
        OBVIOUS
      <4> HIDE DEF Rest
      <4>6. \A x \in S, r \in Seq(S) :
               /\ <<x>> \o r \in Seq(S)
               /\ 1 \in DOMAIN (<<x>> \o r) /\ (<<x>> \o r)[1] = x
               /\ \A i \in DOMAIN r : i + 1 \in DOMAIN (<<x>> \o r) /\ (<<x>> \o r)[i + 1] = r[i]
        OBVIOUS
      <4> DEFINE r == L[Rest]
                 x == F[T]
      <4>7. L[T] = <<x>> \o r /\ r \in Seq(S) /\ x \in S /\ \A y \in Rest : \E i \in DOMAIN r : r[i] = y
        BY <4>1, <4>4 DEF Rest
      <4>8. \A y \in T : y = x \/ y \in Rest
        BY <4>5
      <4> HIDE DEF r, x
      <4>9. L[T] \in Seq(S) /\ 1 \in DOMAIN L[T] /\ L[T][1] = x
            /\ \A i \in DOMAIN r : i + 1 \in DOMAIN L[T] /\ L[T][i + 1] = r[i]
        BY <4>6, <4>7
      <4>10. \A y \in T : \E i \in DOMAIN L[T] : L[T][i] = y
        <5> SUFFICES ASSUME NEW y \in T
                     PROVE  \E i \in DOMAIN L[T] : L[T][i] = y
          OBVIOUS
        <5>1. CASE y = x
          BY <4>9, <5>1
        <5>2. CASE y \in Rest
          <6>1. PICK i \in DOMAIN r : r[i] = y
            BY <4>7, <5>2
          <6> QED
            BY <4>9, <6>1
        <5> QED
          BY <4>8, <5>1, <5>2
      <4> QED
        BY <4>9, <4>10
    <3> QED
      BY <3>1, <3>2
  <2>5. G = 0..n
    <3> HIDE DEF Good
    <3>1. G \in SUBSET (0..n)
      OBVIOUS
    <3> HIDE DEF G
    <3> QED
      BY <1>3, <2>3, <2>4, <3>1, Counting
  <2>6. Good(S)
    <3>1. Cardinality(S) <= n /\ n \in Nat
      BY <1>2, <1>3, <1>6
    <3>2. n \in G
      <4> HIDE DEF G
      <4> QED BY <1>3, <2>5
    <3> HIDE DEF Good
    <3> QED
      BY <1>6, <3>1, <3>2
  <2> QED
    BY <2>6
<1> QED
  BY <1>10, <1>11

\* R orders S: of two it has one pair, and it goes on from pair to pair.
OrdersAll(R, S) ==
    /\ \A x, y \in S : x # y => <<x, y>> \in R \/ <<y, x>> \in R
    /\ \A x, y, z \in S : <<x, y>> \in R /\ <<y, z>> \in R => <<x, z>> \in R

\* In a finite set that is ordered, everything that is not empty has a first element.
LEMMA HasFirst ==
    ASSUME NEW S, IsFiniteSet(S), NEW R, OrdersAll(R, S)
    PROVE  \A T \in SUBSET S : T # {} => \E x \in T : \A y \in T \ {x} : <<x, y>> \in R
<1> DEFINE n == Cardinality(S)
           Good(T) == T # {} => \E x \in T : \A y \in T \ {x} : <<x, y>> \in R
           E == {k \in 0..n : \A T \in SUBSET S : Cardinality(T) <= k => Good(T)}
<1>1. \A T \in SUBSET S : IsFiniteSet(T) /\ Cardinality(T) \in Nat /\ Cardinality(T) <= n
  BY FS_Subset, FS_CardinalityType
<1>2. n \in Nat
  BY FS_CardinalityType
<1>3. \A T \in SUBSET S : Cardinality(T) = 0 <=> T = {}
  BY <1>1, FS_EmptySet
<1> HIDE DEF n
<1>4. 0 \in E
  <2>1. \A T \in SUBSET S : Cardinality(T) <= 0 => T = {}
    BY <1>1, <1>3
  <2>2. \A T \in SUBSET S : Cardinality(T) <= 0 => Good(T)
    BY <2>1
  <2>3. 0 \in 0..n
    BY <1>2
  <2> HIDE DEF Good
  <2> QED
    BY <2>2, <2>3
<1>5. \A k \in E : k < n => k + 1 \in E
  <2> SUFFICES ASSUME NEW k \in 0..n, k < n, \A T \in SUBSET S : Cardinality(T) <= k => Good(T)
               PROVE  k + 1 \in 0..n /\ \A T \in SUBSET S : Cardinality(T) <= k + 1 => Good(T)
    <3> HIDE DEF Good, n
    <3> QED OBVIOUS
  <2>1. k + 1 \in 0..n
    BY <1>2
  <2>2. ASSUME NEW T \in SUBSET S, Cardinality(T) <= k + 1, T # {}
        PROVE  \E x \in T : \A y \in T \ {x} : <<x, y>> \in R
    <3>1. PICK a \in T : TRUE
      BY <2>2
    <3> DEFINE U == T \ {a}
    <3>2. Cardinality(U) = Cardinality(T) - 1 /\ U \in SUBSET S
      BY <1>1, FS_RemoveElement
    <3>3. Cardinality(U) <= k
      BY <1>1, <2>2, <3>2
    <3>4. CASE U = {}
      BY <3>4
    <3>5. CASE U # {}
      <4>1. PICK m \in U : \A y \in U \ {m} : <<m, y>> \in R
        BY <3>2, <3>3, <3>5
      <4>2. m # a /\ m \in S /\ a \in S /\ \A y \in T : y \in S /\ (y = a \/ y \in U)
        OBVIOUS
      <4> HIDE DEF U
      <4>3. CASE <<m, a>> \in R
        <5>1. m \in T /\ \A y \in T \ {m} : <<m, y>> \in R
          BY <4>1, <4>2, <4>3 DEF U
        <5> QED
          BY <5>1
      <4>4. CASE <<a, m>> \in R
        <5>1. \A y \in U \ {m} : <<a, y>> \in R
          BY <4>1, <4>2, <4>4 DEF OrdersAll, U
        <5>2. \A y \in T \ {a} : <<a, y>> \in R
          BY <4>2, <4>4, <5>1
        <5> QED
          BY <5>2
      <4> QED
        BY <4>2, <4>3, <4>4 DEF OrdersAll
    <3> QED
      BY <3>4, <3>5
  <2> QED
    BY <2>1, <2>2
<1>6. E = 0..n
  <2>1. E \in SUBSET (0..n)
    OBVIOUS
  <2> HIDE DEF E
  <2> QED
    BY <1>2, <1>4, <1>5, <2>1, Counting
<1>7. n \in E
  <2> HIDE DEF E
  <2> QED BY <1>2, <1>6
<1>8. \A T \in SUBSET S : Cardinality(T) <= n => Good(T)
  <2> HIDE DEF Good
  <2> QED BY <1>7
<1> QED
  BY <1>1, <1>8
=============================================================================
