----------------------------- MODULE FoldFacts -----------------------------
(* What FoldLeft comes to, for any operator: the last of the accumulators. *)
EXTENDS SequencesExt, NumberFacts

CONSTANT Op(_, _, _, _)      \* of what the fold is in, the accumulator, an element

Folded(b, c, base, s) == FoldLeft(LAMBDA a, x : Op(b, c, a, x), base, s)

\* acc[k] is what the first k elements of s come to.
Accumulates(b, c, base, n, s, acc) ==
    acc = [k \in 0..n |-> IF k = 0 THEN base ELSE Op(b, c, acc[k - 1], s[k])]

\* g[n] is what n turns come to.
Iterates(b, c, base, s, g) ==
    g = [n \in Nat |-> IF n = 0 THEN base ELSE Op(b, c, g[n - 1], s[n])]

\* The accumulators of a fold exist.
LEMMA Accumulators ==
    ASSUME NEW b, NEW c, NEW base, NEW n \in Nat, NEW s
    PROVE  \E acc : Accumulates(b, c, base, n, s, acc)
<1> USE DEF Accumulates
<1> DEFINE P(m) == \E g : g = [k \in 0..m |-> IF k = 0 THEN base ELSE Op(b, c, g[k - 1], s[k])]
           S == {m \in 0..n : P(m)}
<1>1. 0 \in S
  <2> DEFINE g == [k \in 0..0 |-> base]
  <2>1. \A k \in 0..0 : k = 0
    OBVIOUS
  <2>2. g = [k \in 0..0 |-> IF k = 0 THEN base ELSE Op(b, c, g[k - 1], s[k])]
    <3>1. \A k \in 0..0 : base = IF k = 0 THEN base ELSE Op(b, c, g[k - 1], s[k])
      BY <2>1, Zenon
    <3> QED
      BY <3>1, Zenon
  <2>3. 0 \in 0..n
    OBVIOUS
  <2> HIDE DEF g
  <2> QED
    BY <2>2, <2>3
<1>2. \A m \in S : m < n => m + 1 \in S
  <2> SUFFICES ASSUME NEW m \in S, m < n
               PROVE  P(m + 1)
    OBVIOUS
  <2>1. PICK g : g = [k \in 0..m |-> IF k = 0 THEN base ELSE Op(b, c, g[k - 1], s[k])]
    OBVIOUS
  <2> DEFINE h == [k \in 0..(m + 1) |-> IF k = m + 1 THEN Op(b, c, g[m], s[m + 1]) ELSE g[k]]
  <2>2. \A k \in 0..(m + 1) : h[k] = IF k = 0 THEN base ELSE Op(b, c, h[k - 1], s[k])
    <3> SUFFICES ASSUME NEW k \in 0..(m + 1)
                 PROVE  h[k] = IF k = 0 THEN base ELSE Op(b, c, h[k - 1], s[k])
      OBVIOUS
    <3>1. CASE k = m + 1
      <4>1. m \in 0..(m + 1) /\ k - 1 = m /\ k # 0 /\ m # m + 1
        BY <3>1
      <4> QED
        BY <3>1, <4>1
    <3>2. CASE k = 0
      BY <2>1, <3>2
    <3>3. CASE k # 0 /\ k # m + 1
      <4>1. k \in 0..m /\ k - 1 \in 0..(m + 1) /\ k - 1 # m + 1
        BY <3>3
      <4>2. h[k] = g[k] /\ h[k - 1] = g[k - 1]
        BY <3>3, <4>1
      <4>3. g[k] = Op(b, c, g[k - 1], s[k])
        BY <2>1, <3>3, <4>1
      <4> QED
        BY <3>3, <4>2, <4>3
    <3> QED
      BY <3>1, <3>2, <3>3
  <2>3. h = [k \in 0..(m + 1) |-> IF k = 0 THEN base ELSE Op(b, c, h[k - 1], s[k])]
    <3>1. h = [k \in 0..(m + 1) |-> h[k]]
      OBVIOUS
    <3> HIDE DEF h
    <3> QED
      BY <2>2, <3>1
  <2> HIDE DEF h
  <2> QED
    BY <2>3
<1>3. S = 0..n
  <2> HIDE DEF S
  <2>1. S \in SUBSET (0..n)
    BY DEF S
  <2> QED
    BY <1>1, <1>2, <2>1, Counting
<1>4. n \in S
  <2> HIDE DEF S
  <2> QED
    BY <1>3
<1>5. P(n)
  <2> HIDE DEF P
  <2> QED
    BY <1>4
<1> QED
  BY <1>5

\* FoldLeft, which is defined by the elements with the highest indices of sets of
\* them, is the last of the accumulators.
LEMMA FoldIsLast ==
    ASSUME NEW b, NEW c, NEW base, NEW n \in Nat, NEW s, DOMAIN s = 1..n,
           NEW acc, Accumulates(b, c, base, n, s, acc)
    PROVE  Folded(b, c, base, s) = acc[n]
<1> USE DEF Accumulates
<1> DEFINE Iter(m, g) == g = [T \in SUBSET (1..m) |->
                                  IF T = {} THEN base ELSE Op(b, c, g[T \ {Max(T)}], s[Max(T)])]
           S == {m \in 0..n : \E g : Iter(m, g)}
<1>1. \A m \in 0..n : \A T \in SUBSET (1..m) :
         T # {} => Max(T) \in T /\ \A y \in T : y <= Max(T)
  <2> SUFFICES ASSUME NEW m \in 0..n, NEW T \in SUBSET (1..m), T # {}
               PROVE  Max(T) \in T /\ \A y \in T : y <= Max(T)
    OBVIOUS
  <2>1. T \in SUBSET (0..m) /\ m \in Nat
    OBVIOUS
  <2>2. \E x \in T : \A y \in T : y <= x
    BY <2>1, BoundedHasMax
  <2>3. \E x \in T : \A y \in T : x >= y
    BY <2>1, <2>2
  <2>4. Max(T) \in T /\ \A y \in T : Max(T) >= y
    BY <2>3, Zenon DEF Max
  <2> QED
    BY <2>1, <2>4
<1>2. \A m \in 0..n : m < n => \A T \in SUBSET (1..(m + 1)) : m + 1 \in T => Max(T) = m + 1
  <2> SUFFICES ASSUME NEW m \in 0..n, m < n, NEW T \in SUBSET (1..(m + 1)), m + 1 \in T
               PROVE  Max(T) = m + 1
    OBVIOUS
  <2>1. m + 1 \in 0..n
    OBVIOUS
  <2>2. Max(T) \in T /\ m + 1 <= Max(T)
    BY <1>1, <2>1
  <2>3. m \in Nat /\ Max(T) \in 1..(m + 1)
    <3> HIDE DEF Iter, S
    <3>1. m \in Nat
      OBVIOUS
    <3>2. Max(T) \in 1..(m + 1)
      BY <2>2, Zenon
    <3> QED
      BY <3>1, <3>2
  <2> HIDE DEF Iter, S
  <2> QED
    BY <2>2, <2>3
<1>3. S = 0..n
  <2>1. 0 \in S
    <3> DEFINE g == [T \in SUBSET (1..0) |-> base]
    <3>1. \A T \in SUBSET (1..0) : T = {}
      OBVIOUS
    <3>2. Iter(0, g)
      BY <3>1, Zenon
    <3> QED
      BY <3>2
  <2>2. \A m \in S : m < n => m + 1 \in S
    <3> SUFFICES ASSUME NEW m \in S, m < n
                 PROVE  \E g : Iter(m + 1, g)
      <4>1. \A m \in S : m \in 0..n /\ (m < n => m + 1 \in 0..n)
        OBVIOUS
      <4> HIDE DEF Iter
      <4> QED
        BY <4>1
    <3>1. PICK g : Iter(m, g)
      OBVIOUS
    <3> DEFINE h == [T \in SUBSET (1..(m + 1)) |->
                        IF m + 1 \in T THEN Op(b, c, g[T \ {m + 1}], s[m + 1]) ELSE g[T]]
    <3>2. \A T \in SUBSET (1..m) : T \in SUBSET (1..(m + 1)) /\ m + 1 \notin T
      OBVIOUS
    <3>3. \A T \in SUBSET (1..m) : h[T] = g[T]
      BY <3>2
    <3>4. ASSUME NEW T \in SUBSET (1..(m + 1))
          PROVE  h[T] = IF T = {} THEN base ELSE Op(b, c, h[T \ {Max(T)}], s[Max(T)])
      <4>1. CASE m + 1 \in T
        <5>1. Max(T) = m + 1
          BY <1>2, <4>1
        <5>2. T \ {m + 1} \in SUBSET (1..m)
          OBVIOUS
        <5>3. h[T \ {m + 1}] = g[T \ {m + 1}]
          BY <3>3, <5>2
        <5>4. h[T] = Op(b, c, g[T \ {m + 1}], s[m + 1]) /\ T # {}
          BY <4>1
        <5> QED
          BY <5>1, <5>3, <5>4, Zenon
      <4>2. CASE m + 1 \notin T
        <5>1. T \in SUBSET (1..m)
          BY <4>2
        <5>2. T \ {Max(T)} \in SUBSET (1..m)
          BY <5>1
        <5>3. h[T] = g[T] /\ h[T \ {Max(T)}] = g[T \ {Max(T)}]
          BY <3>3, <5>1, <5>2
        <5>4. g[T] = IF T = {} THEN base ELSE Op(b, c, g[T \ {Max(T)}], s[Max(T)])
          BY <3>1, <5>1, Zenon
        <5> QED
          BY <5>3, <5>4, Zenon
      <4> QED
        BY <4>1, <4>2
    <3>5. h = [T \in SUBSET (1..(m + 1)) |-> h[T]]
      OBVIOUS
    <3> HIDE DEF h
    <3>6. Iter(m + 1, h)
      BY <3>4, <3>5, Zenon
    <3> HIDE DEF Iter
    <3> QED
      BY <3>6
  <2> HIDE DEF S
  <2>3. S \in SUBSET (0..n)
    BY DEF S
  <2> QED
    BY <2>1, <2>2, <2>3, Counting
<1>4. \E g : Iter(n, g)
  <2>1. n \in S
    <3> HIDE DEF S
    <3> QED BY <1>3
  <2> QED
    BY <2>1, Zenon
<1> DEFINE It == CHOOSE g : Iter(n, g)
<1>5. Iter(n, It)
  <2> HIDE DEF Iter
  <2> QED BY <1>4, Zenon
<1>6. Folded(b, c, base, s) = It[1..n]
  BY Zenon DEF Folded, FoldLeft, MapThenFoldSet
<1> DEFINE R == {k \in 0..n : It[1..k] = acc[k]}
<1> HIDE DEF It
<1>7. R = 0..n
  <2>1. 0 \in R
    <3>1. 1..0 = {} /\ {} \in SUBSET (1..n) /\ 0 \in 0..n
      OBVIOUS
    <3>2. It[{}] = base
      BY <1>5, <3>1, Zenon
    <3>3. acc[0] = base
      BY <3>1, Zenon
    <3> QED
      BY <3>1, <3>2, <3>3
  <2>2. \A k \in R : k < n => k + 1 \in R
    <3> SUFFICES ASSUME NEW k \in R, k < n
                 PROVE  It[1..(k + 1)] = acc[k + 1]
      OBVIOUS
    <3>1. 1..(k + 1) \in SUBSET (1..n) /\ 1..(k + 1) # {} /\ (1..(k + 1)) \ {k + 1} = 1..k
      <4>1. k \in Nat /\ n \in Nat /\ k < n
        OBVIOUS
      <4> HIDE DEF R, Iter, S
      <4>2. 1..(k + 1) \in SUBSET (1..n)
        BY <4>1
      <4>3. k + 1 \in 1..(k + 1)
        BY <4>1
      <4>4. (1..(k + 1)) \ {k + 1} = 1..k
        BY <4>1
      <4> QED
        BY <4>2, <4>3, <4>4
    <3>2. Max(1..(k + 1)) = k + 1
      BY <1>2
    <3>3. It[1..(k + 1)] = Op(b, c, It[1..k], s[k + 1])
      BY <1>5, <3>1, <3>2, Zenon
    <3>4. k + 1 \in 0..n /\ k + 1 # 0 /\ (k + 1) - 1 = k
      OBVIOUS
    <3>5. acc[k + 1] = Op(b, c, acc[k], s[k + 1])
      <4>1. acc[k + 1] = Op(b, c, acc[(k + 1) - 1], s[k + 1])
        BY <3>4, Zenon
      <4> QED BY <3>4, <4>1
    <3> QED
      BY <3>3, <3>5
  <2> HIDE DEF R
  <2>3. R \in SUBSET (0..n)
    BY DEF R
  <2> QED
    BY <2>1, <2>2, <2>3, Counting
<1>8. n \in R
  <2> HIDE DEF R
  <2> QED BY <1>7
<1> QED
  BY <1>6, <1>8

\* FoldLeft one element at a time.
LEMMA FoldEmpty ==
    ASSUME NEW b, NEW c, NEW base
    PROVE  Folded(b, c, base, <<>>) = base
<1>1. PICK acc : Accumulates(b, c, base, 0, <<>>, acc)
  <2>1. 0 \in Nat
    OBVIOUS
  <2> QED
    BY <2>1, Accumulators
<1>2. 0 \in Nat /\ DOMAIN <<>> = 1..0 /\ 0 \in 0..0
  OBVIOUS
<1>3. Folded(b, c, base, <<>>) = acc[0]
  BY <1>1, <1>2, FoldIsLast
<1>4. acc[0] = base
  BY <1>1, <1>2, Zenon DEF Accumulates
<1> QED
  BY <1>3, <1>4

\* The fold of one element more is the operator on the fold.
LEMMA FoldAppend ==
    ASSUME NEW b, NEW c, NEW base, NEW S, NEW s \in Seq(S), NEW x
    PROVE  Folded(b, c, base, Append(s, x)) = Op(b, c, Folded(b, c, base, s), x)
<1> DEFINE n == Len(s)
           t == Append(s, x)
<1>1. n \in Nat /\ n + 1 \in Nat /\ DOMAIN s = 1..n
  OBVIOUS
<1>2. DOMAIN t = 1..(n + 1) /\ t[n + 1] = x /\ \A k \in 1..n : t[k] = s[k]
  OBVIOUS
<1> HIDE DEF n, t
<1>3. PICK acc : Accumulates(b, c, base, n + 1, t, acc)
  BY <1>1, Accumulators
<1> DEFINE low == [k \in 0..n |-> acc[k]]
<1>4. Accumulates(b, c, base, n, s, low)
  <2>1. \A k \in 0..n : low[k] = IF k = 0 THEN base ELSE Op(b, c, low[k - 1], s[k])
    <3> SUFFICES ASSUME NEW k \in 0..n
                 PROVE  low[k] = IF k = 0 THEN base ELSE Op(b, c, low[k - 1], s[k])
      OBVIOUS
    <3>1. k \in 0..(n + 1) /\ (k # 0 => k - 1 \in 0..n /\ k \in 1..n)
      BY <1>1
    <3>2. low[k] = acc[k] /\ (k # 0 => low[k - 1] = acc[k - 1] /\ t[k] = s[k])
      BY <1>2, <3>1
    <3>3. acc[k] = IF k = 0 THEN base ELSE Op(b, c, acc[k - 1], t[k])
      BY <1>3, <3>1, Zenon DEF Accumulates
    <3> HIDE DEF low
    <3> QED
      BY <3>2, <3>3, Zenon
  <2>2. low = [k \in 0..n |-> low[k]]
    OBVIOUS
  <2> HIDE DEF low
  <2> QED
    BY <2>1, <2>2, Zenon DEF Accumulates
<1>5. n \in 0..n /\ n + 1 \in 0..(n + 1) /\ n + 1 # 0 /\ (n + 1) - 1 = n
  BY <1>1
<1>6. low[n] = acc[n]
  BY <1>5
<1> HIDE DEF low
<1>7. Folded(b, c, base, s) = low[n]
  BY <1>1, <1>4, FoldIsLast
<1>8. Folded(b, c, base, t) = acc[n + 1]
  BY <1>1, <1>2, <1>3, FoldIsLast
<1>9. acc[n + 1] = Op(b, c, acc[n], t[n + 1])
  <2>1. acc[n + 1] = Op(b, c, acc[(n + 1) - 1], t[n + 1])
    BY <1>3, <1>5, Zenon DEF Accumulates
  <2> QED
    BY <1>5, <2>1
<1>10. Folded(b, c, base, t) = Op(b, c, Folded(b, c, base, s), x)
  BY <1>2, <1>6, <1>7, <1>8, <1>9
<1> QED
  BY <1>10 DEF t

\* So does what comes of turns without an end.
LEMMA Iterated ==
    ASSUME NEW b, NEW c, NEW base, NEW s
    PROVE  \E g : Iterates(b, c, base, s, g)
<1> DEFINE A(n) == CHOOSE acc : Accumulates(b, c, base, n, s, acc)
           g == [n \in Nat |-> A(n)[n]]
<1>1. \A n \in Nat : Accumulates(b, c, base, n, s, A(n))
  BY Accumulators, Zenon
<1> HIDE DEF A
<1>2. \A n \in Nat : A(n)[0] = base /\ \A k \in 1..n : A(n)[k] = Op(b, c, A(n)[k - 1], s[k])
  <2> SUFFICES ASSUME NEW n \in Nat
               PROVE  A(n)[0] = base /\ \A k \in 1..n : A(n)[k] = Op(b, c, A(n)[k - 1], s[k])
    OBVIOUS
  <2>1. A(n) = [k \in 0..n |-> IF k = 0 THEN base ELSE Op(b, c, A(n)[k - 1], s[k])]
    BY <1>1 DEF Accumulates
  <2>2. 0 \in 0..n /\ \A k \in 1..n : k \in 0..n /\ k # 0
    OBVIOUS
  <2>3. \A k \in 0..n : A(n)[k] = IF k = 0 THEN base ELSE Op(b, c, A(n)[k - 1], s[k])
    BY <2>1, Zenon
  <2> QED
    BY <2>2, <2>3
<1>3. ASSUME NEW n \in Nat
      PROVE  A(n + 1)[n] = A(n)[n]
  <2> DEFINE S == {k \in 0..n : A(n + 1)[k] = A(n)[k]}
  <2>1. 0 \in S
    BY <1>2
  <2>2. ASSUME NEW k \in S, k < n
        PROVE  k + 1 \in S
    <3>1. k + 1 \in 1..n /\ k + 1 \in 1..(n + 1) /\ (k + 1) - 1 = k /\ k + 1 \in 0..n /\ n + 1 \in Nat
      BY <2>2
    <3>2. A(n)[k + 1] = Op(b, c, A(n)[k], s[k + 1])
      BY <1>2, <3>1
    <3>3. A(n + 1)[k + 1] = Op(b, c, A(n + 1)[k], s[k + 1])
      BY <1>2, <3>1
    <3>4. A(n + 1)[k] = A(n)[k]
      OBVIOUS
    <3> QED
      BY <3>1, <3>2, <3>3, <3>4
  <2>3. S \in SUBSET (0..n)
    OBVIOUS
  <2> HIDE DEF S
  <2>4. S = 0..n
    BY <2>1, <2>2, <2>3, Counting
  <2>5. n \in S
    BY <2>4
  <2> QED
    BY <2>5 DEF S
<1>4. ASSUME NEW n \in Nat
      PROVE  g[n] = IF n = 0 THEN base ELSE Op(b, c, g[n - 1], s[n])
  <2>1. CASE n = 0
    BY <1>2, <2>1
  <2>2. CASE n # 0
    <3>1. PICK m \in Nat : n = m + 1
      <4>1. n - 1 \in Nat /\ n = (n - 1) + 1
        BY <2>2
      <4> QED BY <4>1
    <3>2. n \in 1..n /\ n - 1 = m
      BY <2>2, <3>1
    <3>3. A(n)[n] = Op(b, c, A(n)[m], s[n])
      BY <1>2, <3>2
    <3>4. A(n)[m] = A(m)[m]
      BY <1>3, <3>1
    <3>5. g[n] = A(n)[n] /\ g[m] = A(m)[m]
      BY <3>1
    <3> HIDE DEF g
    <3> QED
      BY <2>2, <3>2, <3>3, <3>4, <3>5
  <2> QED
    BY <2>1, <2>2
<1>5. g = [n \in Nat |-> IF n = 0 THEN base ELSE Op(b, c, g[n - 1], s[n])]
  BY <1>4, Zenon
<1> QED
  BY <1>5 DEF Iterates
=============================================================================
