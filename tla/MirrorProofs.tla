---------------------------- MODULE MirrorProofs ----------------------------
(***************************************************************************)
(* A refresh reads what a load from nothing would, for any history of      *)
(* Teams, any tables and any copies: with the tables the JS engine parsed  *)
(* before, and with the prefix of the fold the native engine kept.  Sizes  *)
(* identify tables as far as that takes: a number is given to one table    *)
(* only, and a copy of it that reads whole is that table.  What a table    *)
(* holds is read back from its bytes (FormatProofs): operations of the     *)
(* history in the order of their keys, by a worker as by the session.      *)
(***************************************************************************)
EXTENDS MirroredStore, FormatProofs, FiniteSetTheorems

-----------------------------------------------------------------------------
(* The names of the files: a set of them has a first one.                  *)

\* A number is what its digits are.
LEMMA Digit ==
    ASSUME NEW n \in Nat
    PROVE  /\ n \div Digits \in Nat /\ n % Digits \in Nat
           /\ \A m \in Nat : m \div Digits = n \div Digits /\ m % Digits = n % Digits => m = n
BY SMT, ThereAreNames

\* Names compare by the first cell, then by the second; the shorter goes first.
LEMMA LexFirst ==
    ASSUME NEW a \in Seq(Nat), NEW b \in Seq(Nat), a # <<>>, b # <<>>, a[1] < b[1]
    PROVE  LexBefore(a, b)
<1>1. 1 \in DOMAIN a \cap DOMAIN b
  OBVIOUS
<1>2. SubSeq(a, 1, 1 - 1) = SubSeq(b, 1, 1 - 1)
  OBVIOUS
<1> QED
  BY <1>1, <1>2 DEF LexBefore

\* With equal first cells the second decides.
LEMMA LexSecond ==
    ASSUME NEW x \in Nat, NEW y \in Nat, NEW z \in Nat, y < z
    PROVE  LexBefore(<<x, y>>, <<x, z>>)
<1> DEFINE a == <<x, y>>
           b == <<x, z>>
<1>1. 2 \in DOMAIN a \cap DOMAIN b /\ a[2] < b[2]
  OBVIOUS
<1>2. SubSeq(a, 1, 2 - 1) = SubSeq(b, 1, 2 - 1)
  OBVIOUS
<1> HIDE DEF a, b
<1>3. LexBefore(a, b)
  BY <1>1, <1>2 DEF LexBefore
<1> QED
  BY <1>3 DEF a, b

\* Of a name and a longer one that begins with it, the shorter goes first.
LEMMA LexShorter ==
    ASSUME NEW x \in Nat, NEW y \in Nat
    PROVE  LexBefore(<<x>>, <<x, y>>)
<1>1. IsPrefix(<<x>>, <<x, y>>) /\ <<x>> # <<x, y>>
  BY DEF IsPrefix
<1> QED
  BY <1>1 DEF LexBefore, IsStrictPrefix

\* Of any files one sorts before all others.
LEMMA FirstFileOf ==
    ASSUME NEW T \in SUBSET Nat, T # {}
    PROVE  \E x \in T : \A y \in T \ {x} : LexBefore(NameOf(x), NameOf(y))
<1> DEFINE F(n) == IF n < Digits THEN n ELSE n \div Digits
<1>1. \A n \in Nat : F(n) \in Nat
  BY Digit, ThereAreNames
<1>2. \A n \in Nat : NameOf(n) = IF n < Digits THEN <<F(n)>> ELSE <<F(n), n % Digits>>
  BY Zenon DEF NameOf
<1>3. \A n \in Nat : NameOf(n) \in Seq(Nat) /\ NameOf(n) # <<>> /\ NameOf(n)[1] = F(n)
  <2> SUFFICES ASSUME NEW n \in Nat
               PROVE  NameOf(n) \in Seq(Nat) /\ NameOf(n) # <<>> /\ NameOf(n)[1] = F(n)
    OBVIOUS
  <2>1. F(n) \in Nat /\ n % Digits \in Nat
    BY <1>1, Digit
  <2>2. NameOf(n) = <<F(n)>> \/ NameOf(n) = <<F(n), n % Digits>>
    BY <1>2
  <2>3. \A v, w \in Nat :
           /\ <<v>> \in Seq(Nat) /\ <<v>> # <<>> /\ <<v>>[1] = v
           /\ <<v, w>> \in Seq(Nat) /\ <<v, w>> # <<>> /\ <<v, w>>[1] = v
    OBVIOUS
  <2> HIDE DEF F
  <2> QED
    BY <2>1, <2>2, <2>3, Zenon
<1>4. \A m, n \in Nat : m < Digits /\ n < Digits /\ F(m) = F(n) => m = n
  OBVIOUS
<1>5. \A m, n \in Nat : ~ (m < Digits) /\ ~ (n < Digits) /\ F(m) = F(n) /\ m % Digits = n % Digits => m = n
  BY Digit
<1> HIDE DEF F
<1>6. PICK a \in T : \A y \in T : F(a) <= F(y)
  <2> DEFINE V == {F(y) : y \in T}
  <2>1. V \in SUBSET Nat /\ V # {}
    BY <1>1
  <2>2. PICK v \in V : \A w \in V : v <= w
    <3> HIDE DEF V
    <3> QED BY <2>1, HasMin
  <2> QED
    BY <2>2
<1>7. \A x, y \in T : F(x) < F(y) => LexBefore(NameOf(x), NameOf(y))
  BY <1>3, LexFirst
<1>8. CASE \E x \in T : x < Digits /\ F(x) = F(a)
  <2>1. PICK x \in T : x < Digits /\ F(x) = F(a)
    BY <1>8
  <2>2. ASSUME NEW y \in T \ {x}
        PROVE  LexBefore(NameOf(x), NameOf(y))
    <3>1. F(x) <= F(y) /\ F(x) \in Nat /\ F(y) \in Nat
      BY <1>1, <1>6, <2>1
    <3>2. CASE F(x) < F(y)
      BY <1>7, <3>2
    <3>3. CASE F(x) = F(y)
      <4>1. ~ (y < Digits)
        BY <1>4, <2>1, <3>3
      <4>2. NameOf(x) = <<F(x)>> /\ NameOf(y) = <<F(x), y % Digits>>
        BY <1>2, <2>1, <3>3, <4>1
      <4>3. y % Digits \in Nat
        BY Digit
      <4> QED
        BY <3>1, <4>2, <4>3, LexShorter
    <3> QED
      BY <3>1, <3>2, <3>3
  <2> QED
    BY <2>2
<1>9. CASE ~ \E x \in T : x < Digits /\ F(x) = F(a)
  <2> DEFINE U == {y \in T : F(y) = F(a)}
             V == {y % Digits : y \in U}
  <2>1. V \in SUBSET Nat /\ V # {}
    BY Digit
  <2>2. PICK v \in V : \A w \in V : v <= w
    <3> HIDE DEF V
    <3> QED BY <2>1, HasMin
  <2>3. PICK x \in U : \A y \in U : x % Digits <= y % Digits
    BY <2>2
  <2>4. ASSUME NEW y \in T \ {x}
        PROVE  LexBefore(NameOf(x), NameOf(y))
    <3>1. F(x) = F(a) /\ F(x) <= F(y) /\ F(x) \in Nat /\ F(y) \in Nat
      BY <1>1, <1>6
    <3>2. CASE F(x) < F(y)
      BY <1>7, <3>2
    <3>3. CASE F(x) = F(y)
      <4>1. ~ (x < Digits) /\ ~ (y < Digits) /\ y \in U
        BY <1>9, <3>1, <3>3
      <4>2. NameOf(x) = <<F(x), x % Digits>> /\ NameOf(y) = <<F(x), y % Digits>>
        BY <1>2, <3>3, <4>1
      <4>3. x % Digits \in Nat /\ y % Digits \in Nat /\ x % Digits <= y % Digits
        BY <2>3, <4>1, Digit
      <4>4. x % Digits # y % Digits
        BY <1>5, <3>3, <4>1
      <4>5. x % Digits < y % Digits
        BY <4>3, <4>4
      <4> QED
        BY <3>1, <4>2, <4>3, <4>5, LexSecond
    <3> QED
      BY <3>1, <3>2, <3>3
  <2> QED
    BY <2>4
<1> QED
  BY <1>8, <1>9

\* The list of the tables of a directory: every element of it is one of them, and
\* every one is on it.
LEMMA FilesAreListed ==
    ASSUME NEW d, IsFiniteSet(DOMAIN d.tables), DOMAIN d.tables \in SUBSET Nat
    PROVE  /\ LdbFilesOf(d) \in Seq(DOMAIN d.tables)
           /\ \A f \in DOMAIN d.tables : \E i \in DOMAIN LdbFilesOf(d) : LdbFilesOf(d)[i] = f
<1> DEFINE S == DOMAIN d.tables
           First(T) == CHOOSE x \in T : \A y \in T \ {x} : LexBefore(NameOf(x), NameOf(y))
           F == [T \in SUBSET S |-> First(T)]
           L == CHOOSE g : g = [T \in SUBSET S |-> IF T = {} THEN <<>> ELSE <<First(T)>> \o g[T \ {First(T)}]]
<1>1. \A T \in SUBSET S : T # {} => First(T) \in T
  <2> SUFFICES ASSUME NEW T \in SUBSET S, T # {}
               PROVE  First(T) \in T
    OBVIOUS
  <2>1. \E x \in T : \A y \in T \ {x} : LexBefore(NameOf(x), NameOf(y))
    BY FirstFileOf
  <2> QED
    BY <2>1, Zenon
<1>2. LdbFilesOf(d) = L[S]
  BY Zenon DEF LdbFilesOf, Ordered
<1> HIDE DEF First
<1>3. \A T \in SUBSET S : F[T] = First(T)
  OBVIOUS
<1> HIDE DEF F, S
<1>4. \A g : ListsBy(S, F, g) <=> g = [T \in SUBSET S |-> IF T = {} THEN <<>> ELSE <<First(T)>> \o g[T \ {First(T)}]]
  <2> SUFFICES ASSUME NEW g
               PROVE  [T \in SUBSET S |-> IF T = {} THEN <<>> ELSE <<F[T]>> \o g[T \ {F[T]}]]
                        = [T \in SUBSET S |-> IF T = {} THEN <<>> ELSE <<First(T)>> \o g[T \ {First(T)}]]
    BY Zenon DEF ListsBy
  <2> QED
    BY <1>3, Zenon
<1>5. IsFiniteSet(S) /\ \A T \in SUBSET S : T # {} => F[T] \in T
  BY <1>1, <1>3 DEF S
<1>6. \E g : ListsBy(S, F, g)
  BY <1>5, HasListing
<1>7. ListsBy(S, F, L)
  <2>1. \E g : g = [T \in SUBSET S |-> IF T = {} THEN <<>> ELSE <<First(T)>> \o g[T \ {First(T)}]]
    BY <1>4, <1>6
  <2>2. L = [T \in SUBSET S |-> IF T = {} THEN <<>> ELSE <<First(T)>> \o L[T \ {First(T)}]]
    BY <2>1, Zenon
  <2> HIDE DEF L
  <2> QED
    BY <1>4, <2>2
<1> HIDE DEF L
<1>8. \A g : ListsBy(S, F, g) => g[S] \in Seq(S) /\ \A x \in S : \E i \in DOMAIN g[S] : g[S][i] = x
  BY <1>5, HasListing
<1>9. L[S] \in Seq(S) /\ \A x \in S : \E i \in DOMAIN L[S] : L[S][i] = x
  BY <1>7, <1>8
<1> QED
  BY <1>2, <1>9 DEF S

-----------------------------------------------------------------------------
(* The fold of tables in the native engine (idb.rs:97-115, 457-530).       *)

\* A turn of fold_all_ldb, and of the loop over the tables past the prefix.
FoldTurn(d, bad, acc, ns) == Native!NativeFoldTable(acc, Native!ReadOr(d, bad, ns[1]))
AdvanceTurn(d, bad, p, ns) ==
    IF p.dedup.lossy THEN p
    ELSE [covered |-> Append(p.covered, ns), some |-> p.some,
          dedup |-> Native!NativeFoldTable(p.dedup, Native!ReadOr(d, bad, ns[1]))]

Folds == INSTANCE FoldFacts WITH Op <- FoldTurn
Advances == INSTANCE FoldFacts WITH Op <- AdvanceTurn

\* fold_all_ldb is a fold of turns.
LEMMA FoldAllIsFolded ==
    \A d, bad, now : Native!FoldAllLdb(d, bad, now) = Folds!Folded(d, bad, Native!Dedup0, now)
BY Zenon DEF Folds!Folded, Folds!FoldLeft, Folds!MapThenFoldSet, Folds!Max, FoldTurn,
             Native!FoldAllLdb, Native!FoldLeft, Native!MapThenFoldSet, Native!Max

\* So is the advance of the prefix, over the tables past it.
LEMMA AdvanceIsFolded ==
    \A d, bad, p, now :
        Native!AdvancePrefix(d, bad, p, now)
          = Advances!Folded(d, bad, p, SubSeq(now, Len(p.covered) + 1, Len(now)))
BY Zenon DEF Advances!Folded, Advances!FoldLeft, Advances!MapThenFoldSet, Advances!Max, AdvanceTurn,
             Native!AdvancePrefix, Native!FoldLeft, Native!MapThenFoldSet, Native!Max

\* No table.
LEMMA FoldAllNone ==
    \A d, bad : Native!FoldAllLdb(d, bad, <<>>) = Native!Dedup0
BY FoldAllIsFolded, Folds!FoldEmpty

\* One table more.
LEMMA FoldAllMore ==
    ASSUME NEW d, NEW bad, NEW S, NEW now \in Seq(S), NEW ns
    PROVE  Native!FoldAllLdb(d, bad, Append(now, ns)) = FoldTurn(d, bad, Native!FoldAllLdb(d, bad, now), ns)
BY FoldAllIsFolded, Folds!FoldAppend

\* A fold is lossy if it was or if the table is.
LEMMA LossyTurn ==
    ASSUME NEW d, NEW bad, NEW acc, NEW ns
    PROVE  FoldTurn(d, bad, acc, ns).lossy <=> acc.lossy \/ Native!ReadOr(d, bad, ns[1]).lossy
BY Zenon DEF FoldTurn, Native!NativeFoldTable

\* The same of the heads of one list.
LEMMA FoldHeads ==
    ASSUME NEW d, NEW bad, NEW S, NEW now \in Seq(S), NEW k \in 0..Len(now), k < Len(now)
    PROVE  Native!FoldAllLdb(d, bad, SubSeq(now, 1, k + 1))
             = FoldTurn(d, bad, Native!FoldAllLdb(d, bad, SubSeq(now, 1, k)), now[k + 1])
<1> DEFINE h == SubSeq(now, 1, k)
<1>1. h \in Seq(S) /\ SubSeq(now, 1, k + 1) = Append(h, now[k + 1])
  BY Heads
<1> HIDE DEF h
<1>2. Native!FoldAllLdb(d, bad, Append(h, now[k + 1]))
        = FoldTurn(d, bad, Native!FoldAllLdb(d, bad, h), now[k + 1])
  BY <1>1, FoldAllMore
<1>3. Native!FoldAllLdb(d, bad, SubSeq(now, 1, k + 1))
        = FoldTurn(d, bad, Native!FoldAllLdb(d, bad, h), now[k + 1])
  BY <1>1, <1>2
<1> QED
  BY <1>3 DEF h

\* A fold that is not lossy read every table whole.
LEMMA CleanFold ==
    ASSUME NEW d, NEW bad, NEW S, NEW now \in Seq(S), ~ Native!FoldAllLdb(d, bad, now).lossy
    PROVE  \A i \in DOMAIN now : ~ Native!ReadOr(d, bad, now[i][1]).lossy
<1> DEFINE n == Len(now)
           F(k) == Native!FoldAllLdb(d, bad, SubSeq(now, 1, k))
           Q == {k \in 0..n : ~ F(k).lossy => \A i \in 1..k : ~ Native!ReadOr(d, bad, now[i][1]).lossy}
<1>1. 0 \in Q
  BY Heads
<1>2. \A k \in Q : k < n => k + 1 \in Q
  <2> SUFFICES ASSUME NEW k \in 0..n, k < n, ~ F(k + 1).lossy,
                      ~ F(k).lossy => \A i \in 1..k : ~ Native!ReadOr(d, bad, now[i][1]).lossy,
                      NEW i \in 1..(k + 1)
               PROVE  ~ Native!ReadOr(d, bad, now[i][1]).lossy
    <3>1. n \in Nat
      OBVIOUS
    <3> HIDE DEF F, n
    <3>2. \A k \in 0..n : k < n => k + 1 \in 0..n
      BY <3>1
    <3> QED
      BY <3>2
  <2>1. F(k + 1) = FoldTurn(d, bad, F(k), now[k + 1])
    BY FoldHeads
  <2> HIDE DEF F
  <2>2. ~ F(k).lossy /\ ~ Native!ReadOr(d, bad, now[k + 1][1]).lossy
    BY <2>1, LossyTurn, Zenon
  <2>3. i \in 1..k \/ i = k + 1
    OBVIOUS
  <2> QED
    BY <2>2, <2>3
<1>3. Q = 0..n
  <2>1. n \in Nat
    BY Heads
  <2> HIDE DEF Q, n
  <2>2. Q \in SUBSET (0..n)
    BY DEF Q
  <2> QED
    BY <1>1, <1>2, <2>1, <2>2, Counting
<1>4. n \in Q
  <2>1. n \in Nat
    BY Heads
  <2> HIDE DEF Q, n
  <2> QED BY <1>3, <2>1
<1>5. F(n) = Native!FoldAllLdb(d, bad, now) /\ DOMAIN now = 1..n
  BY Heads
<1> HIDE DEF F
<1> QED
  BY <1>4, <1>5

\* Folds over tables that read the same are the same.
LEMMA SameFold ==
    ASSUME NEW d, NEW bad, NEW e, NEW worse, NEW S, NEW now \in Seq(S),
           \A i \in DOMAIN now : Native!ReadOr(d, bad, now[i][1]) = Native!ReadOr(e, worse, now[i][1])
    PROVE  Native!FoldAllLdb(d, bad, now) = Native!FoldAllLdb(e, worse, now)
<1> DEFINE n == Len(now)
           F(k) == Native!FoldAllLdb(d, bad, SubSeq(now, 1, k))
           G(k) == Native!FoldAllLdb(e, worse, SubSeq(now, 1, k))
           Q == {k \in 0..n : F(k) = G(k)}
<1>1. n \in Nat /\ DOMAIN now = 1..n /\ F(n) = Native!FoldAllLdb(d, bad, now)
      /\ G(n) = Native!FoldAllLdb(e, worse, now)
  BY Heads
<1>2. F(0) = Native!Dedup0 /\ G(0) = Native!Dedup0
  BY Heads, FoldAllNone
<1>3. ASSUME NEW k \in 0..n, k < n
      PROVE  /\ F(k + 1) = FoldTurn(d, bad, F(k), now[k + 1])
             /\ G(k + 1) = FoldTurn(e, worse, G(k), now[k + 1])
  BY <1>3, FoldHeads
<1> HIDE DEF F, G, n
<1>4. 0 \in Q
  BY <1>1, <1>2
<1>5. \A k \in Q : k < n => k + 1 \in Q
  <2> SUFFICES ASSUME NEW k \in Q, k < n
               PROVE  F(k + 1) = G(k + 1)
    BY <1>1
  <2>1. k + 1 \in DOMAIN now
    BY <1>1
  <2>2. Native!ReadOr(d, bad, now[k + 1][1]) = Native!ReadOr(e, worse, now[k + 1][1])
    BY <2>1
  <2>3. F(k) = G(k)
    OBVIOUS
  <2>4. FoldTurn(d, bad, F(k), now[k + 1]) = FoldTurn(e, worse, G(k), now[k + 1])
    BY <2>2, <2>3, Zenon DEF FoldTurn
  <2> QED
    BY <1>3, <2>4
<1>6. Q = 0..n
  <2> HIDE DEF Q
  <2>1. Q \in SUBSET (0..n)
    BY DEF Q
  <2> QED
    BY <1>1, <1>4, <1>5, <2>1, Counting
<1>7. n \in Q
  <2> HIDE DEF Q
  <2> QED BY <1>1, <1>6
<1> QED
  BY <1>1, <1>7

\* advance_prefix: it meets a table that is lossy, or covers all of the list and
\* is the fold of it.
LEMMA AdvancesToFold ==
    ASSUME NEW d, NEW bad, NEW S, NEW now \in Seq(S), NEW covered \in Seq(S),
           Native!IsPositionalPrefix(covered, now),
           NEW p, p = [covered |-> covered, dedup |-> Native!FoldAllLdb(d, bad, covered), some |-> TRUE]
    PROVE  LET advanced == Native!AdvancePrefix(d, bad, p, now)
           IN \/ advanced.dedup.lossy
              \/ advanced = [covered |-> now, dedup |-> Native!FoldAllLdb(d, bad, now), some |-> TRUE]
<1> DEFINE n == Len(now)
           c == Len(covered)
           tail == SubSeq(now, c + 1, n)
           A(k) == Advances!Folded(d, bad, p, SubSeq(tail, 1, k))
           To(j) == [covered |-> SubSeq(now, 1, j),
                     dedup |-> Native!FoldAllLdb(d, bad, SubSeq(now, 1, j)), some |-> TRUE]
           Q == {k \in 0..(n - c) : A(k).dedup.lossy \/ A(k) = To(c + k)}
<1>1. n \in Nat /\ c \in Nat /\ c <= n /\ SubSeq(now, 1, c) = covered
  BY Heads DEF Native!IsPositionalPrefix, Native!IsPrefix
<1>2. /\ tail \in Seq(S) /\ Len(tail) = n - c /\ n - c \in Nat
      /\ \A k \in 0..(n - c) : k < n - c => tail[k + 1] = now[c + k + 1]
  BY <1>1
<1>3. Native!AdvancePrefix(d, bad, p, now) = A(n - c)
  <2>1. SubSeq(tail, 1, n - c) = tail
    <3> HIDE DEF tail
    <3> QED BY <1>2, Heads
  <2>2. p.covered = covered
    OBVIOUS
  <2>3. Native!AdvancePrefix(d, bad, p, now) = Advances!Folded(d, bad, p, tail)
    BY <2>2, AdvanceIsFolded
  <2> QED
    BY <2>1, <2>3
<1>4. A(0) = p
  <2>1. SubSeq(tail, 1, 0) = <<>>
    <3> HIDE DEF tail
    <3> QED BY <1>2, Heads
  <2> HIDE DEF tail
  <2> QED
    BY <2>1, Advances!FoldEmpty
<1>5. p = To(c)
  BY <1>1
<1>6. ASSUME NEW k \in 0..(n - c), k < n - c
      PROVE  A(k + 1) = AdvanceTurn(d, bad, A(k), now[c + k + 1])
  <2> DEFINE h == SubSeq(tail, 1, k)
  <2>1. h \in Seq(S) /\ SubSeq(tail, 1, k + 1) = Append(h, tail[k + 1])
    <3> HIDE DEF tail, n, c
    <3> QED BY <1>2, <1>6, Heads
  <2>2. tail[k + 1] = now[c + k + 1]
    BY <1>2, <1>6
  <2> HIDE DEF h, tail, n, c
  <2>3. Advances!Folded(d, bad, p, Append(h, now[c + k + 1]))
          = AdvanceTurn(d, bad, Advances!Folded(d, bad, p, h), now[c + k + 1])
    BY <2>1, Advances!FoldAppend
  <2>4. Advances!Folded(d, bad, p, SubSeq(tail, 1, k + 1))
          = AdvanceTurn(d, bad, Advances!Folded(d, bad, p, h), now[c + k + 1])
    BY <2>1, <2>2, <2>3
  <2> QED
    BY <2>4 DEF h
<1>7. ASSUME NEW j \in 0..n, j < n
      PROVE  ~ To(j).dedup.lossy => AdvanceTurn(d, bad, To(j), now[j + 1]) = To(j + 1)
  <2>1. SubSeq(now, 1, j + 1) = Append(SubSeq(now, 1, j), now[j + 1])
    BY <1>7, Heads
  <2>2. Native!FoldAllLdb(d, bad, SubSeq(now, 1, j + 1))
          = Native!NativeFoldTable(Native!FoldAllLdb(d, bad, SubSeq(now, 1, j)),
                                   Native!ReadOr(d, bad, now[j + 1][1]))
    BY <1>7, FoldHeads DEF FoldTurn
  <2> DEFINE a == SubSeq(now, 1, j)
             b == Native!FoldAllLdb(d, bad, a)
             a1 == SubSeq(now, 1, j + 1)
             b1 == Native!FoldAllLdb(d, bad, a1)
             ns == now[j + 1]
  <2>3. a1 = Append(a, ns) /\ b1 = Native!NativeFoldTable(b, Native!ReadOr(d, bad, ns[1]))
    BY <2>1, <2>2
  <2>4. To(j) = [covered |-> a, dedup |-> b, some |-> TRUE]
        /\ To(j + 1) = [covered |-> a1, dedup |-> b1, some |-> TRUE]
    OBVIOUS
  <2> HIDE DEF a, b, a1, b1, ns, To, A, Q, tail, n, c
  <2>5. To(j).dedup = b /\ To(j).covered = a
    BY <2>4
  <2>6. To(j).some = TRUE
    BY <2>4
  <2>7. To(j + 1) = [covered |-> a1, some |-> TRUE, dedup |-> b1]
    BY <2>4
  <2>8. ~ b.lossy => AdvanceTurn(d, bad, To(j), ns) = To(j + 1)
    BY <2>3, <2>5, <2>6, <2>7, Zenon DEF AdvanceTurn
  <2> QED
    BY <2>5, <2>8 DEF ns
<1> HIDE DEF A, To, tail, n, c
<1>8. 0 \in Q
  <2>1. 0 \in 0..(n - c) /\ c + 0 = c
    BY <1>1, <1>2
  <2>2. A(0) = To(c + 0)
    BY <1>4, <1>5, <2>1
  <2> QED
    BY <2>1, <2>2
<1>9. \A k \in Q : k < n - c => k + 1 \in Q
  <2> SUFFICES ASSUME NEW k \in Q, k < n - c
               PROVE  k + 1 \in 0..(n - c) /\ (A(k + 1).dedup.lossy \/ A(k + 1) = To(c + (k + 1)))
    OBVIOUS
  <2>1. k \in 0..(n - c) /\ k + 1 \in 0..(n - c) /\ c + k \in 0..n /\ c + k < n /\ c + (k + 1) = (c + k) + 1
    BY <1>1
  <2>2. A(k).dedup.lossy \/ A(k) = To(c + k)
    OBVIOUS
  <2>3. A(k + 1) = AdvanceTurn(d, bad, A(k), now[c + k + 1])
    BY <1>6
  <2>4. CASE A(k).dedup.lossy
    <3>1. A(k + 1) = A(k)
      BY <2>3, <2>4, Zenon DEF AdvanceTurn
    <3> QED
      BY <2>1, <2>4, <3>1
  <2>5. CASE ~ A(k).dedup.lossy
    <3>1. A(k) = To(c + k) /\ ~ To(c + k).dedup.lossy
      BY <2>2, <2>5
    <3>2. AdvanceTurn(d, bad, To(c + k), now[(c + k) + 1]) = To((c + k) + 1)
      BY <1>7, <2>1, <3>1
    <3> QED
      BY <2>1, <2>3, <3>1, <3>2
  <2> QED
    BY <2>4, <2>5
<1>10. Q = 0..(n - c)
  <2> HIDE DEF Q
  <2>1. Q \in SUBSET (0..(n - c))
    BY DEF Q
  <2> QED
    BY <1>2, <1>8, <1>9, <2>1, Counting
<1>11. n - c \in Q
  <2> HIDE DEF Q
  <2> QED BY <1>2, <1>10
<1>12. A(n - c).dedup.lossy \/ A(n - c) = To(n)
  <2>1. c + (n - c) = n
    BY <1>1
  <2> QED
    BY <1>11, <2>1
<1>13. To(n) = [covered |-> now, dedup |-> Native!FoldAllLdb(d, bad, now), some |-> TRUE]
  <2>1. SubSeq(now, 1, n) = now
    BY Heads DEF n
  <2> QED
    BY <2>1 DEF To
<1> QED
  BY <1>3, <1>12, <1>13

-----------------------------------------------------------------------------
(* The inductive invariant.                                                *)

\* What the writer leaves: an index, and blocks that are marked good or bad.
IsTable(t) ==
    /\ t = [blocks |-> [j \in DOMAIN t.blocks |-> t.blocks[j]], indexOk |-> TRUE]
    /\ \A j \in DOMAIN t.blocks : "ok" \in DOMAIN t.blocks[j]

Clean(f) == ~ ParseTable(dir.tables[f]).lossy

\* No file number is used twice.
NumbersOK ==
    /\ nextFile \in Nat
    /\ \A f \in DOMAIN tables \union DOMAIN dir.tables : f \in Nat /\ f < nextFile
    /\ \A f \in DOMAIN tables : IsTable(tables[f])

\* A table of the mirror is a copy of the live one of its number, if that lives.
DirOK == \A f \in DOMAIN dir.tables \intersect DOMAIN tables : dir.tables[f] \in Copies(tables[f])

\* The cache holds the parses of clean tables of the mirror, and nothing else.
CacheOK ==
    \A f \in DOMAIN ldbCache :
        /\ f \in DOMAIN dir.tables /\ Clean(f)
        /\ ldbCache[f] = [res |-> ParseTable(dir.tables[f]), size |-> SizeOf(dir.tables[f])]

\* The prefix is the cold fold of the tables it covers, all in the mirror and clean.
FoldedOK ==
    folded.some =>
        /\ folded.covered \in Seq(Range(folded.covered))
        /\ \A i \in DOMAIN folded.covered :
              \E f \in DOMAIN dir.tables :
                  Clean(f) /\ folded.covered[i] = <<f, SizeOf(dir.tables[f])>>
        /\ folded = [covered |-> folded.covered,
                     dedup |-> Native!FoldAllLdb(dir, {}, folded.covered), some |-> TRUE]

IInv == NumbersOK /\ DirOK /\ CacheOK /\ FoldedOK
-----------------------------------------------------------------------------
(* Tables and their copies.                                                *)

\* What the writer makes is a table.
LEMMA TablesAreWritten ==
    ASSUME NEW entries
    PROVE  IsTable(Table(entries))
<1> DEFINE b == BlocksOf(entries)
           t == Table(entries)
<1>1. t = [blocks |-> b, indexOk |-> TRUE] /\ t.blocks = b
  BY DEF Table
<1>2. b = [j \in DOMAIN b |-> b[j]]
  BY DEF BlocksOf
<1>3. \A j \in DOMAIN b : "ok" \in DOMAIN b[j]
  BY DEF BlocksOf
<1> HIDE DEF b, t
<1>4. t = [blocks |-> [j \in DOMAIN t.blocks |-> t.blocks[j]], indexOk |-> TRUE]
  BY <1>1, <1>2
<1>5. \A j \in DOMAIN t.blocks : "ok" \in DOMAIN t.blocks[j]
  BY <1>1, <1>3
<1>6. IsTable(t)
  BY <1>4, <1>5 DEF IsTable
<1> QED
  BY <1>6 DEF t

\* A copy that reads whole is the table itself.
LEMMA SpoiltIsLossy ==
    ASSUME NEW t, IsTable(t), NEW c \in Copies(t), ~ ParseTable(c).lossy
    PROVE  c = t
<1> DEFINE b == t.blocks
<1>1. t = [blocks |-> b, indexOk |-> TRUE] /\ b = [j \in DOMAIN b |-> b[j]]
      /\ \A j \in DOMAIN b : "ok" \in DOMAIN b[j]
  BY DEF IsTable
<1>2. c = t \/ c = Truncated(t) \/ c = Damaged(t)
  BY DEF Copies
<1>3. \A x : ~ x.indexOk => ParseTable(x).lossy
  BY DEF ParseTable
<1>4. \A x : x.indexOk => (ParseTable(x).lossy <=> \E j \in DOMAIN x.blocks : ~ x.blocks[j].ok)
  BY Zenon DEF ParseTable
<1>5. c # Truncated(t)
  <2>1. "indexOk" \in DOMAIN t
    BY <1>1
  <2>2. ~ Truncated(t).indexOk
    BY <2>1 DEF Truncated
  <2> QED
    BY <1>3, <2>2
<1> HIDE DEF b
<1>6. CASE c = Damaged(t)
  <2> DEFINE b1 == [b EXCEPT ![1] = [b[1] EXCEPT !.ok = FALSE]]
  <2>1. Damaged(t) = [blocks |-> b1, indexOk |-> TRUE]
    <3>1. Damaged(t) = [t EXCEPT !.blocks = [t.blocks EXCEPT ![1] = [t.blocks[1] EXCEPT !.ok = FALSE]]]
      BY <1>1 DEF Damaged
    <3>2. t.blocks = b
      BY <1>1
    <3>3. Damaged(t) = [t EXCEPT !.blocks = b1]
      BY <3>1, <3>2, Zenon
    <3> HIDE DEF b1
    <3> QED
      BY <1>1, <3>3
  <2>2. CASE 1 \in DOMAIN b
    <3>1. ~ b1[1].ok /\ 1 \in DOMAIN b1
      BY <1>1, <2>2
    <3> HIDE DEF b1
    <3>2. c.indexOk /\ c.blocks = b1
      BY <1>6, <2>1
    <3> QED
      BY <1>4, <3>1, <3>2
  <2>3. CASE 1 \notin DOMAIN b
    <3>1. b1 = b
      BY <1>1, <2>3
    <3> HIDE DEF b1
    <3> QED
      BY <1>1, <1>6, <2>1, <3>1
  <2> QED
    BY <2>2, <2>3
<1> QED
  BY <1>2, <1>5, <1>6

\* What a mirror consists of, if what is not copied now is a copy already.
LEMMA MirrorShape ==
    ASSUME NEW full, NEW d \in Mirrors(full),
           \A f \in DOMAIN tables : f \in Copied(full) \/ dir.tables[f] \in Copies(tables[f])
    PROVE  /\ DOMAIN d.tables = DOMAIN tables
           /\ \A f \in DOMAIN tables :
                 /\ d.tables[f] \in Copies(tables[f])
                 /\ f \notin Copied(full) => d.tables[f] = dir.tables[f]
<1>1. PICK s \in Spoiled(full) : \E n : d = Mirrored(full, s, n)
  BY DEF Mirrors, Spoiled
<1>2. \A f \in DOMAIN s : f \in Copied(full) /\ s[f] \in Copies(tables[f])
  <2>1. CASE s = <<>>
    BY <2>1
  <2>2. CASE \E f \in Copied(full) : \E t \in Copies(tables[f]) : s = [g \in {f} |-> t]
    <3>1. PICK f \in Copied(full) : \E t \in Copies(tables[f]) : s = [g \in {f} |-> t]
      BY <2>2
    <3>2. PICK t \in Copies(tables[f]) : s = [g \in {f} |-> t]
      BY <3>1
    <3>3. DOMAIN s = {f} /\ s[f] = t
      BY <3>2
    <3> QED
      BY <3>3
  <2> QED
    BY <2>1, <2>2 DEF Spoiled
<1>2a. PICK n : d = Mirrored(full, s, n)
  BY <1>1
<1>3. d.tables = [f \in DOMAIN tables |->
                    IF f \in DOMAIN s THEN s[f]
                    ELSE IF f \in Copied(full) THEN tables[f] ELSE dir.tables[f]]
  BY <1>2a DEF Mirrored
<1>4. DOMAIN d.tables = DOMAIN tables
  BY <1>3
<1>5. ASSUME NEW f \in DOMAIN tables
      PROVE  /\ d.tables[f] \in Copies(tables[f])
             /\ f \notin Copied(full) => d.tables[f] = dir.tables[f]
  <2>1. tables[f] \in Copies(tables[f])
    BY DEF Copies
  <2>2. d.tables[f] = IF f \in DOMAIN s THEN s[f]
                      ELSE IF f \in Copied(full) THEN tables[f] ELSE dir.tables[f]
    BY <1>3
  <2> QED
    BY <1>2, <2>1, <2>2
<1> QED
  BY <1>4, <1>5

\* A full build copies all.
LEMMA FullShape ==
    ASSUME NEW d \in Mirrors(TRUE)
    PROVE  /\ DOMAIN d.tables = DOMAIN tables
           /\ \A f \in DOMAIN tables : d.tables[f] \in Copies(tables[f])
<1>1. \A f \in DOMAIN tables : f \in Copied(TRUE)
  BY DEF Copied
<1> QED
  BY <1>1, MirrorShape

\* A refresh leaves what is clean as it is: its size has not changed.
LEMMA ReuseShape ==
    ASSUME NumbersOK, DirOK, NEW d \in Mirrors(FALSE)
    PROVE  /\ DOMAIN d.tables = DOMAIN tables
           /\ \A f \in DOMAIN tables : d.tables[f] \in Copies(tables[f])
           /\ \A f \in DOMAIN tables \intersect DOMAIN dir.tables :
                 Clean(f) => d.tables[f] = dir.tables[f]
<1>1. \A f \in DOMAIN tables : f \in Copied(FALSE) \/ dir.tables[f] \in Copies(tables[f])
  BY DEF Copied, DirOK
<1>2. \A f \in DOMAIN tables \intersect DOMAIN dir.tables : Clean(f) => dir.tables[f] = tables[f]
  BY SpoiltIsLossy DEF NumbersOK, DirOK, Clean
<1>3. \A f \in DOMAIN tables \intersect DOMAIN dir.tables : Clean(f) => f \notin Copied(FALSE)
  BY <1>2 DEF Copied
<1> QED
  BY <1>1, <1>3, MirrorShape

\* The mirror with an unreadable table is one of them.
LEMMA WholeIsMirror == WholeMirror \in Mirrors(FALSE)
BY DEF WholeMirror, Mirrors, Spoiled

\* The sorted list of names and sizes.
LEMMA SizesAreListed ==
    ASSUME NumbersOK, NEW d, DOMAIN d.tables = DOMAIN tables, NEW bad
    PROVE  LET now == Native!SortedLdbSizes(d, bad)
           IN /\ now \in Seq(Range(now))
              /\ \A i \in DOMAIN now : \E f \in DOMAIN tables :
                    now[i] = <<f, IF f \in bad THEN NoBytes ELSE SizeOf(d.tables[f])>>
<1> DEFINE fs == LdbFilesOf(d)
           now == Native!SortedLdbSizes(d, bad)
<1>1. DOMAIN d.tables \in SUBSET Nat /\ IsFiniteSet(DOMAIN d.tables)
  <2>1. DOMAIN d.tables \in SUBSET (0..nextFile) /\ nextFile \in Nat
    BY DEF NumbersOK
  <2>2. IsFiniteSet(0..nextFile)
    BY <2>1, FS_Interval
  <2> QED
    BY <2>1, <2>2, FS_Subset
<1>2. fs \in Seq(DOMAIN tables)
  BY <1>1, FilesAreListed
<1>3. now = [i \in DOMAIN fs |-> <<fs[i], IF fs[i] \in bad THEN NoBytes ELSE SizeOf(d.tables[fs[i]])>>]
  BY Zenon DEF Native!SortedLdbSizes
<1> HIDE DEF fs, now
<1>4. DOMAIN fs = 1..Len(fs) /\ Len(fs) \in Nat /\ \A i \in DOMAIN fs : fs[i] \in DOMAIN tables
  BY <1>2
<1>5. DOMAIN now = 1..Len(fs) /\ \A i \in DOMAIN now : now[i] \in Range(now)
  BY <1>3, <1>4 DEF Range
<1>6. now \in Seq(Range(now))
  <2>1. now \in [1..Len(fs) -> Range(now)]
    BY <1>3, <1>4, <1>5
  <2> QED
    BY <1>4, <2>1
<1>7. \A i \in DOMAIN now : \E f \in DOMAIN tables :
         now[i] = <<f, IF f \in bad THEN NoBytes ELSE SizeOf(d.tables[f])>>
  BY <1>3, <1>4, Zenon
<1> QED
  BY <1>6, <1>7 DEF now

\* What a fold reads of a table in the list.
LEMMA ReadsTable ==
    ASSUME NEW d, NEW bad, NEW f
    PROVE  /\ f \notin bad => Native!ReadOr(d, bad, f) = ParseTable(d.tables[f])
           /\ ~ Native!ReadOr(d, bad, f).lossy => f \notin bad /\ ~ ParseTable(d.tables[f]).lossy
<1>1. f \notin bad => Native!ReadOr(d, bad, f) = ParseTable(d.tables[f])
  BY DEF Native!ReadOr
<1>2. f \in bad => Native!ReadOr(d, bad, f).lossy
  BY DEF Native!ReadOr
<1> QED
  BY <1>1, <1>2

\* A file that cannot be asked has a size no clean table has.
LEMMA CleanHasSize ==
    ASSUME NEW t, ~ ParseTable(t).lossy
    PROVE  SizeOf(t) # NoBytes
<1>1. t.indexOk
  BY DEF ParseTable
<1>2. SizeOf(t).index <=> t.indexOk
  BY DEF SizeOf
<1>3. ~ NoBytes.index
  BY DEF NoBytes, SizeOf
<1> QED
  BY <1>1, <1>2, <1>3

\* The fold of a refresh is the cold fold, whatever was kept (idb.rs:457-530), and
\* what it keeps covers all of the list, or nothing.
LEMMA TablesFolded ==
    ASSUME NumbersOK, DirOK, FoldedOK, NEW d \in Mirrors(FALSE), NEW bad
    PROVE  LET now == Native!SortedLdbSizes(d, bad)
               all == Native!FoldAllLdb(d, bad, now)
               r == Native!FoldTablesReuse(d, bad, folded)
           IN /\ r.dedup = all
              /\ \/ r.folded = Native!NoPrefix
                 \/ ~ all.lossy /\ r.folded = [covered |-> now, dedup |-> all, some |-> TRUE]
<1> DEFINE now == Native!SortedLdbSizes(d, bad)
           all == Native!FoldAllLdb(d, bad, now)
           r == Native!FoldTablesReuse(d, bad, folded)
           advanced == Native!AdvancePrefix(d, bad, folded, now)
           Kept(p) == \/ p = Native!NoPrefix
                      \/ ~ all.lossy /\ p = [covered |-> now, dedup |-> all, some |-> TRUE]
           refold == folded.some /\ Native!CoveredNameVanished(folded.covered, now)
           advance == folded.some /\ Native!IsPositionalPrefix(folded.covered, now)
<1> SUFFICES r.dedup = all /\ Kept(r.folded)
  OBVIOUS
<1>1. /\ refold => r = [dedup |-> all, folded |-> Native!PrefixOf(all, now), compacted |-> TRUE]
      /\ ~ refold /\ advance /\ advanced.dedup.lossy =>
            r = [dedup |-> all, folded |-> Native!NoPrefix, compacted |-> FALSE]
      /\ ~ refold /\ advance /\ ~ advanced.dedup.lossy =>
            r = [dedup |-> advanced.dedup, folded |-> advanced, compacted |-> FALSE]
      /\ ~ refold /\ ~ advance =>
            r = [dedup |-> all, folded |-> Native!PrefixOf(all, now), compacted |-> FALSE]
  BY Zenon DEF Native!FoldTablesReuse
<1>2. Native!PrefixOf(all, now) = Native!NoPrefix
      \/ (~ all.lossy /\ Native!PrefixOf(all, now) = [covered |-> now, dedup |-> all, some |-> TRUE])
  BY Zenon DEF Native!PrefixOf
<1>3. now \in Seq(Range(now))
  <2>1. DOMAIN d.tables = DOMAIN tables
    BY ReuseShape
  <2> QED
    BY <2>1, SizesAreListed
<1>4. \A i \in DOMAIN now : \E f \in DOMAIN tables :
         now[i] = <<f, IF f \in bad THEN NoBytes ELSE SizeOf(d.tables[f])>>
  <2>1. DOMAIN d.tables = DOMAIN tables
    BY ReuseShape
  <2> QED
    BY <2>1, SizesAreListed
<1>5. ASSUME advance
      PROVE  advanced.dedup.lossy \/ advanced = [covered |-> now, dedup |-> all, some |-> TRUE]
  <2> DEFINE c == folded.covered
  <2>1. /\ c \in Seq(Range(c)) /\ Native!IsPositionalPrefix(c, now)
        /\ folded = [covered |-> c, dedup |-> Native!FoldAllLdb(dir, {}, c), some |-> TRUE]
        /\ \A i \in DOMAIN c : \E f \in DOMAIN dir.tables :
              Clean(f) /\ c[i] = <<f, SizeOf(dir.tables[f])>>
    BY <1>5 DEF FoldedOK
  <2> HIDE DEF now, c
  <2>2. c \in Seq(Range(now)) /\ \A i \in DOMAIN c : i \in DOMAIN now /\ c[i] = now[i]
    <3> DEFINE m == Len(c)
    <3>1. m \in Nat /\ Len(now) \in Nat /\ DOMAIN c = 1..m /\ DOMAIN now = 1..Len(now)
      BY <1>3, <2>1
    <3>2. m <= Len(now) /\ SubSeq(c, 1, m) = SubSeq(now, 1, m)
      BY <2>1 DEF Native!IsPositionalPrefix, Native!IsPrefix
    <3>3. SubSeq(c, 1, m) = c
      BY <2>1, Heads
    <3>4. SubSeq(now, 1, m) \in Seq(Range(now)) /\ \A i \in 1..m : SubSeq(now, 1, m)[i] = now[i]
      BY <1>3, <3>1, <3>2
    <3> QED
      BY <3>1, <3>2, <3>3, <3>4
  <2>3. ASSUME NEW i \in DOMAIN c
        PROVE  Native!ReadOr(dir, {}, c[i][1]) = Native!ReadOr(d, bad, c[i][1])
    <3>1. PICK f \in DOMAIN dir.tables : Clean(f) /\ c[i] = <<f, SizeOf(dir.tables[f])>>
      BY <2>1
    <3>2. PICK g \in DOMAIN tables :
             c[i] = <<g, IF g \in bad THEN NoBytes ELSE SizeOf(d.tables[g])>>
      BY <1>4, <2>2
    <3>3. g = f /\ (f \in bad => SizeOf(dir.tables[f]) = NoBytes)
      BY <3>1, <3>2
    <3>4. f \notin bad
      BY <3>1, <3>3, CleanHasSize DEF Clean
    <3>5. d.tables[f] = dir.tables[f]
      <4>1. f \in DOMAIN tables \intersect DOMAIN dir.tables /\ Clean(f)
        BY <3>1, <3>3
      <4> QED
        BY <4>1, ReuseShape
    <3>6. Native!ReadOr(dir, {}, f) = ParseTable(dir.tables[f])
      BY ReadsTable
    <3>7. Native!ReadOr(d, bad, f) = ParseTable(d.tables[f])
      BY <3>4, ReadsTable
    <3>8. c[i][1] = f
      BY <3>1
    <3> QED
      BY <3>5, <3>6, <3>7, <3>8
  <2>4. Native!FoldAllLdb(dir, {}, c) = Native!FoldAllLdb(d, bad, c)
    BY <2>2, <2>3, SameFold
  <2>5. folded = [covered |-> c, dedup |-> Native!FoldAllLdb(d, bad, c), some |-> TRUE]
    BY <2>1, <2>4
  <2>6. Native!AdvancePrefix(d, bad, folded, now).dedup.lossy
        \/ Native!AdvancePrefix(d, bad, folded, now)
             = [covered |-> now, dedup |-> Native!FoldAllLdb(d, bad, now), some |-> TRUE]
    <3>1. c \in Seq(Range(now)) /\ Native!IsPositionalPrefix(c, now)
      BY <2>1, <2>2
    <3> QED
      BY <1>3, <3>1, <2>5, AdvancesToFold
  <2> QED
    BY <2>6
<1> HIDE DEF all, advanced, r, refold, advance, now
<1>6. CASE refold
  <2>1. r.dedup = all /\ r.folded = Native!PrefixOf(all, now)
    BY <1>1, <1>6
  <2> QED
    BY <1>2, <2>1
<1>7. CASE ~ refold /\ ~ advance
  <2>1. r.dedup = all /\ r.folded = Native!PrefixOf(all, now)
    BY <1>1, <1>7
  <2> QED
    BY <1>2, <2>1
<1>8. CASE ~ refold /\ advance /\ advanced.dedup.lossy
  <2>1. r.dedup = all /\ r.folded = Native!NoPrefix
    BY <1>1, <1>8
  <2> QED
    BY <2>1
<1>9. CASE ~ refold /\ advance /\ ~ advanced.dedup.lossy
  <2>1. r.dedup = advanced.dedup /\ r.folded = advanced
    BY <1>1, <1>9
  <2>2. advanced = [covered |-> now, dedup |-> all, some |-> TRUE]
    BY <1>5, <1>9
  <2>3. advanced.dedup = all
    BY <2>2
  <2>4. ~ all.lossy
    BY <1>9, <2>3
  <2> QED
    BY <2>1, <2>2, <2>3, <2>4
<1> QED
  BY <1>6, <1>7, <1>8, <1>9

\* What a refresh keeps is a prefix of the mirror it read (idb.rs:523-530).
LEMMA FoldedStays ==
    ASSUME NumbersOK, DirOK, FoldedOK, NEW d \in Mirrors(FALSE), NEW bad,
           dir' = d, folded' = Native!FoldTablesReuse(d, bad, folded).folded
    PROVE  FoldedOK'
<1> DEFINE now == Native!SortedLdbSizes(d, bad)
           all == Native!FoldAllLdb(d, bad, now)
<1>1. DOMAIN d.tables = DOMAIN tables
  BY ReuseShape
<1>2. /\ now \in Seq(Range(now))
      /\ \A i \in DOMAIN now : \E f \in DOMAIN tables :
            now[i] = <<f, IF f \in bad THEN NoBytes ELSE SizeOf(d.tables[f])>>
  BY <1>1, SizesAreListed
<1>3. folded' = Native!NoPrefix
      \/ (~ all.lossy /\ folded' = [covered |-> now, dedup |-> all, some |-> TRUE])
  BY TablesFolded
<1>4. CASE folded' = Native!NoPrefix
  <2>1. ~ folded'.some
    BY <1>4 DEF Native!NoPrefix
  <2> QED
    BY <2>1 DEF FoldedOK
<1>5. CASE ~ all.lossy /\ folded' = [covered |-> now, dedup |-> all, some |-> TRUE]
  <2>1. \A i \in DOMAIN now : ~ Native!ReadOr(d, bad, now[i][1]).lossy
    BY <1>2, <1>5, CleanFold
  <2> HIDE DEF now
  <2>2. ASSUME NEW i \in DOMAIN now
        PROVE  \E f \in DOMAIN d.tables :
                  /\ f \notin bad /\ ~ ParseTable(d.tables[f]).lossy
                  /\ now[i] = <<f, SizeOf(d.tables[f])>> /\ now[i][1] = f
    <3>1. PICK f \in DOMAIN tables :
             now[i] = <<f, IF f \in bad THEN NoBytes ELSE SizeOf(d.tables[f])>>
      BY <1>2
    <3>2. now[i][1] = f
      BY <3>1
    <3>3. f \notin bad /\ ~ ParseTable(d.tables[f]).lossy
      BY <2>1, <3>2, ReadsTable
    <3> QED
      BY <1>1, <3>1, <3>2, <3>3
  <2>3. \A i \in DOMAIN now : Native!ReadOr(d, bad, now[i][1]) = Native!ReadOr(d, {}, now[i][1])
    <3> SUFFICES ASSUME NEW i \in DOMAIN now
                 PROVE  Native!ReadOr(d, bad, now[i][1]) = Native!ReadOr(d, {}, now[i][1])
      OBVIOUS
    <3>1. PICK f \in DOMAIN d.tables : f \notin bad /\ now[i][1] = f
      BY <2>2
    <3>2. f \notin {}
      OBVIOUS
    <3> QED
      BY <3>1, <3>2, ReadsTable
  <2>4. Native!FoldAllLdb(d, bad, now) = Native!FoldAllLdb(d, {}, now)
    BY <1>2, <2>3, SameFold
  <2>5. folded' = [covered |-> now, dedup |-> Native!FoldAllLdb(d, {}, now), some |-> TRUE]
    BY <1>5, <2>4
  <2>6. folded'.covered = now
    BY <2>5
  <2> QED
    BY <1>2, <2>2, <2>5, <2>6 DEF FoldedOK, Clean
<1> QED
  BY <1>3, <1>4, <1>5

-----------------------------------------------------------------------------
(* The cache of parsed tables (indexeddb.ts:66-121).                       *)

\* A hit is the parse of the table as it is now.
LEMMA HitsAreFresh ==
    ASSUME NumbersOK, DirOK, CacheOK, NEW d \in Mirrors(FALSE), NEW f \in DOMAIN d.tables,
           f \in DOMAIN ldbCache
    PROVE  /\ d.tables[f] = dir.tables[f] /\ ~ ParseTable(d.tables[f]).lossy
           /\ ldbCache[f] = [res |-> ParseTable(d.tables[f]), size |-> SizeOf(d.tables[f])]
<1>1. f \in DOMAIN dir.tables /\ Clean(f)
      /\ ldbCache[f] = [res |-> ParseTable(dir.tables[f]), size |-> SizeOf(dir.tables[f])]
  BY DEF CacheOK
<1>2. f \in DOMAIN tables \intersect DOMAIN dir.tables
  BY <1>1, ReuseShape
<1>3. d.tables[f] = dir.tables[f]
  BY <1>1, <1>2, ReuseShape
<1> QED
  BY <1>1, <1>3 DEF Clean

\* Whatever is in the cache, a table is read as without it.
LEMMA LooksUpFresh ==
    ASSUME NumbersOK, DirOK, CacheOK, NEW d \in Mirrors(FALSE), NEW f \in DOMAIN d.tables
    PROVE  Lookup(d, {}, ldbCache, f).res = ReadAndParse(d, {}, f)
<1> DEFINE hit == f \in DOMAIN ldbCache /\ f \notin {} /\ ldbCache[f].size = SizeOf(d.tables[f])
<1>1. Lookup(d, {}, ldbCache, f).res = IF hit THEN ldbCache[f].res ELSE ReadAndParse(d, {}, f)
  BY Zenon DEF Lookup
<1>2. CASE hit
  <2>1. ldbCache[f].res = ParseTable(d.tables[f])
    <3>1. ldbCache[f] = [res |-> ParseTable(d.tables[f]), size |-> SizeOf(d.tables[f])]
      BY <1>2, HitsAreFresh
    <3> QED
      BY <3>1
  <2>2. ReadAndParse(d, {}, f) = ParseTable(d.tables[f])
    BY DEF ReadAndParse
  <2> QED
    BY <1>1, <1>2, <2>1, <2>2
<1>3. CASE ~ hit
  BY <1>1, <1>3
<1> QED
  BY <1>2, <1>3

\* What a refresh leaves in the cache is clean and of the mirror.
LEMMA CacheStays ==
    ASSUME NumbersOK, DirOK, CacheOK, NEW d \in Mirrors(FALSE), NEW bad,
           dir' = d, ldbCache' = CacheAfter(d, bad, ldbCache)
    PROVE  CacheOK'
<1> DEFINE E == [f \in DOMAIN d.tables |-> Lookup(d, bad, ldbCache, f).entry]
<1>1. \A f \in DOMAIN ldbCache' :
         f \in DOMAIN d.tables /\ E[f] # NoEntry /\ ldbCache'[f] = E[f]
  <2>1. ldbCache' = [f \in {x \in DOMAIN E : E[x] # NoEntry} |-> E[f]]
    BY Zenon DEF CacheAfter, RestrictValues, Restrict
  <2> HIDE DEF E
  <2>2. DOMAIN E = DOMAIN d.tables
    BY DEF E
  <2> QED
    BY <2>1, <2>2
<1>2. ASSUME NEW f \in DOMAIN ldbCache'
      PROVE  /\ ~ ParseTable(d.tables[f]).lossy
             /\ ldbCache'[f] = [res |-> ParseTable(d.tables[f]), size |-> SizeOf(d.tables[f])]
  <2> DEFINE size == SizeOf(d.tables[f])
             hit == f \in DOMAIN ldbCache /\ f \notin bad /\ ldbCache[f].size = size
             res == IF hit THEN ldbCache[f].res ELSE ReadAndParse(d, bad, f)
  <2>1. f \in DOMAIN d.tables /\ ldbCache'[f] # NoEntry
        /\ ldbCache'[f] = Lookup(d, bad, ldbCache, f).entry
    BY <1>1
  <2>2. Lookup(d, bad, ldbCache, f).entry
          = IF ~ hit /\ ~ res.lossy THEN [res |-> res, size |-> size]
            ELSE IF f \in DOMAIN ldbCache THEN ldbCache[f] ELSE NoEntry
    BY Zenon DEF Lookup
  <2>3. CASE f \in DOMAIN ldbCache /\ ldbCache'[f] = ldbCache[f]
    BY <2>1, <2>3, HitsAreFresh
  <2>4. CASE ~ hit /\ ~ res.lossy /\ ldbCache'[f] = [res |-> res, size |-> size]
    <3>1. res = ReadAndParse(d, bad, f)
      BY <2>4
    <3>2. res = Unread \/ res = ParseTable(d.tables[f])
      BY <3>1 DEF ReadAndParse
    <3>3. Unread.lossy
      BY DEF Unread
    <3> HIDE DEF res, hit
    <3>4. res = ParseTable(d.tables[f])
      BY <2>4, <3>2, <3>3
    <3> QED
      BY <2>4, <3>4
  <2> HIDE DEF hit, res, size
  <2> QED
    BY <2>1, <2>2, <2>3, <2>4
<1> QED
  BY <1>1, <1>2 DEF CacheOK, Clean

-----------------------------------------------------------------------------
(* The steps.                                                              *)

\* With the directory and what was kept of it unchanged, only the tables matter.
LEMMA TeamsKeepTheCaches ==
    ASSUME IInv, UNCHANGED <<dir, ldbCache, folded>>
    PROVE  CacheOK' /\ FoldedOK'
BY DEF IInv, CacheOK, FoldedOK, Clean

\* A flush or a compaction: its table has a number no copy has.
LEMMA NewTable ==
    ASSUME IInv, NEW entries, tables' = TablesWith(Table(entries)), nextFile' = nextFile + 1,
           UNCHANGED <<dir, ldbCache, folded>>
    PROVE  IInv'
<1>1. /\ nextFile \in Nat
      /\ \A f \in DOMAIN tables \union DOMAIN dir.tables : f \in Nat /\ f < nextFile
      /\ \A f \in DOMAIN tables : IsTable(tables[f])
  BY DEF IInv, NumbersOK
<1>2. /\ DOMAIN tables' = DOMAIN tables \union {nextFile}
      /\ \A f \in DOMAIN tables' : tables'[f] = IF f = nextFile THEN Table(entries) ELSE tables[f]
  BY DEF TablesWith
<1>3. NumbersOK'
  <2>1. nextFile' \in Nat /\ \A f \in DOMAIN tables' \union DOMAIN (dir').tables : f \in Nat /\ f < nextFile'
    BY <1>1, <1>2
  <2>2. \A f \in DOMAIN tables' : IsTable(tables'[f])
    BY <1>1, <1>2, TablesAreWritten
  <2> QED
    BY <2>1, <2>2 DEF NumbersOK
<1>4. DirOK'
  <2>1. ASSUME NEW f \in DOMAIN dir.tables \intersect DOMAIN tables'
        PROVE  dir.tables[f] \in Copies(tables'[f])
    <3>1. f # nextFile
      BY <1>1
    <3>2. f \in DOMAIN tables /\ tables'[f] = tables[f]
      BY <1>2, <3>1
    <3> QED
      BY <3>2 DEF IInv, DirOK
  <2> QED
    BY <2>1 DEF DirOK
<1> QED
  BY <1>3, <1>4, TeamsKeepTheCaches DEF IInv

\* A step that leaves the tables, or takes some away.
LEMMA FewerTables ==
    ASSUME IInv, DOMAIN tables' \subseteq DOMAIN tables,
           \A f \in DOMAIN tables' : tables'[f] = tables[f],
           UNCHANGED <<nextFile, dir, ldbCache, folded>>
    PROVE  IInv'
<1>1. NumbersOK'
  BY DEF IInv, NumbersOK
<1>2. DirOK'
  BY DEF IInv, DirOK
<1> QED
  BY <1>1, <1>2, TeamsKeepTheCaches DEF IInv

\* After a load the mirror holds copies of the live tables.
LEMMA LoadsMirror ==
    ASSUME IInv, NEW d, dir' = d, UNCHANGED <<tables, nextFile>>,
           DOMAIN d.tables = DOMAIN tables,
           \A f \in DOMAIN tables : d.tables[f] \in Copies(tables[f])
    PROVE  NumbersOK' /\ DirOK'
<1>1. NumbersOK'
  BY DEF IInv, NumbersOK
<1>2. DirOK'
  BY DEF IInv, DirOK
<1> QED
  BY <1>1, <1>2

\* The mirror a refresh reads, unreadable tables or not.
LEMMA ReuseMirrors ==
    ASSUME NEW bad, ReuseLoad(bad)
    PROVE  \E d \in Mirrors(FALSE) :
              /\ dir' = d /\ loaded' = "reuse"
              /\ ldbCache' = CacheAfter(d, bad, ldbCache)
              /\ folded' = Native!FoldTablesReuse(d, bad, folded).folded
              /\ UNCHANGED teams
BY WholeIsMirror DEF ReuseLoad

\* IInv holds of Init and is kept by every step of Teams and of the session: a
\* table number names one table for good, a copy that reads whole is that table,
\* and what both engines keep of a load was read from copies like that.
THEOREM Inductive == Spec => []IInv
<1>1. Init => IInv
  <2> SUFFICES ASSUME Init
               PROVE  IInv
    OBVIOUS
  <2>1. /\ tables = <<>> /\ nextFile = FirstFile /\ ldbCache = <<>>
        /\ dir = [tables |-> <<>>, log |-> <<>>] /\ folded = Native!NoPrefix
    BY DEF Init, NoTables
  <2>2. DOMAIN tables = {} /\ DOMAIN dir.tables = {} /\ DOMAIN ldbCache = {}
    BY <2>1
  <2>3. ~ folded.some
    BY <2>1 DEF Native!NoPrefix
  <2>4. NumbersOK
    BY <2>1, <2>2, FilesAreNumbered DEF NumbersOK
  <2>5. DirOK /\ CacheOK
    BY <2>2 DEF DirOK, CacheOK
  <2>6. FoldedOK
    BY <2>3 DEF FoldedOK
  <2> QED
    BY <2>4, <2>5, <2>6 DEF IInv
<1>2. IInv /\ [Next]_vars => IInv'
  <2> SUFFICES ASSUME IInv, [Next]_vars
               PROVE  IInv'
    OBVIOUS
  <2>1. ASSUME NEW b \in Batches, Write(b)
        PROVE  IInv'
    BY <2>1, FewerTables DEF Write
  <2>2. CASE Flush
    BY <2>2, NewTable DEF Flush
  <2>3. CASE RemoveLog
    BY <2>3, FewerTables DEF RemoveLog
  <2>4. CASE Compact
    BY <2>4, NewTable DEF Compact
  <2>5. CASE RemoveObsolete
    <3>1. tables' = [f \in DOMAIN tables \ obsolete |-> tables[f]]
      BY <2>5 DEF RemoveObsolete, Restrict
    <3>2. UNCHANGED <<nextFile, dir, ldbCache, folded>>
      BY <2>5 DEF RemoveObsolete
    <3>3. DOMAIN tables' \subseteq DOMAIN tables /\ \A f \in DOMAIN tables' : tables'[f] = tables[f]
      BY <3>1
    <3> QED
      BY <3>2, <3>3, FewerTables
  <2>6. CASE FullLoad
    <3>1. PICK d \in Mirrors(TRUE) :
             dir' = d /\ ldbCache' = <<>> /\ folded' = Native!NoPrefix /\ UNCHANGED teams
      BY <2>6 DEF FullLoad
    <3>2. NumbersOK' /\ DirOK'
      BY <3>1, FullShape, LoadsMirror DEF teams
    <3>3. DOMAIN ldbCache' = {}
      BY <3>1
    <3>4. ~ folded'.some
      BY <3>1 DEF Native!NoPrefix
    <3>5. CacheOK' /\ FoldedOK'
      BY <3>3, <3>4 DEF CacheOK, FoldedOK
    <3> QED
      BY <3>2, <3>5 DEF IInv
  <2>7. ASSUME NEW bad \in Unreadable, ReuseLoad(bad)
        PROVE  IInv'
    <3>1. PICK d \in Mirrors(FALSE) :
             /\ dir' = d /\ UNCHANGED teams
             /\ ldbCache' = CacheAfter(d, bad, ldbCache)
             /\ folded' = Native!FoldTablesReuse(d, bad, folded).folded
      BY <2>7, ReuseMirrors
    <3>2. NumbersOK /\ DirOK /\ CacheOK /\ FoldedOK
      BY DEF IInv
    <3>3. NumbersOK' /\ DirOK'
      BY <3>1, <3>2, ReuseShape, LoadsMirror DEF teams
    <3>4. CacheOK'
      BY <3>1, <3>2, CacheStays
    <3>5. FoldedOK'
      BY <3>1, <3>2, FoldedStays
    <3> QED
      BY <3>3, <3>4, <3>5 DEF IInv
  <2>8. CASE UNCHANGED vars
    BY <2>8, FewerTables DEF vars
  <2> QED
    BY <2>1, <2>2, <2>3, <2>4, <2>5, <2>6, <2>7, <2>8 DEF Next
<1> QED
  BY <1>1, <1>2, PTL DEF Spec

\* Only a refresh sets ReusedNow.
LEMMA ReusedMirror ==
    ASSUME [Next]_vars, ReusedNow
    PROVE  dir' \in Mirrors(FALSE)
<1>1. dir' # dir /\ loaded' = "reuse"
  BY DEF ReusedNow
<1>2. CASE FullLoad
  BY <1>1, <1>2 DEF FullLoad
<1>3. ASSUME NEW bad \in Unreadable, ReuseLoad(bad)
      PROVE  dir' \in Mirrors(FALSE)
  BY <1>3, ReuseMirrors
<1>4. (\E b \in Batches : Write(b)) \/ Flush \/ RemoveLog \/ Compact \/ RemoveObsolete \/ UNCHANGED vars
        => dir' = dir
  BY DEF Write, Flush, RemoveLog, Compact, RemoveObsolete, vars
<1> QED
  BY <1>1, <1>2, <1>3, <1>4 DEF Next

\* A refresh with the cache of parsed tables comes to what it comes to without,
\* however many tables and batches there are, wherever a copy was cut or went bad
\* and whatever could not be read before (indexeddb.ts:66-121).
THEOREM ReuseIsFreshCorrect == Spec => ReuseIsFresh
<1>1. IInv /\ [Next]_vars =>
        [ReusedNow => LoadSnapshotReuse(dir', {}, ldbCache) = LoadSnapshot(dir', {})]_vars
  <2> SUFFICES ASSUME IInv, [Next]_vars, ReusedNow
               PROVE  LoadSnapshotReuse(dir', {}, ldbCache) = LoadSnapshot(dir', {})
    OBVIOUS
  <2>1. PICK d : d = dir'
    OBVIOUS
  <2>2. d \in Mirrors(FALSE)
    BY <2>1, ReusedMirror
  <2>3. \A f \in DOMAIN d.tables : Lookup(d, {}, ldbCache, f).res = ReadAndParse(d, {}, f)
    BY <2>2, LooksUpFresh DEF IInv
  <2>4. [f \in DOMAIN d.tables |-> Lookup(d, {}, ldbCache, f).res]
          = [f \in DOMAIN d.tables |-> ReadAndParse(d, {}, f)]
    BY <2>3, Zenon
  <2>5. LoadSnapshotReuse(d, {}, ldbCache) = LoadSnapshot(d, {})
    BY <2>4, Zenon DEF LoadSnapshotReuse, LoadSnapshot, BuildDedupMap
  <2> QED
    BY <2>1, <2>5
<1> QED
  BY <1>1, Inductive, PTL DEF Spec, ReuseIsFresh

\* A refresh of the native engine that goes on from the prefix it kept reads what a
\* cold one reads, order included, and so does one whose prefix no longer fits
\* (idb.rs:457-530).
THEOREM PrefixIsColdFoldCorrect == Spec => PrefixIsColdFold
<1>1. IInv /\ [Next]_vars =>
        [ReusedNow => Native!NativeLoadReuse(dir', {}, folded) = Native!NativeLoad(dir', {})]_vars
  <2> SUFFICES ASSUME IInv, [Next]_vars, ReusedNow
               PROVE  Native!NativeLoadReuse(dir', {}, folded) = Native!NativeLoad(dir', {})
    OBVIOUS
  <2>1. PICK d : d = dir'
    OBVIOUS
  <2>2. d \in Mirrors(FALSE)
    BY <2>1, ReusedMirror
  <2>3. Native!FoldTablesReuse(d, {}, folded).dedup
          = Native!FoldAllLdb(d, {}, Native!SortedLdbSizes(d, {}))
    BY <2>2, TablesFolded DEF IInv
  <2>4. Native!NativeLoadReuse(d, {}, folded) = Native!NativeLoad(d, {})
    BY <2>3, Zenon DEF Native!NativeLoadReuse, Native!NativeLoad
  <2> QED
    BY <2>1, <2>4
<1> QED
  BY <1>1, Inductive, PTL DEF Spec, PrefixIsColdFold

-----------------------------------------------------------------------------
(* What the log reads as, at every cut.                                    *)

\* The operations of the first n batches of a history, and what its log holds if
\* the first k are no longer in it.
WrittenOf(h, n) == Len(OpsOf(SubSeq(h, 1, n)))
InLog(h, k) == [i \in 1..(Len(h) - k) |-> BatchOf(WrittenOf(h, k + i - 1) + 1, h[k + i])]

\* One batch more is as many operations more as it has.
LEMMA WrittenMore ==
    ASSUME NEW h \in Seq(Batch), NEW n \in 0..Len(h)
    PROVE  /\ WrittenOf(h, n) \in Nat
           /\ n < Len(h) => WrittenOf(h, n + 1) > WrittenOf(h, n)
<1>1. h \in Seq(Seq(Operation))
  BY DEF Batch
<1>2. \A k \in 0..Len(h) : SubSeq(h, 1, k) \in Seq(Seq(Operation))
  BY <1>1, Heads
<1>3. \A s \in Seq(Seq(Operation)) : FlattenSeq(s) \in Seq(Operation)
  <2> SUFFICES ASSUME NEW s \in Seq(Seq(Operation))
               PROVE  FlattenSeq(s) \in Seq(Operation)
    OBVIOUS
  <2>1. <<>> \in Seq(Operation)
    OBVIOUS
  <2> QED
    BY <2>1, FlattenAppend
<1>4. WrittenOf(h, n) \in Nat
  BY <1>2, <1>3, LenProperties DEF WrittenOf, OpsOf
<1>5. ASSUME n < Len(h)
      PROVE  WrittenOf(h, n + 1) > WrittenOf(h, n)
  <2> DEFINE a == SubSeq(h, 1, n)
             x == h[n + 1]
  <2>1. SubSeq(h, 1, n + 1) = Append(a, x) /\ x \in Batch /\ a \in Seq(Seq(Operation))
    BY <1>2, <1>5, Heads
  <2>2. x \in Seq(Operation) /\ Len(x) \in Nat /\ Len(x) > 0
    BY <2>1 DEF Batch
  <2> HIDE DEF a, x
  <2>3. FlattenSeq(Append(a, x)) = FlattenSeq(a) \o x
    BY <2>1, <2>2, FlattenMore
  <2>4. FlattenSeq(a) \in Seq(Operation)
    BY <1>3, <2>1
  <2>5. Len(FlattenSeq(a) \o x) = Len(FlattenSeq(a)) + Len(x) /\ Len(FlattenSeq(a)) \in Nat
    BY <2>2, <2>4, ConcatProperties, LenProperties
  <2>6. WrittenOf(h, n) = Len(FlattenSeq(a))
    BY DEF WrittenOf, OpsOf, a
  <2>7. WrittenOf(h, n + 1) = Len(FlattenSeq(a) \o x)
    BY <2>1, <2>3 DEF WrittenOf, OpsOf
  <2> QED
    BY <2>2, <2>5, <2>6, <2>7
<1> QED
  BY <1>4, <1>5

\* Any number of them too.
LEMMA WrittenGrows ==
    ASSUME NEW h \in Seq(Batch), NEW n \in 0..Len(h), n < Len(h)
    PROVE  WrittenOf(h, n) < WrittenOf(h, Len(h))
<1> DEFINE N == Len(h) - (n + 1)
           A == {k \in 0..N : WrittenOf(h, n) < WrittenOf(h, n + 1 + k)}
<1>1. N \in Nat /\ n \in Nat /\ n + 1 + N = Len(h) /\ \A k \in 0..N : n + 1 + k \in 0..Len(h)
  OBVIOUS
<1>2. 0 \in A
  <2>1. 0 \in 0..N /\ n + 1 + 0 = n + 1
    BY <1>1
  <2>2. WrittenOf(h, n + 1) > WrittenOf(h, n) /\ WrittenOf(h, n) \in Nat /\ WrittenOf(h, n + 1) \in Nat
    BY <1>1, <2>1, WrittenMore
  <2> HIDE DEF N
  <2> QED
    BY <2>1, <2>2
<1>3. \A k \in A : k < N => k + 1 \in A
  <2> SUFFICES ASSUME NEW k \in A, k < N
               PROVE  k + 1 \in A
    OBVIOUS
  <2> DEFINE m == n + 1 + k
  <2>1. m \in 0..Len(h) /\ m < Len(h) /\ n + 1 + (k + 1) = m + 1 /\ k + 1 \in 0..N /\ m + 1 \in 0..Len(h)
    BY <1>1
  <2> HIDE DEF m, N
  <2>2. WrittenOf(h, m + 1) > WrittenOf(h, m) /\ WrittenOf(h, m) \in Nat /\ WrittenOf(h, m + 1) \in Nat
    BY <2>1, WrittenMore
  <2>3. WrittenOf(h, n) \in Nat /\ WrittenOf(h, n) < WrittenOf(h, m)
    BY WrittenMore DEF m
  <2> QED
    BY <2>1, <2>2, <2>3
<1>4. A = 0..N
  <2> HIDE DEF N
  <2>1. A \in SUBSET (0..N)
    OBVIOUS
  <2> HIDE DEF A
  <2> QED
    BY <1>1, <1>2, <1>3, <2>1, Counting
<1>5. N \in A
  <2> HIDE DEF A
  <2> QED BY <1>1, <1>4
<1> QED
  BY <1>1, <1>5

\* With one batch more, so has the log.
LEMMA InLogMore ==
    ASSUME NEW h \in Seq(Batch), NEW k \in 0..Len(h), NEW b \in Batch
    PROVE  /\ Append(h, b) \in Seq(Batch) /\ Len(Append(h, b)) = Len(h) + 1
           /\ \A n \in 0..Len(h) : WrittenOf(Append(h, b), n) = WrittenOf(h, n)
           /\ InLog(Append(h, b), k) = Append(InLog(h, k), BatchOf(WrittenOf(h, Len(h)) + 1, b))
<1> DEFINE g == Append(h, b)
           n == Len(h) - k
           x == BatchOf(WrittenOf(h, Len(h)) + 1, b)
           a == InLog(h, k)
<1>1. g \in Seq(Batch) /\ Len(g) = Len(h) + 1 /\ g[Len(h) + 1] = b /\ \A i \in 1..Len(h) : g[i] = h[i]
  OBVIOUS
<1>2. Len(h) \in Nat /\ k \in Nat /\ n \in Nat /\ n + k = Len(h)
  OBVIOUS
<1> HIDE DEF g, n
<1>3. \A m \in 0..Len(h) : WrittenOf(g, m) = WrittenOf(h, m)
  <2> SUFFICES ASSUME NEW m \in 0..Len(h)
               PROVE  WrittenOf(g, m) = WrittenOf(h, m)
    OBVIOUS
  <2>1. Begins(h, g)
    BY <1>1, <1>2 DEF Begins
  <2>2. SubSeq(g, 1, m) = SubSeq(h, 1, m)
    BY <1>1, <2>1, HeadsStay
  <2> QED
    BY <2>2 DEF WrittenOf
<1> HIDE DEF x
<1>4. a = [i \in 1..n |-> BatchOf(WrittenOf(h, k + i - 1) + 1, h[k + i])]
  BY DEF InLog, n
<1>5. InLog(g, k) = [i \in 1..(n + 1) |-> BatchOf(WrittenOf(g, k + i - 1) + 1, g[k + i])]
  <2>1. Len(g) - k = n + 1
    BY <1>1, <1>2
  <2> QED
    BY <2>1 DEF InLog
<1>6. \A i \in 1..n : BatchOf(WrittenOf(g, k + i - 1) + 1, g[k + i]) = BatchOf(WrittenOf(h, k + i - 1) + 1, h[k + i])
  <2> SUFFICES ASSUME NEW i \in 1..n
               PROVE  WrittenOf(g, k + i - 1) = WrittenOf(h, k + i - 1) /\ g[k + i] = h[k + i]
    OBVIOUS
  <2>1. k + i - 1 \in 0..Len(h) /\ k + i \in 1..Len(h)
    BY <1>2
  <2> QED
    BY <1>1, <1>3, <2>1
<1>7. BatchOf(WrittenOf(g, k + (n + 1) - 1) + 1, g[k + (n + 1)]) = x
  <2>1. k + (n + 1) - 1 = Len(h) /\ k + (n + 1) = Len(h) + 1 /\ Len(h) \in 0..Len(h)
    BY <1>2
  <2> QED
    BY <1>1, <1>3, <2>1 DEF x
<1>8. InLog(g, k) = Append(a, x)
  <2> DEFINE V(i) == BatchOf(WrittenOf(g, k + i - 1) + 1, g[k + i])
             W(i) == BatchOf(WrittenOf(h, k + i - 1) + 1, h[k + i])
             T == {V(i) : i \in 1..(n + 1)} \union {W(i) : i \in 1..n}
  <2>0. \A i \in 1..n : V(i) = W(i)
    BY <1>6
  <2>1. InLog(g, k) = [i \in 1..(n + 1) |-> V(i)] /\ a = [i \in 1..n |-> W(i)] /\ x = V(n + 1)
    BY <1>4, <1>5, <1>7
  <2> HIDE DEF V, W, a, x
  <2>2. n + 1 \in 1..(n + 1)
    BY <1>2
  <2>3. a \in Seq(T) /\ Len(a) = n
    BY <1>2, <2>1
  <2>4. x \in T
    BY <2>1, <2>2
  <2>5. InLog(g, k) \in Seq(T) /\ Len(InLog(g, k)) = n + 1
    BY <1>2, <2>1
  <2>6. Append(a, x) \in Seq(T) /\ Len(Append(a, x)) = n + 1 /\ Append(a, x)[n + 1] = x
        /\ \A i \in 1..n : Append(a, x)[i] = a[i]
    BY <2>3, <2>4, AppendProperties
  <2>7. \A i \in 1..(n + 1) : i \in 1..n \/ i = n + 1
    BY <1>2
  <2>8. \A i \in 1..(n + 1) : InLog(g, k)[i] = Append(a, x)[i]
    <3> SUFFICES ASSUME NEW i \in 1..(n + 1)
                 PROVE  InLog(g, k)[i] = Append(a, x)[i]
      OBVIOUS
    <3>1. CASE i \in 1..n
      <4>1. InLog(g, k)[i] = V(i) /\ a[i] = W(i)
        BY <2>1, <3>1
      <4> QED
        BY <2>0, <2>6, <3>1, <4>1
    <3>2. CASE i = n + 1
      BY <2>1, <2>2, <2>6, <3>2
    <3> QED
      BY <2>7, <3>1, <3>2
  <2> QED
    BY <2>5, <2>6, <2>8, SeqEqual
<1> QED
  BY <1>1, <1>3, <1>8 DEF g, x

\* A log that was removed holds nothing.
LEMMA InLogNone ==
    ASSUME NEW h \in Seq(Batch)
    PROVE  InLog(h, Len(h)) = <<>>
<1>1. Len(h) - Len(h) = 0
  OBVIOUS
<1>2. 1..0 = {}
  OBVIOUS
<1>3. InLog(h, Len(h)) = [i \in {} |-> BatchOf(WrittenOf(h, Len(h) + i - 1) + 1, h[Len(h) + i])]
  BY <1>1, <1>2 DEF InLog
<1> QED
  BY <1>3

ReadBatches == [sequence : Nat, ops : Seq(Operation)]

\* What the mirror has of a log: some of the live one, or all or some of one that
\* was removed, which began with an earlier operation.
MirroredLog ==
    \/ \E n \in 0..Len(log) : dir.log = SubSeq(log, 1, n)
    \/ ParseWal(dir.log) = <<>>
    \/ ParseWal(dir.log)[1].sequence \in 1..WrittenOf(history, base)

\* The log reads back as the batches it holds, whole and at every cut.
LogInv ==
    /\ history \in Seq(Batch) /\ base \in 0..Len(history) /\ copied \in Nat
    /\ ReadsAs(log, InLog(history, base))
    /\ MirroredLog
    /\ ParseWal(dir.log) \in Seq(ReadBatches)

\* What a head of the log reads as: the first batches it holds.
LEMMA HeadOfLog ==
    ASSUME LogInv, NEW n \in 0..Len(log)
    PROVE  LET bs == ParseWal(SubSeq(log, 1, n))
           IN /\ bs \in Seq(ReadBatches)
              /\ bs # <<>> => base < Len(history) /\ bs[1].sequence = WrittenOf(history, base) + 1
<1> DEFINE bs == ParseWal(SubSeq(log, 1, n))
           all == InLog(history, base)
<1>1. all \in Seq(ReadBatches) /\ HeadsRead(log, all)
  BY DEF LogInv, ReadsAs, ReadBatches
<1>2. Len(bs) \in 0..Len(all) /\ bs = SubSeq(all, 1, Len(bs))
  BY <1>1 DEF HeadsRead, HeadReads
<1>3. all = [i \in 1..(Len(history) - base) |-> BatchOf(WrittenOf(history, base + i - 1) + 1, history[base + i])]
  BY DEF InLog
<1>4. Len(history) \in Nat /\ base \in Nat /\ base <= Len(history)
  BY DEF LogInv
<1> HIDE DEF bs, all
<1>5. bs \in Seq(ReadBatches)
  BY <1>1, <1>2, Heads
<1>6. ASSUME bs # <<>>
      PROVE  base < Len(history) /\ bs[1].sequence = WrittenOf(history, base) + 1
  <2>1. Len(bs) \in Nat /\ Len(bs) # 0
    BY <1>5, <1>6, LenProperties, EmptySeq
  <2>2. 1 \in 1..Len(bs) /\ 1 \in 1..Len(all) /\ Len(all) \in Nat
    BY <1>2, <2>1
  <2>3. DOMAIN all = 1..(Len(history) - base) /\ DOMAIN all = 1..Len(all)
    BY <1>1, <1>3, LenProperties
  <2>4. 1 \in 1..(Len(history) - base)
    BY <2>2, <2>3
  <2>5. bs[1] = all[1]
    BY <1>1, <1>2, <2>2
  <2>6. base + 1 - 1 = base
    BY <1>4
  <2>7. all[1] = BatchOf(WrittenOf(history, base) + 1, history[base + 1])
    BY <1>3, <2>4, <2>6
  <2>8. all[1].sequence = WrittenOf(history, base) + 1
    BY <2>7 DEF BatchOf
  <2> QED
    BY <1>4, <2>4, <2>5, <2>8
<1> QED
  BY <1>5, <1>6 DEF bs

\* A mirror's log is a head of the live one.
LEMMA MirroredHead ==
    ASSUME LogInv, NEW full, NEW d \in Mirrors(full)
    PROVE  \E n \in 0..Len(log) : d.log = SubSeq(log, 1, n)
<1>1. Len(log) \in Nat
  BY LenProperties DEF LogInv, ReadsAs
<1>2. \A s, n : Mirrored(full, s, n).log = SubSeq(log, 1, n)
  BY DEF Mirrored
<1>3. CASE \E s \in Spoiled(full) : d = Mirrored(full, s, Len(log))
  <2>1. Len(log) \in 0..Len(log)
    BY <1>1
  <2> QED
    BY <1>2, <1>3, <2>1
<1>4. CASE \E n \in LogCuts : d = Mirrored(full, <<>>, n)
  <2>1. PICK n \in LogCuts : d = Mirrored(full, <<>>, n)
    BY <1>4
  <2>2. n \in copied..Len(log)
    BY DEF LogCuts
  <2>3. n \in 0..Len(log)
    BY <1>1, <2>2 DEF LogInv
  <2> QED
    BY <1>2, <2>1, <2>3
<1> QED
  BY <1>3, <1>4 DEF Mirrors

\* The copies of a load.
LEMMA LoadsCopyTheLog ==
    ASSUME LogInv, NEW full, NEW d \in Mirrors(full), dir' = d, copied' = Len(d.log),
           UNCHANGED <<history, base, log>>
    PROVE  LogInv'
<1>1. PICK n \in 0..Len(log) : d.log = SubSeq(log, 1, n)
  BY MirroredHead
<1>2. SubSeq(log, 1, n) \in Seq(Cell) /\ log \in Seq(Cell)
  BY Heads DEF LogInv, ReadsAs
<1>3. copied' \in Nat
  BY <1>1, <1>2, LenProperties
<1>4. ParseWal((dir').log) \in Seq(ReadBatches)
  BY <1>1, HeadOfLog
<1>5. MirroredLog'
  BY <1>1 DEF MirroredLog
<1> QED
  BY <1>3, <1>4, <1>5 DEF LogInv

\* Every state's log reads back as what Teams wrote since the log was begun, at
\* every cut, and a mirrored log that is not a piece of it begins earlier
\* (write-ahead-log.ts:28-76).
THEOREM LogIsRead == Spec => []LogInv
<1>1. Init => LogInv
  <2> SUFFICES ASSUME Init
               PROVE  LogInv
    OBVIOUS
  <2>1. PICK e : e = <<>>
    OBVIOUS
  <2>2. e \in Seq(Batch) /\ Len(e) = 0 /\ 0 \in 0..Len(e) /\ Append(e, Opening) = <<Opening>>
    BY <2>1
  <2>3. Opening \in Batch /\ Opening \in Seq(Operation)
    BY BatchesAreWritten DEF Batch
  <2>4. InLog(e, 0) = <<>>
    BY <2>2, InLogNone
  <2>5. WrittenOf(e, Len(e)) = 0
    <3>1. SubSeq(e, 1, 0) = <<>>
      BY <2>2, Heads
    <3>2. Len(FlattenSeq(<<>>)) = 0
      BY FlattenNone
    <3> QED
      BY <2>2, <3>1, <3>2 DEF WrittenOf, OpsOf
  <2>6. /\ history = <<Opening>> /\ base = 0 /\ log = AddBatch(<<>>, 1, Opening)
        /\ dir.log = <<>> /\ copied = 0
    BY DEF Init
  <2>7. history \in Seq(Batch) /\ Len(history) = 1 /\ InLog(history, base) = Append(<<>>, BatchOf(1, Opening))
    <3>1. WrittenOf(e, Len(e)) + 1 = 1
      BY <2>5
    <3>2. /\ Append(e, Opening) \in Seq(Batch) /\ Len(Append(e, Opening)) = Len(e) + 1
          /\ InLog(Append(e, Opening), 0) = Append(InLog(e, 0), BatchOf(WrittenOf(e, Len(e)) + 1, Opening))
      BY <2>2, <2>3, InLogMore
    <3>3. Len(e) + 1 = 1
      BY <2>2
    <3> QED
      BY <2>2, <2>4, <2>6, <3>1, <3>2, <3>3
  <2>8. ReadsAs(log, InLog(history, base))
    <3>1. 1 \in Nat
      OBVIOUS
    <3> QED
      BY <2>3, <2>6, <2>7, <3>1, NothingRead, LogReadsBack
  <2>9. ParseWal(<<>>) = <<>>
    BY NothingRead, ReadToTheEnd DEF ReadsAs
  <2>10. 0 \in Nat /\ 0 \in 0..1 /\ <<>> \in Seq(ReadBatches)
    OBVIOUS
  <2>11. MirroredLog
    BY <2>6, <2>9 DEF MirroredLog
  <2> QED
    BY <2>6, <2>7, <2>8, <2>9, <2>10, <2>11 DEF LogInv
<1>2. LogInv /\ [Next]_vars => LogInv'
  <2> SUFFICES ASSUME LogInv, [Next]_vars
               PROVE  LogInv'
    OBVIOUS
  <2>1. ASSUME NEW b \in Batches, Write(b)
        PROVE  LogInv'
    <3>1. /\ log' = AddBatch(log, NextSeq, b) /\ history' = Append(history, b)
          /\ UNCHANGED <<base, dir, copied>>
      BY <2>1 DEF Write
    <3>2. b \in Batch /\ b \in Seq(Operation)
      BY BatchesAreWritten DEF Batch
    <3>3. history \in Seq(Batch) /\ base \in 0..Len(history) /\ ReadsAs(log, InLog(history, base))
      BY DEF LogInv
    <3>4. NextSeq = WrittenOf(history, Len(history)) + 1 /\ NextSeq \in Nat
      <4>1. SubSeq(history, 1, Len(history)) = history /\ Len(history) \in 0..Len(history)
        BY <3>3, Heads
      <4>2. WrittenOf(history, Len(history)) \in Nat
        BY <3>3, <4>1, WrittenMore
      <4>3. WrittenOf(history, Len(history)) = Len(OpsOf(history))
        BY <4>1 DEF WrittenOf
      <4>4. NextSeq = WrittenOf(history, Len(history)) + 1
        BY <4>3 DEF NextSeq
      <4> QED
        BY <4>2, <4>4
    <3>5. /\ history' \in Seq(Batch) /\ Len(history') = Len(history) + 1
          /\ WrittenOf(history', base) = WrittenOf(history, base)
          /\ InLog(history', base) = Append(InLog(history, base), BatchOf(NextSeq, b))
      BY <3>1, <3>2, <3>3, <3>4, InLogMore
    <3>6. ReadsAs(log', InLog(history', base)) /\ Begins(log, log')
      BY <3>1, <3>2, <3>3, <3>4, <3>5, LogReadsBack
    <3>7. log \in Seq(Cell) /\ log' \in Seq(Cell)
      BY <3>3, <3>6 DEF ReadsAs
    <3>8. \A n \in 0..Len(log) : n \in 0..Len(log') /\ SubSeq(log', 1, n) = SubSeq(log, 1, n)
      <4> SUFFICES ASSUME NEW n \in 0..Len(log)
                   PROVE  n \in 0..Len(log') /\ SubSeq(log', 1, n) = SubSeq(log, 1, n)
        OBVIOUS
      <4>1. n \in 0..Len(log')
        BY <3>6, <3>7, LenProperties DEF Begins
      <4> QED
        BY <3>6, <3>7, <4>1, HeadsStay
    <3>9. MirroredLog'
      BY <3>1, <3>5, <3>8 DEF LogInv, MirroredLog
    <3>10. base \in 0..Len(history')
      BY <3>3, <3>5
    <3> QED
      BY <3>1, <3>5, <3>6, <3>9, <3>10 DEF LogInv
  <2>2. CASE RemoveLog
    <3>1. log' = <<>> /\ base' = Len(history) /\ copied' = 0 /\ UNCHANGED <<history, dir>>
      BY <2>2 DEF RemoveLog
    <3>2. history \in Seq(Batch) /\ base \in 0..Len(history) /\ Len(history) \in 0..Len(history)
      BY DEF LogInv
    <3>3. ReadsAs(log', InLog(history', base'))
      BY <3>1, <3>2, InLogNone, NothingRead
    <3>4. WrittenOf(history, base) \in Nat /\ WrittenOf(history, base') \in Nat
          /\ (base < Len(history) => WrittenOf(history, base) < WrittenOf(history, base'))
          /\ WrittenOf(history, base) <= WrittenOf(history, base')
      <4>1. WrittenOf(history, base) \in Nat /\ WrittenOf(history, Len(history)) \in Nat
        BY <3>2, WrittenMore
      <4>2. base < Len(history) => WrittenOf(history, base) < WrittenOf(history, Len(history))
        BY <3>2, WrittenGrows
      <4>3. base < Len(history) \/ base = Len(history)
        BY <3>2
      <4> QED
        BY <3>1, <4>1, <4>2, <4>3
    <3>5. MirroredLog'
      <4> DEFINE bs == ParseWal(dir.log)
      <4>1. CASE \E n \in 0..Len(log) : dir.log = SubSeq(log, 1, n)
        <5>1. bs # <<>> => base < Len(history) /\ bs[1].sequence = WrittenOf(history, base) + 1
          BY <4>1, HeadOfLog
        <5>2. bs # <<>> => bs[1].sequence \in 1..WrittenOf(history, base')
          BY <3>4, <5>1
        <5> QED
          BY <3>1, <5>2 DEF MirroredLog
      <4>2. CASE bs = <<>>
        BY <3>1, <4>2 DEF MirroredLog
      <4>3. CASE bs[1].sequence \in 1..WrittenOf(history, base)
        <5>1. bs[1].sequence \in 1..WrittenOf(history, base')
          BY <3>4, <4>3
        <5> QED
          BY <3>1, <5>1 DEF MirroredLog
      <4> QED
        BY <4>1, <4>2, <4>3 DEF LogInv, MirroredLog
    <3> QED
      BY <3>1, <3>2, <3>3, <3>5 DEF LogInv
  <2>3. CASE FullLoad
    <3>1. PICK d \in Mirrors(TRUE) : dir' = d /\ copied' = Len(d.log) /\ UNCHANGED teams
      BY <2>3 DEF FullLoad
    <3> QED
      BY <3>1, LoadsCopyTheLog DEF teams
  <2>4. ASSUME NEW bad \in Unreadable, ReuseLoad(bad)
        PROVE  LogInv'
    <3>1. PICK d \in Mirrors(FALSE) : dir' = d /\ copied' = Len(d.log) /\ UNCHANGED teams
      BY <2>4, WholeIsMirror DEF ReuseLoad
    <3> QED
      BY <3>1, LoadsCopyTheLog DEF teams
  <2>5. ASSUME UNCHANGED <<history, base, log, dir, copied>>
        PROVE  LogInv'
    BY <2>5 DEF LogInv, MirroredLog
  <2>6. Flush \/ Compact \/ RemoveObsolete \/ UNCHANGED vars => UNCHANGED <<history, base, log, dir, copied>>
    BY DEF Flush, Compact, RemoveObsolete, vars
  <2> QED
    BY <2>1, <2>2, <2>3, <2>4, <2>5, <2>6 DEF Next
<1> QED
  BY <1>1, <1>2, PTL DEF Spec

-----------------------------------------------------------------------------
(* Directories with one signature (idb.rs:564-594).                        *)

\* A turn of readTablesInto, of readLogsInto and of foldBatch.
ReadTurn(results, c, acc, f) == FoldTable(acc, results[f])
LogTurn(b, c, acc, batch) == FoldBatch(acc, batch)
RecordTurn(b, c, acc, r) == Consider(acc, r)

TableReads == INSTANCE FoldFacts WITH Op <- ReadTurn
LogReads == INSTANCE FoldFacts WITH Op <- LogTurn
RecordReads == INSTANCE FoldFacts WITH Op <- RecordTurn

\* They are folds of turns.
LEMMA ReadTablesIsFolded ==
    \A acc, files, results : ReadTablesInto(acc, files, results) = TableReads!Folded(results, 0, acc, files)
BY Zenon DEF TableReads!Folded, TableReads!FoldLeft, TableReads!MapThenFoldSet, TableReads!Max, ReadTurn,
             ReadTablesInto, FoldLeft, MapThenFoldSet, Max

LEMMA ReadLogsIsFolded ==
    \A acc, d : ReadLogsInto(acc, d) = LogReads!Folded(0, 0, acc, ParseWal(d.log))
BY Zenon DEF LogReads!Folded, LogReads!FoldLeft, LogReads!MapThenFoldSet, LogReads!Max, LogTurn,
             ReadLogsInto, FoldLeft, MapThenFoldSet, Max

LEMMA BatchIsFolded ==
    \A acc, batch : FoldBatch(acc, batch) = RecordReads!Folded(0, 0, acc, RecordsOf(batch))
BY Zenon DEF RecordReads!Folded, RecordReads!FoldLeft, RecordReads!MapThenFoldSet, RecordReads!Max, RecordTurn,
             FoldBatch, FoldLeft, MapThenFoldSet, Max

\* A table more.
LEMMA ReadMore ==
    ASSUME NEW acc, NEW results, NEW S, NEW files \in Seq(S), NEW k \in 0..Len(files), k < Len(files)
    PROVE  ReadTablesInto(acc, SubSeq(files, 1, k + 1), results)
             = FoldTable(ReadTablesInto(acc, SubSeq(files, 1, k), results), results[files[k + 1]])
<1> DEFINE h == SubSeq(files, 1, k)
           x == files[k + 1]
<1>1. h \in Seq(S) /\ SubSeq(files, 1, k + 1) = Append(h, x)
  BY Heads
<1> HIDE DEF h, x
<1>2. TableReads!Folded(results, 0, acc, Append(h, x)) = ReadTurn(results, 0, TableReads!Folded(results, 0, acc, h), x)
  BY <1>1, TableReads!FoldAppend
<1>3. ReadTablesInto(acc, Append(h, x), results) = FoldTable(ReadTablesInto(acc, h, results), results[x])
  BY <1>2, ReadTablesIsFolded, Zenon DEF ReadTurn
<1> QED
  BY <1>1, <1>3 DEF h, x

\* Tables that read the same fold to the same, and if that is not lossy, nor is any.
LEMMA SameReads ==
    ASSUME NEW acc, NEW results, NEW others, NEW S, NEW files \in Seq(S)
    PROVE  /\ (\A i \in DOMAIN files : results[files[i]] = others[files[i]])
                 => ReadTablesInto(acc, files, results) = ReadTablesInto(acc, files, others)
           /\ ~ ReadTablesInto(acc, files, results).lossy
                 => \A i \in DOMAIN files : ~ results[files[i]].lossy
<1> DEFINE n == Len(files)
           F(k) == ReadTablesInto(acc, SubSeq(files, 1, k), results)
           G(k) == ReadTablesInto(acc, SubSeq(files, 1, k), others)
           Same == \A i \in DOMAIN files : results[files[i]] = others[files[i]]
           P(k) == (Same => F(k) = G(k)) /\ (~ F(k).lossy => \A i \in 1..k : ~ results[files[i]].lossy)
           Q == {k \in 0..n : P(k)}
<1>1. n \in Nat /\ DOMAIN files = 1..n /\ F(n) = ReadTablesInto(acc, files, results)
      /\ G(n) = ReadTablesInto(acc, files, others)
  BY Heads
<1>2. F(0) = acc /\ G(0) = acc
  BY Heads, ReadTablesIsFolded, TableReads!FoldEmpty
<1>3. ASSUME NEW k \in 0..n, k < n
      PROVE  /\ F(k + 1) = FoldTable(F(k), results[files[k + 1]])
             /\ G(k + 1) = FoldTable(G(k), others[files[k + 1]])
  BY <1>3, ReadMore
<1> HIDE DEF F, G, n
<1>4. \A a, r : FoldTable(a, r).lossy <=> (a.lossy \/ r.lossy)
  BY Zenon DEF FoldTable
<1>5. 0 \in Q
  <2>1. \A i \in 1..0 : FALSE
    OBVIOUS
  <2> QED
    BY <1>1, <1>2, <2>1
<1>6. \A k \in Q : k < n => k + 1 \in Q
  <2> SUFFICES ASSUME NEW k \in Q, k < n
               PROVE  P(k + 1)
    BY <1>1
  <2>1. k \in 0..n /\ k + 1 \in DOMAIN files /\ P(k)
    BY <1>1
  <2>2. ASSUME Same
        PROVE  F(k + 1) = G(k + 1)
    <3>1. F(k) = G(k) /\ results[files[k + 1]] = others[files[k + 1]]
      BY <2>1, <2>2
    <3> QED
      BY <1>3, <3>1
  <2>3. ASSUME ~ F(k + 1).lossy, NEW i \in 1..(k + 1)
        PROVE  ~ results[files[i]].lossy
    <3>1. F(k + 1) = FoldTable(F(k), results[files[k + 1]])
      BY <1>3
    <3>2. ~ F(k).lossy /\ ~ results[files[k + 1]].lossy
      BY <1>4, <2>3, <3>1, Zenon
    <3>3. i \in 1..k \/ i = k + 1
      BY <1>1, <2>1
    <3> QED
      BY <2>1, <3>2, <3>3
  <2> QED
    BY <2>2, <2>3
<1>7. Q = 0..n
  <2>1. Q \in SUBSET (0..n)
    OBVIOUS
  <2> HIDE DEF Q
  <2> QED
    BY <1>1, <1>5, <1>6, <2>1, Counting
<1>8. P(n)
  <2>1. n \in Q
    <3> HIDE DEF Q
    <3> QED BY <1>1, <1>7
  <2> QED
    BY <2>1
<1> QED
  BY <1>1, <1>8

\* A batch leaves it open whether tables were lossy.
LEMMA BatchKeepsLossy ==
    ASSUME NEW acc, NEW batch \in ReadBatches
    PROVE  FoldBatch(acc, batch).lossy = acc.lossy
<1> DEFINE s == RecordsOf(batch)
           S == Range(s)
           n == Len(s)
           F(k) == RecordReads!Folded(0, 0, acc, SubSeq(s, 1, k))
           Q == {k \in 0..n : F(k).lossy = acc.lossy}
<1>1. s \in Seq(S)
  <2>1. DOMAIN batch.ops = 1..Len(batch.ops) /\ Len(batch.ops) \in Nat
    BY LenProperties DEF ReadBatches
  <2>2. DOMAIN s = 1..Len(batch.ops) /\ s = [i \in 1..Len(batch.ops) |-> s[i]]
    BY <2>1 DEF RecordsOf
  <2>3. \A i \in DOMAIN s : s[i] \in S
    BY DEF Range
  <2> HIDE DEF s, S
  <2> QED
    BY <2>1, <2>2, <2>3
<1> HIDE DEF S
<1>2. n \in Nat /\ SubSeq(s, 1, n) = s /\ SubSeq(s, 1, 0) = <<>>
  <2> HIDE DEF s
  <2> QED
    BY <1>1, Heads
<1> HIDE DEF s, n
<1>3. 0 \in Q
  <2>1. F(0) = acc
    BY <1>2, RecordReads!FoldEmpty
  <2> QED
    BY <1>2, <2>1
<1>4. \A k \in Q : k < n => k + 1 \in Q
  <2> SUFFICES ASSUME NEW k \in Q, k < n
               PROVE  k + 1 \in 0..n /\ F(k + 1).lossy = acc.lossy
    OBVIOUS
  <2> DEFINE h == SubSeq(s, 1, k)
             x == s[k + 1]
  <2>1. h \in Seq(S) /\ SubSeq(s, 1, k + 1) = Append(h, x) /\ k + 1 \in 0..n
    BY <1>1, <1>2, Heads DEF n
  <2> HIDE DEF h, x
  <2>2. RecordReads!Folded(0, 0, acc, Append(h, x)) = RecordTurn(0, 0, RecordReads!Folded(0, 0, acc, h), x)
    BY <2>1, RecordReads!FoldAppend
  <2>3. \A a, r : RecordTurn(0, 0, a, r).lossy = a.lossy
    BY Zenon DEF RecordTurn, Consider
  <2>4. F(k).lossy = acc.lossy
    OBVIOUS
  <2> QED
    BY <2>1, <2>2, <2>3, <2>4, Zenon DEF h
<1>5. Q = 0..n
  <2>1. Q \in SUBSET (0..n)
    OBVIOUS
  <2> HIDE DEF Q
  <2> QED
    BY <1>2, <1>3, <1>4, <2>1, Counting
<1>6. F(n).lossy = acc.lossy
  <2>1. n \in Q
    <3> HIDE DEF Q
    <3> QED BY <1>2, <1>5
  <2> QED
    BY <2>1
<1> QED
  BY <1>2, <1>6, BatchIsFolded DEF s

\* Nor does a log change that.
LEMMA LogsKeepLossy ==
    ASSUME NEW acc, NEW d, ParseWal(d.log) \in Seq(ReadBatches)
    PROVE  ReadLogsInto(acc, d).lossy = acc.lossy
<1> DEFINE s == ParseWal(d.log)
           n == Len(s)
           F(k) == LogReads!Folded(0, 0, acc, SubSeq(s, 1, k))
           Q == {k \in 0..n : F(k).lossy = acc.lossy}
<1>1. s \in Seq(ReadBatches)
  OBVIOUS
<1> HIDE DEF s
<1>2. n \in Nat /\ SubSeq(s, 1, n) = s /\ SubSeq(s, 1, 0) = <<>>
  BY <1>1, Heads
<1> HIDE DEF n
<1>3. 0 \in Q
  <2>1. F(0) = acc
    BY <1>2, LogReads!FoldEmpty
  <2> QED
    BY <1>2, <2>1
<1>4. \A k \in Q : k < n => k + 1 \in Q
  <2> SUFFICES ASSUME NEW k \in Q, k < n
               PROVE  k + 1 \in 0..n /\ F(k + 1).lossy = acc.lossy
    OBVIOUS
  <2> DEFINE h == SubSeq(s, 1, k)
             x == s[k + 1]
  <2>1. h \in Seq(ReadBatches) /\ SubSeq(s, 1, k + 1) = Append(h, x) /\ k + 1 \in 0..n
    BY <1>1, <1>2, Heads DEF n
  <2>2. x \in ReadBatches
    BY <1>1, <1>2 DEF n
  <2> HIDE DEF h, x
  <2>3. LogReads!Folded(0, 0, acc, Append(h, x)) = LogTurn(0, 0, LogReads!Folded(0, 0, acc, h), x)
    BY <2>1, LogReads!FoldAppend
  <2>4. LogTurn(0, 0, LogReads!Folded(0, 0, acc, h), x).lossy = LogReads!Folded(0, 0, acc, h).lossy
    BY <2>2, BatchKeepsLossy DEF LogTurn
  <2>5. F(k).lossy = acc.lossy
    OBVIOUS
  <2> QED
    BY <2>1, <2>3, <2>4, <2>5, Zenon DEF h
<1>5. Q = 0..n
  <2>1. Q \in SUBSET (0..n)
    OBVIOUS
  <2> HIDE DEF Q
  <2> QED
    BY <1>2, <1>3, <1>4, <2>1, Counting
<1>6. F(n).lossy = acc.lossy
  <2>1. n \in Q
    <3> HIDE DEF Q
    <3> QED BY <1>2, <1>5
  <2> QED
    BY <2>1
<1> QED
  BY <1>2, <1>6, ReadLogsIsFolded DEF s

\* A directory whose tables have numbers has a list of them.
LEMMA NumberedAreListed ==
    ASSUME NEW d, NEW n \in Nat, \A f \in DOMAIN d.tables : f \in Nat /\ f < n
    PROVE  LdbFilesOf(d) \in Seq(DOMAIN d.tables)
<1> DEFINE D == DOMAIN d.tables
<1>0. \A f \in D : f \in Nat /\ f < n
  OBVIOUS
<1> HIDE DEF D
<1>1. D \in SUBSET (0..n)
  <2>1. \A f \in D : f \in 0..n
    BY <1>0
  <2> QED
    BY <2>1, Zenon
<1>2. IsFiniteSet(0..n)
  <2>1. \A a, b \in Int : IsFiniteSet(a..b)
    BY FS_Interval, Zenon
  <2>2. 0 \in Int /\ n \in Int
    OBVIOUS
  <2> QED
    BY <2>1, <2>2, Zenon
<1>3. D \in SUBSET Nat
  <2>1. \A f \in D : f \in Nat
    BY <1>0
  <2> QED
    BY <2>1, Zenon
<1>4. IsFiniteSet(D)
  BY <1>1, <1>2, FS_Subset
<1> QED
  BY <1>3, <1>4, FilesAreListed DEF D

\* What a load reads of the tables, and of the log after them.
TablesOf(d) == ReadTablesInto(Empty, LdbFilesOf(d), [f \in DOMAIN d.tables |-> ReadAndParse(d, {}, f)])

LEMMA LoadIs ==
    ASSUME NEW d
    PROVE  /\ LoadSnapshot(d, {}) = CollectSnapshot(ReadLogsInto(TablesOf(d), d))
           /\ LoadSnapshot(d, {}).lossy = ReadLogsInto(TablesOf(d), d).lossy
           /\ \A f \in DOMAIN d.tables :
                 [g \in DOMAIN d.tables |-> ReadAndParse(d, {}, g)][f] = ParseTable(d.tables[f])
<1>1. LoadSnapshot(d, {}) = CollectSnapshot(ReadLogsInto(TablesOf(d), d))
  BY Zenon DEF LoadSnapshot, BuildDedupMap, TablesOf
<1>2. \A acc : CollectSnapshot(acc).lossy = acc.lossy
  BY Zenon DEF CollectSnapshot
<1>3. \A f \in DOMAIN d.tables : ReadAndParse(d, {}, f) = ParseTable(d.tables[f])
  BY DEF ReadAndParse
<1> QED
  BY <1>1, <1>2, <1>3

\* A load that is not lossy has read every table whole.
LEMMA CleanLoad ==
    ASSUME NEW d, LdbFilesOf(d) \in Seq(DOMAIN d.tables), ParseWal(d.log) \in Seq(ReadBatches),
           ~ LoadSnapshot(d, {}).lossy
    PROVE  \A i \in DOMAIN LdbFilesOf(d) :
              LdbFilesOf(d)[i] \in DOMAIN d.tables /\ ~ ParseTable(d.tables[LdbFilesOf(d)[i]]).lossy
<1> DEFINE fs == LdbFilesOf(d)
           R == [f \in DOMAIN d.tables |-> ReadAndParse(d, {}, f)]
<1>1. ~ ReadTablesInto(Empty, fs, R).lossy
  <2>1. ~ TablesOf(d).lossy
    BY LoadIs, LogsKeepLossy
  <2> QED
    BY <2>1 DEF TablesOf
<1>2. fs \in Seq(DOMAIN d.tables) /\ DOMAIN fs = 1..Len(fs)
  OBVIOUS
<1>3. \A i \in DOMAIN fs : fs[i] \in DOMAIN d.tables
  BY <1>2
<1>4. \A f \in DOMAIN d.tables : R[f] = ParseTable(d.tables[f])
  BY LoadIs
<1> HIDE DEF fs, R
<1>5. \A i \in DOMAIN fs : ~ R[fs[i]].lossy
  BY <1>1, <1>2, SameReads
<1> QED
  BY <1>3, <1>4, <1>5 DEF fs

\* Directories with the same list, tables that parse the same and logs that do are
\* loaded alike.
LEMMA SameLoads ==
    ASSUME NEW d, NEW e, NEW S, LdbFilesOf(d) \in Seq(S), LdbFilesOf(e) = LdbFilesOf(d),
           \A i \in DOMAIN LdbFilesOf(d) :
              /\ LdbFilesOf(d)[i] \in DOMAIN d.tables \intersect DOMAIN e.tables
              /\ d.tables[LdbFilesOf(d)[i]] = e.tables[LdbFilesOf(d)[i]],
           ParseWal(d.log) = ParseWal(e.log)
    PROVE  LoadSnapshot(d, {}) = LoadSnapshot(e, {})
<1> DEFINE fs == LdbFilesOf(d)
           R == [f \in DOMAIN d.tables |-> ReadAndParse(d, {}, f)]
           Q == [f \in DOMAIN e.tables |-> ReadAndParse(e, {}, f)]
<1>1. \A f \in DOMAIN d.tables : R[f] = ParseTable(d.tables[f])
  BY LoadIs
<1>2. \A f \in DOMAIN e.tables : Q[f] = ParseTable(e.tables[f])
  BY LoadIs
<1>3. TablesOf(d) = ReadTablesInto(Empty, fs, R) /\ TablesOf(e) = ReadTablesInto(Empty, fs, Q)
  BY DEF TablesOf
<1> HIDE DEF R, Q
<1>4. \A i \in DOMAIN fs : R[fs[i]] = Q[fs[i]]
  <2> SUFFICES ASSUME NEW i \in DOMAIN fs
               PROVE  R[fs[i]] = Q[fs[i]]
    OBVIOUS
  <2>1. fs[i] \in DOMAIN d.tables /\ fs[i] \in DOMAIN e.tables /\ d.tables[fs[i]] = e.tables[fs[i]]
    OBVIOUS
  <2> QED
    BY <1>1, <1>2, <2>1
<1> HIDE DEF fs
<1>5. ReadTablesInto(Empty, fs, R) = ReadTablesInto(Empty, fs, Q)
  BY <1>4, SameReads DEF fs
<1>6. \A acc : ReadLogsInto(acc, d) = ReadLogsInto(acc, e)
  BY ReadLogsIsFolded
<1> QED
  BY <1>3, <1>5, <1>6, LoadIs

\* The step that changes the mirror.
LEMMA MirrorStep ==
    ASSUME [Next]_vars, dir' # dir
    PROVE  (\E full : dir' \in Mirrors(full)) /\ UNCHANGED teams
<1>1. CASE FullLoad
  BY <1>1 DEF FullLoad
<1>2. ASSUME NEW bad \in Unreadable, ReuseLoad(bad)
      PROVE  (\E full : dir' \in Mirrors(full)) /\ UNCHANGED teams
  BY <1>2, ReuseMirrors
<1>3. (\E b \in Batches : Write(b)) \/ Flush \/ RemoveLog \/ Compact \/ RemoveObsolete \/ UNCHANGED vars
        => dir' = dir
  BY DEF Write, Flush, RemoveLog, Compact, RemoveObsolete, vars
<1> QED
  BY <1>1, <1>2, <1>3 DEF Next

\* Logs of one signature parse the same: a log that was removed began elsewhere, and
\* pieces of one log that are as long are the same piece.
LEMMA SameLogs ==
    ASSUME LogInv, NEW n \in 0..Len(log), NEW cells, cells = SubSeq(log, 1, n),
           Native!LogNumber(dir.log) = Native!LogNumber(cells), Len(dir.log) = Len(cells)
    PROVE  ParseWal(dir.log) = ParseWal(cells)
<1> DEFINE old == ParseWal(dir.log)
           new == ParseWal(cells)
<1>1. new \in Seq(ReadBatches) /\ (new # <<>> => new[1].sequence = WrittenOf(history, base) + 1)
  BY HeadOfLog
<1>2. /\ Native!LogNumber(dir.log) = IF old = <<>> THEN 0 ELSE old[1].sequence
      /\ Native!LogNumber(cells) = IF new = <<>> THEN 0 ELSE new[1].sequence
  BY Zenon DEF Native!LogNumber
<1>3. WrittenOf(history, base) \in Nat
  BY WrittenMore DEF LogInv
<1>4. CASE \E m \in 0..Len(log) : dir.log = SubSeq(log, 1, m)
  <2>1. PICK m \in 0..Len(log) : dir.log = SubSeq(log, 1, m)
    BY <1>4
  <2>2. log \in Seq(Cell)
    BY DEF LogInv, ReadsAs
  <2>3. Len(SubSeq(log, 1, m)) = m /\ Len(SubSeq(log, 1, n)) = n
    BY <2>2, Heads
  <2> QED
    BY <2>1, <2>3
<1> HIDE DEF old, new
<1>5. CASE old = <<>>
  BY <1>1, <1>2, <1>3, <1>5 DEF old, new
<1>6. CASE old # <<>> /\ old[1].sequence \in 1..WrittenOf(history, base)
  <2>1. new = <<>>
    BY <1>1, <1>2, <1>3, <1>6
  <2> QED
    BY <1>2, <1>6, <2>1
<1> QED
  BY <1>4, <1>5, <1>6 DEF LogInv, MirroredLog, old, new

\* Two mirrors in a row that have the same source signature and read whole are the
\* same load, whatever Teams wrote, flushed and compacted between them: the native
\* refresh may skip the second unread (idb.rs:564-594).
THEOREM SignatureIsSoundCorrect == Spec => SignatureIsSound
<1>1. IInv /\ IInv' /\ LogInv /\ [Next]_vars =>
        [dir' # dir /\ Native!SourceSignature(dir') = Native!SourceSignature(dir) =>
            LET before == LoadSnapshot(dir, {})
                after == LoadSnapshot(dir', {})
            IN before.lossy \/ after.lossy \/ before = after]_vars
  <2> SUFFICES ASSUME IInv, IInv', LogInv, [Next]_vars, dir' # dir,
                      Native!SourceSignature(dir') = Native!SourceSignature(dir),
                      ~ LoadSnapshot(dir, {}).lossy, ~ LoadSnapshot(dir', {}).lossy
               PROVE  LoadSnapshot(dir, {}) = LoadSnapshot(dir', {})
    OBVIOUS
  <2>1. PICK d, e : d = dir /\ e = dir'
    OBVIOUS
  <2>2. PICK full : e \in Mirrors(full)
    BY <2>1, MirrorStep
  <2>3. UNCHANGED teams
    BY MirrorStep
  <2>4. PICK n \in 0..Len(log) : e.log = SubSeq(log, 1, n)
    BY <2>2, MirroredHead
  <2>5. /\ Native!SortedLdbSizes(d, {}) = Native!SortedLdbSizes(e, {})
        /\ Native!LogNumber(d.log) = Native!LogNumber(e.log)
        /\ Len(d.log) = Len(e.log)
    <3>1. \A x : Native!SourceSignature(x) = <<Native!SortedLdbSizes(x, {}), Native!LogNumber(x.log), Len(x.log)>>
      BY DEF Native!SourceSignature
    <3> QED
      BY <2>1, <3>1
  <2>6. /\ ParseWal(d.log) = ParseWal(e.log)
        /\ ParseWal(d.log) \in Seq(ReadBatches)
    BY <2>1, <2>4, <2>5, SameLogs DEF LogInv
  <2>7. LdbFilesOf(d) \in Seq(DOMAIN d.tables) /\ LdbFilesOf(e) \in Seq(DOMAIN e.tables)
    <3>1. nextFile \in Nat /\ \A f \in DOMAIN d.tables : f \in Nat /\ f < nextFile
      BY <2>1 DEF IInv, NumbersOK
    <3>2. nextFile' \in Nat /\ \A f \in DOMAIN e.tables : f \in Nat /\ f < nextFile'
      BY <2>1 DEF IInv, NumbersOK
    <3> QED
      BY <3>1, <3>2, NumberedAreListed
  <2> DEFINE fs == LdbFilesOf(d)
             gs == LdbFilesOf(e)
  <2>8. fs = gs
    <3>1. Native!SortedLdbSizes(d, {}) = [i \in DOMAIN fs |-> <<fs[i], IF fs[i] \in {} THEN NoBytes ELSE SizeOf(d.tables[fs[i]])>>]
      BY Zenon DEF Native!SortedLdbSizes
    <3>2. Native!SortedLdbSizes(e, {}) = [i \in DOMAIN gs |-> <<gs[i], IF gs[i] \in {} THEN NoBytes ELSE SizeOf(e.tables[gs[i]])>>]
      BY Zenon DEF Native!SortedLdbSizes
    <3>3. fs \in Seq(DOMAIN d.tables) /\ gs \in Seq(DOMAIN e.tables)
      BY <2>7
    <3> HIDE DEF fs, gs
    <3>4. DOMAIN fs = DOMAIN gs
      BY <2>5, <3>1, <3>2
    <3>5. \A i \in DOMAIN fs : fs[i] = gs[i]
      BY <2>5, <3>1, <3>2, <3>4
    <3>6. DOMAIN fs = 1..Len(fs) /\ DOMAIN gs = 1..Len(gs) /\ Len(fs) \in Nat /\ Len(gs) \in Nat
      BY <3>3
    <3>7. fs = [i \in DOMAIN fs |-> fs[i]] /\ gs = [i \in DOMAIN gs |-> gs[i]]
      BY <3>3
    <3> QED
      BY <3>4, <3>5, <3>7, Zenon
  <2>9. /\ \A i \in DOMAIN fs : fs[i] \in DOMAIN d.tables /\ ~ ParseTable(d.tables[fs[i]]).lossy
        /\ \A i \in DOMAIN fs : fs[i] \in DOMAIN e.tables /\ ~ ParseTable(e.tables[fs[i]]).lossy
    <3>1. ~ LoadSnapshot(d, {}).lossy /\ ~ LoadSnapshot(e, {}).lossy
      BY <2>1
    <3>2. \A i \in DOMAIN fs : fs[i] \in DOMAIN d.tables /\ ~ ParseTable(d.tables[fs[i]]).lossy
      BY <2>6, <2>7, <3>1, CleanLoad
    <3>3. \A i \in DOMAIN gs : gs[i] \in DOMAIN e.tables /\ ~ ParseTable(e.tables[gs[i]]).lossy
      BY <2>6, <2>7, <3>1, CleanLoad
    <3> HIDE DEF fs, gs
    <3> QED
      BY <2>8, <3>2, <3>3
  <2>10. \A f \in DOMAIN d.tables \intersect DOMAIN e.tables :
            f \in DOMAIN tables /\ IsTable(tables[f])
            /\ d.tables[f] \in Copies(tables[f]) /\ e.tables[f] \in Copies(tables[f])
    <3>1. tables' = tables
      BY <2>3 DEF teams
    <3>2. DOMAIN e.tables = DOMAIN tables
      <4>1. \A f \in DOMAIN tables : f \in Copied(full) \/ dir.tables[f] \in Copies(tables[f])
        BY DEF IInv, DirOK, Copied
      <4> QED
        BY <2>2, <4>1, MirrorShape
    <3>3. \A f \in DOMAIN e.tables \intersect DOMAIN tables : e.tables[f] \in Copies(tables[f])
      BY <2>1, <3>1 DEF IInv, DirOK
    <3>4. \A f \in DOMAIN d.tables \intersect DOMAIN tables : d.tables[f] \in Copies(tables[f])
      BY <2>1 DEF IInv, DirOK
    <3>5. \A f \in DOMAIN tables : IsTable(tables[f])
      BY DEF IInv, NumbersOK
    <3> QED
      BY <3>2, <3>3, <3>4, <3>5
  <2>11. \A i \in DOMAIN fs : fs[i] \in DOMAIN d.tables \intersect DOMAIN e.tables /\ d.tables[fs[i]] = e.tables[fs[i]]
    <3> HIDE DEF fs, gs
    <3> SUFFICES ASSUME NEW i \in DOMAIN fs
                 PROVE  fs[i] \in DOMAIN d.tables \intersect DOMAIN e.tables /\ d.tables[fs[i]] = e.tables[fs[i]]
      OBVIOUS
    <3>1. fs[i] \in DOMAIN d.tables \intersect DOMAIN e.tables
      BY <2>9
    <3>2. d.tables[fs[i]] = tables[fs[i]]
      BY <2>9, <2>10, <3>1, SpoiltIsLossy
    <3>3. e.tables[fs[i]] = tables[fs[i]]
      BY <2>9, <2>10, <3>1, SpoiltIsLossy
    <3> QED
      BY <3>1, <3>2, <3>3
  <2>12. LoadSnapshot(d, {}) = LoadSnapshot(e, {})
    BY <2>6, <2>7, <2>8, <2>11, SameLoads
  <2> QED
    BY <2>1, <2>12
<1> QED
  BY <1>1, Inductive, LogIsRead, PTL DEF Spec, SignatureIsSound

-----------------------------------------------------------------------------
(* The entries that Teams writes.                                          *)

\* Operation i of a history as an entry of a table, and all of them.
EntryAt(h, i) == Entry(OpsOf(h)[i], i)
AllEntries(h) == {EntryAt(h, i) : i \in 1..Len(OpsOf(h))}

\* An operation as the record it is read as.
RecordFor(op, seq) == [key |-> op.key, type |-> op.op, seq |-> seq, value |-> op.value]

\* The trailer of an internal key is cut off again.
LEMMA EntryIs ==
    ASSUME NEW op \in Operation, NEW i \in Nat
    PROVE  /\ Entry(op, i) \in KeyValue
           /\ UserKey(Entry(op, i)) = op.key /\ Last(Entry(op, i)[1]) = i
           /\ Entry(op, i)[1][Len(Entry(op, i)[1]) - 1] = op.op
           /\ RecordOf(Entry(op, i)) = RecordFor(op, i)
<1> DEFINE k == op.key
           t == <<op.op, i>>
           x == k \o t
<1>1. k \in Seq(Nat) /\ op.op \in Nat /\ op.value \in Seq(Nat)
  BY DEF Operation
<1>2. t \in Seq(Nat) /\ Len(t) = 2 /\ t[1] = op.op /\ t[2] = i
  <2>1. t \in Seq(Nat)
    BY <1>1
  <2> QED
    BY <2>1
<1>3. Entry(op, i) = <<x, op.value>>
  BY DEF Entry
<1> HIDE DEF k, t
<1>4. x \in Seq(Nat) /\ Len(x) = Len(k) + 2 /\ Len(k) \in Nat
  <2>1. k \o t \in Seq(Nat) /\ Len(k \o t) = Len(k) + Len(t)
    BY <1>1, <1>2, ConcatProperties
  <2>2. Len(k) \in Nat
    BY <1>1
  <2> QED
    BY <1>2, <2>1, <2>2
<1>5. \A j \in 1..(Len(k) + 2) : x[j] = IF j <= Len(k) THEN k[j] ELSE t[j - Len(k)]
  <2>1. \A j \in 1..(Len(k) + Len(t)) : (k \o t)[j] = IF j <= Len(k) THEN k[j] ELSE t[j - Len(k)]
    BY <1>1, <1>2, ConcatProperties
  <2> QED
    BY <1>2, <2>1
<1> HIDE DEF x
<1>6. SubSeq(x, 1, Len(x) - 2) = k
  <2>1. Len(x) - 2 = Len(k)
    BY <1>4
  <2>2. SubSeq(x, 1, Len(k)) \in Seq(Nat) /\ Len(SubSeq(x, 1, Len(k))) = Len(k)
        /\ \A j \in 1..Len(k) : SubSeq(x, 1, Len(k))[j] = x[j]
    BY <1>4
  <2>3. \A j \in 1..Len(k) : x[j] = k[j]
    BY <1>4, <1>5
  <2>4. SubSeq(x, 1, Len(k)) = k
    <3>1. PICK s : s = SubSeq(x, 1, Len(k))
      OBVIOUS
    <3>2. s \in Seq(Nat) /\ Len(s) = Len(k) /\ \A j \in 1..Len(k) : s[j] = k[j]
      BY <2>2, <2>3, <3>1
    <3>3. s = k
      BY <1>1, <3>2, SeqEqual
    <3> QED
      BY <3>1, <3>3
  <2> QED
    BY <2>1, <2>4
<1>7. x[Len(x)] = i /\ x[Len(x) - 1] = op.op
  <2>1. Len(x) = Len(k) + 2 /\ Len(x) - 1 = Len(k) + 1
    BY <1>4
  <2>2. x[Len(k) + 2] = t[2]
    <3>1. Len(k) + 2 \in 1..(Len(k) + 2) /\ ~ (Len(k) + 2 <= Len(k)) /\ Len(k) + 2 - Len(k) = 2
      BY <1>4
    <3> QED
      BY <1>5, <3>1
  <2>3. x[Len(k) + 1] = t[1]
    <3>1. Len(k) + 1 \in 1..(Len(k) + 2) /\ ~ (Len(k) + 1 <= Len(k)) /\ Len(k) + 1 - Len(k) = 1
      BY <1>4
    <3> QED
      BY <1>5, <3>1
  <2> QED
    BY <1>2, <2>1, <2>2, <2>3
<1>8. Entry(op, i)[1] = x /\ Entry(op, i)[2] = op.value
  BY <1>3
<1>9. UserKey(Entry(op, i)) = op.key
  BY <1>6, <1>8 DEF UserKey, k
<1>10. Last(Entry(op, i)[1]) = i
  BY <1>7, <1>8 DEF Last
<1>11. RecordOf(Entry(op, i)) = RecordFor(op, i)
  <2>1. PICK e : e = Entry(op, i)
    OBVIOUS
  <2>2. RecordOf(e) = [key |-> SubSeq(e[1], 1, Len(e[1]) - 2), type |-> e[1][Len(e[1]) - 1],
                       seq |-> e[1][Len(e[1])], value |-> e[2]]
    BY Zenon DEF RecordOf
  <2>3. RecordOf(e) = [key |-> k, type |-> op.op, seq |-> i, value |-> op.value]
    BY <1>6, <1>7, <1>8, <2>1, <2>2
  <2> QED
    BY <2>1, <2>3 DEF RecordFor, k
<1>12. Entry(op, i) \in KeyValue
  BY <1>1, <1>3, <1>4 DEF KeyValue
<1> QED
  BY <1>7, <1>8, <1>9, <1>10, <1>11, <1>12

\* A history is operations, numbered.
LEMMA OpsAre ==
    ASSUME NEW h \in Seq(Batch)
    PROVE  /\ OpsOf(h) \in Seq(Operation) /\ Len(OpsOf(h)) \in Nat
           /\ \A i \in 1..Len(OpsOf(h)) : OpsOf(h)[i] \in Operation /\ i \in Nat
<1>1. h \in Seq(Seq(Operation))
  BY DEF Batch
<1>2. OpsOf(h) \in Seq(Operation)
  <2>1. <<>> \in Seq(Operation)
    OBVIOUS
  <2> QED
    BY <1>1, <2>1, FlattenAppend DEF OpsOf
<1> HIDE DEF Operation
<1> QED
  BY <1>2

\* Entries with a number are told apart by it.
LEMMA EntriesAre ==
    ASSUME NEW h \in Seq(Batch)
    PROVE  /\ AllEntries(h) \subseteq KeyValue /\ IsFiniteSet(AllEntries(h))
           /\ \A i \in 1..Len(OpsOf(h)) :
                 /\ UserKey(EntryAt(h, i)) = OpsOf(h)[i].key /\ Last(EntryAt(h, i)[1]) = i
                 /\ EntryAt(h, i)[1][Len(EntryAt(h, i)[1]) - 1] = OpsOf(h)[i].op
                 /\ RecordOf(EntryAt(h, i)) = RecordFor(OpsOf(h)[i], i)
           /\ \A x \in AllEntries(h) : Last(x[1]) \in 1..Len(OpsOf(h)) /\ x = EntryAt(h, Last(x[1]))
<1> DEFINE N == Len(OpsOf(h))
<1>1. N \in Nat /\ \A i \in 1..N : OpsOf(h)[i] \in Operation /\ i \in Nat
  BY OpsAre
<1>2. \A i \in 1..N :
         /\ EntryAt(h, i) \in KeyValue
         /\ UserKey(EntryAt(h, i)) = OpsOf(h)[i].key /\ Last(EntryAt(h, i)[1]) = i
         /\ EntryAt(h, i)[1][Len(EntryAt(h, i)[1]) - 1] = OpsOf(h)[i].op
         /\ RecordOf(EntryAt(h, i)) = RecordFor(OpsOf(h)[i], i)
  BY <1>1, EntryIs DEF EntryAt
<1> HIDE DEF N
<1>3. IsFiniteSet(AllEntries(h))
  <2>1. IsFiniteSet(1..N)
    BY <1>1, FS_Interval
  <2> DEFINE f == [i \in 1..N |-> EntryAt(h, i)]
             T == {EntryAt(h, i) : i \in 1..N}
  <2>2. f \in Surjection(1..N, T)
    BY DEF Surjection
  <2>3. IsFiniteSet(T)
    <3> HIDE DEF f, T
    <3> QED
      BY <2>1, <2>2, FS_Surjection
  <2> QED
    BY <2>3 DEF AllEntries, N
<1>4. AllEntries(h) = {EntryAt(h, i) : i \in 1..N}
  BY DEF AllEntries, N
<1>5. AllEntries(h) \subseteq KeyValue
  BY <1>2, <1>4
<1>6. \A x \in AllEntries(h) : Last(x[1]) \in 1..N /\ x = EntryAt(h, Last(x[1]))
  BY <1>2, <1>4
<1> QED
  BY <1>2, <1>3, <1>5, <1>6 DEF N

\* Internal keys are in order: user keys, and under one key the newest first.
LEMMA EntriesInOrder ==
    ASSUME NEW h \in Seq(Batch)
    PROVE  \A T \in SUBSET AllEntries(h) : T # {} => \E x \in T : \A y \in T \ {x} : EntryBefore(x, y)
<1> DEFINE S == AllEntries(h)
           R == {p \in S \X S : EntryBefore(p[1], p[2])}
           K(x) == UserKey(x)
           N(x) == Last(x[1])
<1>1. \A x, y : EntryBefore(x, y) <=> LexBefore(K(x), K(y)) \/ (K(x) = K(y) /\ N(x) > N(y))
  BY DEF EntryBefore, UserKey
<1>2. \A x \in S : K(x) \in Seq(Nat) /\ N(x) \in Nat
  <2>1. \A i \in 1..Len(OpsOf(h)) : OpsOf(h)[i].key \in Seq(Nat) /\ i \in Nat
    BY OpsAre DEF Operation
  <2>2. \A x \in S : N(x) \in 1..Len(OpsOf(h)) /\ x = EntryAt(h, N(x))
    BY EntriesAre
  <2>3. \A i \in 1..Len(OpsOf(h)) : K(EntryAt(h, i)) = OpsOf(h)[i].key
    BY EntriesAre
  <2> HIDE DEF S, K, N
  <2> QED
    BY <2>1, <2>2, <2>3
<1>3. \A x, y \in S : N(x) = N(y) => x = y
  BY EntriesAre
<1>4. IsFiniteSet(S)
  BY EntriesAre
<1> HIDE DEF S, K, N
<1>5. ASSUME NEW x \in S, NEW y \in S, x # y
      PROVE  EntryBefore(x, y) \/ EntryBefore(y, x)
  <2>1. K(x) \in Seq(Nat) /\ K(y) \in Seq(Nat) /\ N(x) \in Nat /\ N(y) \in Nat /\ N(x) # N(y)
    BY <1>2, <1>3, <1>5
  <2>2. CASE K(x) = K(y)
    BY <1>1, <2>1, <2>2
  <2>3. CASE K(x) # K(y)
    BY <1>1, <2>1, <2>3, LexOrders
  <2> QED
    BY <2>2, <2>3
<1>6. ASSUME NEW x \in S, NEW y \in S, NEW z \in S, EntryBefore(x, y), EntryBefore(y, z)
      PROVE  EntryBefore(x, z)
  <2>1. /\ K(x) \in Seq(Nat) /\ K(y) \in Seq(Nat) /\ K(z) \in Seq(Nat)
        /\ N(x) \in Nat /\ N(y) \in Nat /\ N(z) \in Nat
    BY <1>2
  <2>2. LexBefore(K(x), K(y)) /\ LexBefore(K(y), K(z)) => LexBefore(K(x), K(z))
    BY <2>1, LexOrders
  <2>3. LexBefore(K(x), K(y)) \/ (K(x) = K(y) /\ N(x) > N(y))
    BY <1>1, <1>6
  <2>4. LexBefore(K(y), K(z)) \/ (K(y) = K(z) /\ N(y) > N(z))
    BY <1>1, <1>6
  <2>5. LexBefore(K(x), K(z)) \/ (K(x) = K(z) /\ N(x) > N(z))
    BY <2>1, <2>2, <2>3, <2>4
  <2> QED
    BY <1>1, <2>5
<1>7. \A x, y \in S : <<x, y>> \in R <=> EntryBefore(x, y)
  OBVIOUS
<1> HIDE DEF R
<1>8. OrdersAll(R, S)
  BY <1>5, <1>6, <1>7 DEF OrdersAll
<1>9. \A T \in SUBSET S : T # {} => \E x \in T : \A y \in T \ {x} : <<x, y>> \in R
  BY <1>4, <1>8, HasFirst
<1>10. \A T \in SUBSET S : T # {} => \E x \in T : \A y \in T \ {x} : EntryBefore(x, y)
  <2> SUFFICES ASSUME NEW T \in SUBSET S, T # {}
               PROVE  \E x \in T : \A y \in T \ {x} : EntryBefore(x, y)
    OBVIOUS
  <2>1. PICK x \in T : \A y \in T \ {x} : <<x, y>> \in R
    BY <1>9
  <2>2. \A y \in T \ {x} : EntryBefore(x, y)
    BY <1>7, <2>1
  <2> QED
    BY <2>2
<1> QED
  BY <1>10 DEF S

\* What a flush or a compaction writes is all it is given.
LEMMA EntriesAreListed ==
    ASSUME NEW h \in Seq(Batch), NEW S \in SUBSET AllEntries(h)
    PROVE  Ordered(S, EntryBefore) \in Seq(S) /\ ToSet(Ordered(S, EntryBefore)) = S
<1> DEFINE First(T) == CHOOSE x \in T : \A y \in T \ {x} : EntryBefore(x, y)
           F == [T \in SUBSET S |-> First(T)]
           L == CHOOSE g : g = [T \in SUBSET S |-> IF T = {} THEN <<>> ELSE <<First(T)>> \o g[T \ {First(T)}]]
<1>1. \A T \in SUBSET S : T # {} => First(T) \in T
  <2> SUFFICES ASSUME NEW T \in SUBSET S, T # {}
               PROVE  First(T) \in T
    OBVIOUS
  <2>1. T \in SUBSET AllEntries(h)
    OBVIOUS
  <2>2. \E x \in T : \A y \in T \ {x} : EntryBefore(x, y)
    BY <2>1, EntriesInOrder
  <2> QED
    BY <2>2, Zenon
<1>2. Ordered(S, EntryBefore) = L[S]
  BY Zenon DEF Ordered
<1> HIDE DEF First
<1>3. \A T \in SUBSET S : F[T] = First(T)
  OBVIOUS
<1> HIDE DEF F
<1>4. \A g : ListsBy(S, F, g) <=> g = [T \in SUBSET S |-> IF T = {} THEN <<>> ELSE <<First(T)>> \o g[T \ {First(T)}]]
  <2> SUFFICES ASSUME NEW g
               PROVE  [T \in SUBSET S |-> IF T = {} THEN <<>> ELSE <<F[T]>> \o g[T \ {F[T]}]]
                        = [T \in SUBSET S |-> IF T = {} THEN <<>> ELSE <<First(T)>> \o g[T \ {First(T)}]]
    BY Zenon DEF ListsBy
  <2> QED
    BY <1>3, Zenon
<1>5. IsFiniteSet(S) /\ \A T \in SUBSET S : T # {} => F[T] \in T
  <2>1. IsFiniteSet(S)
    BY EntriesAre, FS_Subset
  <2> QED
    BY <1>1, <1>3, <2>1
<1>6. \E g : ListsBy(S, F, g)
  BY <1>5, HasListing
<1>7. ListsBy(S, F, L)
  <2>1. \E g : g = [T \in SUBSET S |-> IF T = {} THEN <<>> ELSE <<First(T)>> \o g[T \ {First(T)}]]
    BY <1>4, <1>6
  <2>2. L = [T \in SUBSET S |-> IF T = {} THEN <<>> ELSE <<First(T)>> \o L[T \ {First(T)}]]
    BY <2>1, Zenon
  <2> HIDE DEF L
  <2> QED
    BY <1>4, <2>2
<1> HIDE DEF L
<1>8. \A g : ListsBy(S, F, g) => g[S] \in Seq(S) /\ \A x \in S : \E i \in DOMAIN g[S] : g[S][i] = x
  BY <1>5, HasListing
<1>9. L[S] \in Seq(S) /\ \A x \in S : \E i \in DOMAIN L[S] : L[S][i] = x
  BY <1>7, <1>8
<1>10. ToSet(L[S]) = S
  <2>1. \A s \in Seq(S) : \A i \in DOMAIN s : s[i] \in S
    OBVIOUS
  <2>2. PICK s : s = L[S]
    OBVIOUS
  <2>3. s \in Seq(S) /\ \A x \in S : \E i \in DOMAIN s : s[i] = x
    BY <1>9, <2>2
  <2>4. {s[i] : i \in DOMAIN s} = S
    BY <2>1, <2>3
  <2> QED
    BY <2>2, <2>4 DEF ToSet
<1> QED
  BY <1>2, <1>9, <1>10

-----------------------------------------------------------------------------
(* The tables and their copies hold what Teams wrote.                      *)

EntriesOf(f) == ParseTable(tables[f]).entries

\* A live table is made of entries Teams wrote, and a mirrored one reads as such.
HeldInv ==
    /\ obsolete \subseteq DOMAIN tables
    /\ \A f \in DOMAIN tables :
          EntriesOf(f) \in Seq(AllEntries(history)) /\ tables[f] = Table(EntriesOf(f))
    /\ \A f \in DOMAIN dir.tables : ReadsSome(dir.tables[f], AllEntries(history))

\* A batch more leaves the operations as they are and adds its own.
LEMMA OpsGrow ==
    ASSUME NEW h \in Seq(Batch), NEW b \in Batch
    PROVE  /\ OpsOf(Append(h, b)) = OpsOf(h) \o b
           /\ Len(OpsOf(h)) <= Len(OpsOf(Append(h, b)))
           /\ \A i \in 1..Len(OpsOf(h)) : OpsOf(Append(h, b))[i] = OpsOf(h)[i]
           /\ AllEntries(h) \subseteq AllEntries(Append(h, b))
<1> DEFINE o == OpsOf(h)
           p == OpsOf(Append(h, b))
<1>1. h \in Seq(Seq(Operation)) /\ b \in Seq(Operation)
  BY DEF Batch
<1>2. o \in Seq(Operation)
  BY OpsAre
<1>3. p = o \o b
  BY <1>1, FlattenMore DEF OpsOf
<1> HIDE DEF o, p
<1>4. Len(p) = Len(o) + Len(b) /\ \A i \in 1..(Len(o) + Len(b)) : p[i] = IF i <= Len(o) THEN o[i] ELSE b[i - Len(o)]
  BY <1>1, <1>2, <1>3, ConcatProperties
<1>5. Len(o) \in Nat /\ Len(b) \in Nat
  BY <1>1, <1>2, LenProperties
<1>6. Len(o) <= Len(p) /\ \A i \in 1..Len(o) : i \in 1..Len(p) /\ p[i] = o[i]
  BY <1>4, <1>5
<1>7. \A i \in 1..Len(o) : EntryAt(h, i) = EntryAt(Append(h, b), i)
  BY <1>6 DEF EntryAt, o, p
<1>8. AllEntries(h) \subseteq AllEntries(Append(h, b))
  <2>1. AllEntries(h) = {EntryAt(h, i) : i \in 1..Len(o)}
        /\ AllEntries(Append(h, b)) = {EntryAt(Append(h, b), i) : i \in 1..Len(p)}
    BY DEF AllEntries, o, p
  <2> QED
    BY <1>6, <1>7, <2>1
<1> QED
  BY <1>3, <1>6, <1>8 DEF o, p

\* What reads as some of these reads as some of more.
LEMMA ReadsMore ==
    ASSUME NEW t, NEW S, ReadsSome(t, S), NEW T, S \subseteq T
    PROVE  ReadsSome(t, T)
<1>1. PICK out \in Seq(S), l \in BOOLEAN : ParseTable(t) = [entries |-> out, lossy |-> l]
  BY DEF ReadsSome
<1>2. out \in Seq(T)
  OBVIOUS
<1> QED
  BY <1>1, <1>2 DEF ReadsSome

\* The written log, as entries.
LEMMA LogEntriesAre ==
    ASSUME LogInv
    PROVE  /\ LogEntries = {EntryAt(history, i) : i \in (Written(base) + 1)..Len(OpsOf(history))}
           /\ LogEntries \subseteq AllEntries(history)
           /\ Written(base) \in Nat /\ Len(OpsOf(history)) \in Nat /\ Written(base) = WrittenOf(history, base)
<1>1. Written(base) = WrittenOf(history, base)
  BY DEF Written, WrittenOf
<1>2. history \in Seq(Batch) /\ base \in 0..Len(history)
  BY DEF LogInv
<1>3. Written(base) \in Nat /\ Len(OpsOf(history)) \in Nat
  BY <1>1, <1>2, WrittenMore, OpsAre
<1>4. NextSeq - 1 = Len(OpsOf(history))
  BY <1>3 DEF NextSeq
<1>5. LogEntries = {EntryAt(history, i) : i \in (Written(base) + 1)..Len(OpsOf(history))}
  BY <1>4 DEF LogEntries, EntryAt
<1>6. \A i \in (Written(base) + 1)..Len(OpsOf(history)) : i \in 1..Len(OpsOf(history))
  BY <1>3
<1>7. LogEntries \subseteq AllEntries(history)
  BY <1>5, <1>6 DEF AllEntries
<1> QED
  BY <1>1, <1>3, <1>5, <1>7

\* What a compaction merges.
LEMMA MergedAre ==
    ASSUME HeldInv
    PROVE  /\ TableEntries \subseteq AllEntries(history)
           /\ Undeleted(Newest(TableEntries)) \subseteq TableEntries
<1>1. \A s \in Seq(AllEntries(history)) : ToSet(s) \subseteq AllEntries(history)
  BY DEF ToSet
<1>2. \A f \in DOMAIN tables : ToSet(EntriesOf(f)) \subseteq AllEntries(history)
  BY <1>1 DEF HeldInv
<1>3. TableEntries \subseteq AllEntries(history)
  BY <1>2 DEF TableEntries, EntriesOf
<1> QED
  BY <1>3 DEF Undeleted, Newest

\* The table made of a set of entries reads as a list of them.
LEMMA MadeOf ==
    ASSUME NEW h \in Seq(Batch), NEW S \in SUBSET AllEntries(h)
    PROVE  LET t == Table(Ordered(S, EntryBefore))
           IN /\ ParseTable(t).entries \in Seq(AllEntries(h)) /\ ToSet(ParseTable(t).entries) = S
              /\ t = Table(ParseTable(t).entries)
<1> DEFINE es == Ordered(S, EntryBefore)
<1>1. es \in Seq(S) /\ ToSet(es) = S
  BY EntriesAreListed
<1> HIDE DEF es
<1>2. es \in Seq(AllEntries(h)) /\ es \in Seq(KeyValue)
  <2>1. S \subseteq KeyValue
    BY EntriesAre
  <2> QED
    BY <1>1, <2>1
<1>3. ParseTable(Table(es)) = [entries |-> es, lossy |-> FALSE]
  BY <1>2, TableReadsBack
<1>4. ParseTable(Table(es)).entries = es
  BY <1>3
<1> QED
  BY <1>1, <1>2, <1>4 DEF es

\* The step that adds a table.
LEMMA HeldMore ==
    ASSUME IInv, HeldInv, history \in Seq(Batch), NEW S \in SUBSET AllEntries(history),
           tables' = TablesWith(Table(Ordered(S, EntryBefore))), UNCHANGED <<history, dir>>
    PROVE  /\ \A f \in DOMAIN tables' :
                 EntriesOf(f)' \in Seq(AllEntries(history)) /\ tables'[f] = Table(EntriesOf(f)')
           /\ DOMAIN tables' = DOMAIN tables \union {nextFile}
           /\ ToSet(ParseTable(tables'[nextFile]).entries) = S
           /\ \A f \in DOMAIN tables : f # nextFile /\ EntriesOf(f)' = EntriesOf(f)
<1> DEFINE t == Table(Ordered(S, EntryBefore))
<1>1. tables' = [f \in DOMAIN tables \union {nextFile} |-> IF f = nextFile THEN t ELSE tables[f]]
  BY DEF TablesWith
<1>2. /\ ParseTable(t).entries \in Seq(AllEntries(history)) /\ ToSet(ParseTable(t).entries) = S
      /\ t = Table(ParseTable(t).entries)
  BY MadeOf
<1>3. \A f \in DOMAIN tables : f # nextFile
  BY DEF IInv, NumbersOK
<1> HIDE DEF t
<1>4. \A f \in DOMAIN tables : tables'[f] = tables[f] /\ EntriesOf(f)' = EntriesOf(f)
  BY <1>1, <1>3 DEF EntriesOf
<1>5. tables'[nextFile] = t
  BY <1>1
<1>6. DOMAIN tables' = DOMAIN tables \union {nextFile}
  BY <1>1
<1>7. \A f \in DOMAIN tables' :
         EntriesOf(f)' \in Seq(AllEntries(history)) /\ tables'[f] = Table(EntriesOf(f)')
  <2> SUFFICES ASSUME NEW f \in DOMAIN tables'
               PROVE  EntriesOf(f)' \in Seq(AllEntries(history)) /\ tables'[f] = Table(EntriesOf(f)')
    OBVIOUS
  <2>1. CASE f = nextFile
    <3>1. EntriesOf(f)' = ParseTable(t).entries /\ tables'[f] = t
      BY <1>5, <2>1 DEF EntriesOf
    <3> QED
      BY <1>2, <3>1
  <2>2. CASE f \in DOMAIN tables
    BY <1>4, <2>2 DEF HeldInv
  <2> QED
    BY <1>6, <2>1, <2>2
<1> QED
  BY <1>2, <1>3, <1>4, <1>5, <1>6, <1>7

\* The copies of a load.
LEMMA HeldIsCopied ==
    ASSUME IInv, HeldInv, history \in Seq(Batch), NEW full, NEW d \in Mirrors(full)
    PROVE  \A f \in DOMAIN d.tables : ReadsSome(d.tables[f], AllEntries(history))
<1>1. \A f \in DOMAIN tables : f \in Copied(full) \/ dir.tables[f] \in Copies(tables[f])
  BY DEF IInv, DirOK, Copied
<1>2. DOMAIN d.tables = DOMAIN tables /\ \A f \in DOMAIN tables : d.tables[f] \in Copies(tables[f])
  BY <1>1, MirrorShape
<1>3. ASSUME NEW f \in DOMAIN tables
      PROVE  ReadsSome(d.tables[f], AllEntries(history))
  <2> DEFINE es == EntriesOf(f)
             S == AllEntries(history)
             c == d.tables[f]
  <2>1. es \in Seq(S) /\ tables[f] = Table(es)
    BY DEF HeldInv
  <2>2. S \subseteq KeyValue
    BY EntriesAre
  <2>3. c \in {Table(es), Truncated(Table(es)), Damaged(Table(es))}
    BY <1>2, <2>1 DEF Copies
  <2> HIDE DEF es, S, c
  <2>4. ReadsSome(c, S)
    BY <2>1, <2>2, <2>3, SpoiltReads
  <2> QED
    BY <2>4 DEF c, S
<1> QED
  BY <1>2, <1>3

\* Every live table is made of entries Teams wrote, in the order of their keys, and
\* every mirrored one, whole, cut short or damaged, reads as some of those.
THEOREM TablesHoldHistory == Spec => []HeldInv
<1>1. Init => HeldInv
  <2> SUFFICES ASSUME Init
               PROVE  HeldInv
    OBVIOUS
  <2>1. tables = <<>> /\ obsolete = {} /\ dir = [tables |-> <<>>, log |-> <<>>]
    BY DEF Init, NoTables
  <2>2. DOMAIN tables = {} /\ DOMAIN dir.tables = {}
    BY <2>1
  <2> QED
    BY <2>1, <2>2 DEF HeldInv
<1>2. IInv /\ LogInv /\ HeldInv /\ [Next]_vars => HeldInv'
  <2> SUFFICES ASSUME IInv, LogInv, HeldInv, [Next]_vars
               PROVE  HeldInv'
    OBVIOUS
  <2>0. history \in Seq(Batch)
    BY DEF LogInv
  <2>1. ASSUME NEW b \in Batches, Write(b)
        PROVE  HeldInv'
    <3>1. history' = Append(history, b) /\ UNCHANGED <<tables, obsolete, dir>> /\ b \in Batch
      BY <2>1, BatchesAreWritten DEF Write
    <3>2. AllEntries(history) \subseteq AllEntries(history')
      BY <2>0, <3>1, OpsGrow
    <3>3. \A s \in Seq(AllEntries(history)) : s \in Seq(AllEntries(history'))
      BY <3>2
    <3>4. \A f \in DOMAIN tables' : EntriesOf(f)' \in Seq(AllEntries(history')) /\ tables'[f] = Table(EntriesOf(f)')
      BY <3>1, <3>3 DEF HeldInv, EntriesOf
    <3>5. \A f \in DOMAIN (dir').tables : ReadsSome((dir').tables[f], AllEntries(history'))
      BY <3>1, <3>2, ReadsMore DEF HeldInv
    <3>6. obsolete' \subseteq DOMAIN tables'
      BY <3>1 DEF HeldInv
    <3> QED
      BY <3>4, <3>5, <3>6 DEF HeldInv
  <2>2. CASE Flush
    <3>1. /\ tables' = TablesWith(Table(Ordered(LogEntries, EntryBefore)))
          /\ UNCHANGED <<history, dir, obsolete>>
      BY <2>2 DEF Flush
    <3>2. LogEntries \in SUBSET AllEntries(history)
      BY LogEntriesAre
    <3>3. DOMAIN tables' = DOMAIN tables \union {nextFile}
          /\ \A f \in DOMAIN tables' :
                 EntriesOf(f)' \in Seq(AllEntries(history)) /\ tables'[f] = Table(EntriesOf(f)')
      BY <2>0, <3>1, <3>2, HeldMore
    <3> QED
      BY <3>1, <3>3 DEF HeldInv
  <2>3. CASE Compact
    <3>1. /\ tables' = TablesWith(Table(Ordered(Undeleted(Newest(TableEntries)), EntryBefore)))
          /\ UNCHANGED <<history, dir>> /\ obsolete' = DOMAIN tables
      BY <2>3 DEF Compact
    <3>2. Undeleted(Newest(TableEntries)) \in SUBSET AllEntries(history)
      BY MergedAre
    <3>3. DOMAIN tables' = DOMAIN tables \union {nextFile}
          /\ \A f \in DOMAIN tables' :
                 EntriesOf(f)' \in Seq(AllEntries(history)) /\ tables'[f] = Table(EntriesOf(f)')
      BY <2>0, <3>1, <3>2, HeldMore
    <3> QED
      BY <3>1, <3>3 DEF HeldInv
  <2>4. CASE RemoveObsolete
    <3>1. tables' = [f \in DOMAIN tables \ obsolete |-> tables[f]]
      BY <2>4 DEF RemoveObsolete, Restrict
    <3>2. UNCHANGED <<history, dir>> /\ obsolete' = {}
      BY <2>4 DEF RemoveObsolete
    <3>3. \A f \in DOMAIN tables' : f \in DOMAIN tables /\ tables'[f] = tables[f]
      BY <3>1
    <3> QED
      BY <3>2, <3>3 DEF HeldInv, EntriesOf
  <2>5. CASE FullLoad
    <3>1. PICK d \in Mirrors(TRUE) : dir' = d /\ UNCHANGED teams
      BY <2>5 DEF FullLoad
    <3>2. \A f \in DOMAIN d.tables : ReadsSome(d.tables[f], AllEntries(history))
      BY <2>0, HeldIsCopied
    <3> QED
      BY <3>1, <3>2 DEF HeldInv, EntriesOf, teams
  <2>6. ASSUME NEW bad \in Unreadable, ReuseLoad(bad)
        PROVE  HeldInv'
    <3>1. PICK d \in Mirrors(FALSE) : dir' = d /\ UNCHANGED teams
      BY <2>6, ReuseMirrors
    <3>2. \A f \in DOMAIN d.tables : ReadsSome(d.tables[f], AllEntries(history))
      BY <2>0, HeldIsCopied
    <3> QED
      BY <3>1, <3>2 DEF HeldInv, EntriesOf, teams
  <2>7. CASE RemoveLog \/ UNCHANGED vars
    <3>1. UNCHANGED <<history, tables, obsolete, dir>>
      BY <2>7 DEF RemoveLog, vars
    <3> QED
      BY <3>1 DEF HeldInv, EntriesOf
  <2> QED
    BY <2>1, <2>2, <2>3, <2>4, <2>5, <2>6, <2>7 DEF Next
<1> QED
  BY <1>1, <1>2, Inductive, LogIsRead, PTL DEF Spec

\* Any table of the mirror, cut short or damaged as it may be, arrives from a worker
\* as it was parsed there, so that a load with any of the parses done by workers is
\* the serial one (indexeddb.ts:294-341, table-transfer.ts).
THEOREM AsyncIsSyncCorrect == Spec => []AsyncIsSync
<1>1. LogInv /\ HeldInv => AsyncIsSync
  <2> SUFFICES ASSUME LogInv, HeldInv, NEW parsed \in SUBSET DOMAIN dir.tables
               PROVE  LoadSnapshotAsync(dir, {}, parsed) = LoadSnapshot(dir, {})
    BY DEF AsyncIsSync
  <2> DEFINE async == [f \in DOMAIN dir.tables |->
                          IF f \in parsed THEN FromWorker(dir, f) ELSE ReadAndParse(dir, {}, f)]
             sync == [f \in DOMAIN dir.tables |-> ReadAndParse(dir, {}, f)]
  <2>1. AllEntries(history) \subseteq KeyValue
    BY EntriesAre DEF LogInv
  <2>2. ASSUME NEW f \in DOMAIN dir.tables
        PROVE  FromWorker(dir, f) = ReadAndParse(dir, {}, f)
    <3>1. PICK out \in Seq(AllEntries(history)), l \in BOOLEAN : ParseTable(dir.tables[f]) = [entries |-> out, lossy |-> l]
      BY DEF HeldInv, ReadsSome
    <3>2. out \in Seq(KeyValue)
      BY <2>1
    <3>3. UnpackTable(PackTable([entries |-> out, lossy |-> l])) = [entries |-> out, lossy |-> l]
      BY <3>2, ArrivesAsSent
    <3>4. FromWorker(dir, f) = UnpackTable(PackTable(ParseTable(dir.tables[f])))
      BY DEF FromWorker
    <3>5. ReadAndParse(dir, {}, f) = ParseTable(dir.tables[f])
      BY DEF ReadAndParse
    <3> QED
      BY <3>1, <3>3, <3>4, <3>5, Zenon
  <2>3. async = sync
    BY <2>2, Zenon
  <2>4. LoadSnapshotAsync(dir, {}, parsed) = CollectSnapshot(ReadLogsInto(ReadTablesInto(Empty, LdbFilesOf(dir), async), dir))
    BY Zenon DEF LoadSnapshotAsync
  <2>5. LoadSnapshot(dir, {}) = CollectSnapshot(ReadLogsInto(ReadTablesInto(Empty, LdbFilesOf(dir), sync), dir))
    BY Zenon DEF LoadSnapshot, BuildDedupMap
  <2> HIDE DEF async, sync
  <2> QED
    BY <2>3, <2>4, <2>5
<1> QED
  BY <1>1, LogIsRead, TablesHoldHistory, PTL
=============================================================================
