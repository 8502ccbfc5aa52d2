---------------------------- MODULE FormatProofs ----------------------------
(***************************************************************************)
(* What the reader makes of what LevelDB writes, for any batches: of a log,*)
(* whole or cut anywhere, and of a table, whole or brought by a worker.    *)
(***************************************************************************)
EXTENDS Reader, NumberFacts, SequenceTheorems

-----------------------------------------------------------------------------
(* Blocks of the log.                                                      *)

\* A position has the rest of its block before it, and a block begins after that.
LEMMA BlockEnds ==
    ASSUME NEW pos \in Nat
    PROVE  /\ LeftInBlock(pos) \in Nat /\ LeftInBlock(pos) > 0
           /\ LeftInBlock(pos + LeftInBlock(pos)) = Block
<1>1. Block \in Nat /\ Block > 2
  BY BlockHoldsMore DEF Header
<1>2. (pos % Block) \in 0..(Block - 1)
  BY <1>1
<1>3. PICK q \in Nat : pos = Block * q + (pos % Block)
  <2>1. pos \div Block \in Nat /\ pos = Block * (pos \div Block) + (pos % Block)
    BY <1>1
  <2> QED BY <2>1
<1>4. \A k \in Nat : (Block * k) % Block = 0
  <2> SUFFICES ASSUME NEW k \in Nat
               PROVE  (Block * k) % Block = 0
    OBVIOUS
  <2> DEFINE d == (Block * k) \div Block
             r == (Block * k) % Block
  <2>1. Block * k \in Nat
    BY <1>1
  <2>2. d \in Int /\ r \in 0..(Block - 1) /\ Block * k = Block * d + r
    BY <1>1, <2>1
  <2> HIDE DEF d, r
  <2>3. r = Block * (k - d)
    BY <1>1, <2>2
  <2>4. k - d \in Int
    BY <2>2
  <2>5. CASE k - d >= 1
    <3>1. Block * (k - d) >= Block
      BY <1>1, <2>4, <2>5
    <3> QED BY <1>1, <2>2, <2>3, <3>1
  <2>6. CASE k - d <= -1
    <3>1. Block * (k - d) <= - Block
      BY <1>1, <2>4, <2>6
    <3> QED BY <1>1, <2>2, <2>3, <3>1
  <2>7. CASE k - d = 0
    BY <1>1, <2>3, <2>7 DEF r
  <2> QED
    BY <2>4, <2>5, <2>6, <2>7
<1> DEFINE r == pos % Block
<1>5. r \in 0..(Block - 1) /\ pos = Block * q + r
  BY <1>2, <1>3
<1>6. LeftInBlock(pos) = Block - r
  BY DEF LeftInBlock
<1> HIDE DEF r
<1>7. pos + (Block - r) = Block * (q + 1)
  BY <1>1, <1>5
<1>8. (pos + (Block - r)) % Block = 0
  BY <1>4, <1>7
<1>9. LeftInBlock(pos + (Block - r)) = Block
  BY <1>1, <1>8 DEF LeftInBlock
<1> QED
  BY <1>1, <1>5, <1>6, <1>9
-----------------------------------------------------------------------------
(* The passes of the reader.                                               *)

\* What cells there are: operations and heads of batches, padding, headers.
Kinds == {"full", "first", "middle", "last"}
PayloadCell == Operation \union [type : {"batch"}, sequence : Nat, count : Nat]
Cell == PayloadCell \union {Zero} \union [type : Kinds, len : Nat]
          \union {[type |-> "crc", covers |-> <<k, c>>] : k \in Kinds, c \in Seq(PayloadCell)}

State(pos, batches, frag) == [pos |-> pos, batches |-> batches, frag |-> frag]

PassTurn(data, c, s, x) == Pass(data, s)
Passes == INSTANCE FoldFacts WITH Op <- PassTurn

Walks(data, g) == g = [n \in Nat |-> IF n = 0 THEN State(0, <<>>, NoFrag) ELSE Pass(data, g[n - 1])]
Walk(data) == CHOOSE g : Walks(data, g)

\* The states that parseWal goes through.
LEMMA WalkIs ==
    ASSUME NEW data
    PROVE  /\ Walk(data)[0] = State(0, <<>>, NoFrag)
           /\ \A n \in Nat : Walk(data)[n + 1] = Pass(data, Walk(data)[n])
           /\ ParseWal(data) = Walk(data)[Len(data)].batches
<1>1. \E g : Walks(data, g)
  <2>1. PICK g : Passes!Iterates(data, 0, State(0, <<>>, NoFrag), data, g)
    BY Passes!Iterated
  <2>2. Walks(data, g)
    BY <2>1, Zenon DEF Passes!Iterates, PassTurn, Walks
  <2> QED
    BY <2>2
<1>2. Walks(data, Walk(data))
  BY <1>1, Zenon DEF Walk
<1> DEFINE g == Walk(data)
<1>3. g = [n \in Nat |-> IF n = 0 THEN State(0, <<>>, NoFrag) ELSE Pass(data, g[n - 1])]
  BY <1>2, Zenon DEF Walks
<1>4. ParseWal(data) = g[Len(data)].batches
  BY Zenon DEF ParseWal, Walk, Walks, State
<1> HIDE DEF g
<1>5. g[0] = State(0, <<>>, NoFrag)
  BY <1>3
<1>6. ASSUME NEW n \in Nat
      PROVE  g[n + 1] = Pass(data, g[n])
  <2>1. n + 1 \in Nat /\ n + 1 # 0 /\ (n + 1) - 1 = n
    OBVIOUS
  <2>2. g[n + 1] = IF n + 1 = 0 THEN State(0, <<>>, NoFrag) ELSE Pass(data, g[(n + 1) - 1])
    BY <1>3, <2>1, Zenon
  <2> QED
    BY <2>1, <2>2
<1> QED
  BY <1>4, <1>5, <1>6 DEF g

\* The reader comes to s within as many passes as there are cells before it.
Reached(data, s) == \E n \in Nat : n <= s.pos /\ n <= Len(data) /\ Walk(data)[n] = s

\* It starts before the first cell.
LEMMA StartReached ==
    ASSUME NEW data \in Seq(Cell)
    PROVE  Reached(data, State(0, <<>>, NoFrag))
<1> DEFINE s == State(0, <<>>, NoFrag)
<1>1. Walk(data)[0] = s
  BY WalkIs
<1>2. s.pos = 0
  BY DEF State
<1>3. 0 \in Nat /\ 0 <= s.pos /\ 0 <= Len(data)
  <2>1. Len(data) \in Nat
    OBVIOUS
  <2> HIDE DEF s
  <2> QED
    BY <1>2, <2>1
<1> HIDE DEF s
<1> QED
  BY <1>1, <1>3, Zenon DEF Reached, s

\* And goes on by passes that move.
LEMMA PassReached ==
    ASSUME NEW data \in Seq(Cell), NEW s, Reached(data, s), s.pos \in Nat, s.pos + Header <= Len(data),
           NEW t, t = Pass(data, s), t.pos \in Nat, t.pos > s.pos
    PROVE  Reached(data, t)
<1>1. PICK n \in Nat : n <= s.pos /\ n <= Len(data) /\ Walk(data)[n] = s
  BY DEF Reached
<1>2. Walk(data)[n + 1] = t
  BY <1>1, WalkIs
<1>3. n + 1 \in Nat /\ n + 1 <= t.pos /\ n + 1 <= Len(data)
  BY <1>1 DEF Header
<1> QED
  BY <1>2, <1>3 DEF Reached

\* Where a pass does not move, the log ends.
LEMMA EndReached ==
    ASSUME NEW data \in Seq(Cell), NEW s, Reached(data, s), Pass(data, s) = s
    PROVE  ParseWal(data) = s.batches
<1>1. PICK n \in Nat : n <= Len(data) /\ Walk(data)[n] = s
  BY DEF Reached
<1> DEFINE N == Len(data) - n
           S == {k \in 0..N : Walk(data)[n + k] = s}
<1>2. N \in Nat /\ n + N = Len(data)
  BY <1>1
<1>3. 0 \in S /\ \A k \in S : k < N => k + 1 \in S
  <2>1. 0 \in S
    BY <1>1, <1>2
  <2>2. ASSUME NEW k \in S, k < N
        PROVE  k + 1 \in S
    <3>1. n + k \in Nat /\ n + (k + 1) = (n + k) + 1 /\ k + 1 \in 0..N
      BY <1>2, <2>2
    <3>2. Walk(data)[(n + k) + 1] = Pass(data, Walk(data)[n + k])
      BY <3>1, WalkIs
    <3>3. Walk(data)[n + k] = s
      OBVIOUS
    <3> QED
      BY <3>1, <3>2, <3>3
  <2> QED
    BY <2>1, <2>2
<1>4. S \in SUBSET (0..N)
  OBVIOUS
<1> HIDE DEF S, N
<1>5. S = 0..N
  BY <1>2, <1>3, <1>4, Counting
<1>6. N \in S
  BY <1>2, <1>5
<1>7. Walk(data)[Len(data)] = s
  BY <1>2, <1>6 DEF S
<1> QED
  BY <1>7, WalkIs

-----------------------------------------------------------------------------
(* One pass.                                                               *)

\* What Pass does, case by case.
LEMMA PassIs ==
    ASSUME NEW data, NEW pos \in Nat, NEW bs, NEW fr
    PROVE  LET s == State(pos, bs, fr)
               left == LeftInBlock(pos)
               h == data[pos + 2]
               next == pos + Header + h.len
           IN /\ pos + Header > Len(data) => Pass(data, s) = s
              /\ ~ (pos + Header > Len(data)) /\ left < Header => Pass(data, s) = State(pos + left, bs, fr)
              /\ ~ (pos + Header > Len(data)) /\ ~ (left < Header) /\ h.type # "zero" /\ Torn(data, pos) =>
                    Pass(data, s) = s
              /\ ~ (pos + Header > Len(data)) /\ ~ (left < Header) /\ h.type # "zero" /\ ~ Torn(data, pos) =>
                    Pass(data, s) = Assemble(State(next, bs, fr), h.type, SubSeq(data, pos + Header + 1, next))
<1> DEFINE s == State(pos, bs, fr)
           left == LeftInBlock(pos)
           h == data[pos + 2]
           next == pos + Header + h.len
<1>1. s.pos = pos /\ \A p : [s EXCEPT !.pos = p] = State(p, bs, fr)
  BY DEF State
<1>2. Pass(data, s) =
        IF s.pos + Header > Len(data) THEN s
        ELSE IF LeftInBlock(s.pos) < Header \/ data[s.pos + 2].type = "zero"
             THEN [s EXCEPT !.pos = s.pos + LeftInBlock(s.pos)]
        ELSE IF Torn(data, s.pos) THEN s
        ELSE Assemble([s EXCEPT !.pos = s.pos + Header + data[s.pos + 2].len], data[s.pos + 2].type,
                      SubSeq(data, s.pos + Header + 1, s.pos + Header + data[s.pos + 2].len))
  <2>1. \A v : [s EXCEPT !.pos = @ + v] = [s EXCEPT !.pos = s.pos + v]
    BY DEF State
  <2> HIDE DEF s
  <2> QED
    BY <2>1, Zenon DEF Pass
<1> HIDE DEF s
<1>3. Pass(data, s) =
        IF pos + Header > Len(data) THEN s
        ELSE IF left < Header \/ h.type = "zero" THEN State(pos + left, bs, fr)
        ELSE IF Torn(data, pos) THEN s
        ELSE Assemble(State(next, bs, fr), h.type, SubSeq(data, pos + Header + 1, next))
  BY <1>1, <1>2
<1> HIDE DEF left, h, next
<1> QED
  BY <1>3 DEF s, left, h, next

\* Where no header fits any more the pass moves nothing.
LEMMA ShortPass ==
    ASSUME NEW data, NEW pos \in Nat, NEW bs, NEW fr, pos + Header > Len(data)
    PROVE  Pass(data, State(pos, bs, fr)) = State(pos, bs, fr)
BY PassIs

\* Less than a header in a block is padding.
LEMMA PaddingPass ==
    ASSUME NEW data, NEW pos \in Nat, NEW bs, NEW fr, ~ (pos + Header > Len(data)), LeftInBlock(pos) < Header
    PROVE  Pass(data, State(pos, bs, fr)) = State(pos + LeftInBlock(pos), bs, fr)
BY PassIs

\* The two cells of a header.
ChecksumAt(data, pos, type, chunk) == data[pos + 1] = [type |-> "crc", covers |-> <<type, chunk>>]
LengthAt(data, pos, type, n) == data[pos + 2] = [type |-> type, len |-> n]

\* The data behind it.
DataAt(data, pos, chunk) == SubSeq(data, pos + Header + 1, pos + Header + Len(chunk)) = chunk

\* A whole record is taken.
LEMMA WholePass ==
    ASSUME NEW data \in Seq(Cell), NEW pos \in Nat, NEW bs, NEW fr,
           NEW type \in Kinds, NEW chunk \in Seq(PayloadCell),
           LeftInBlock(pos) >= Header, pos + Header + Len(chunk) <= Len(data),
           ChecksumAt(data, pos, type, chunk), LengthAt(data, pos, type, Len(chunk)),
           DataAt(data, pos, chunk)
    PROVE  Pass(data, State(pos, bs, fr)) = Assemble(State(pos + Header + Len(chunk), bs, fr), type, chunk)
<1> DEFINE h == data[pos + 2]
           n == Len(chunk)
<1>1. h.type = type /\ h.len = n /\ h.type # "zero"
  BY DEF Kinds, LengthAt
<1>2. n \in Nat /\ Len(data) \in Nat /\ LeftInBlock(pos) \in Nat
  <2>1. n \in Nat /\ Len(data) \in Nat
    OBVIOUS
  <2> QED
    BY <2>1, BlockEnds
<1> HIDE DEF h, n
<1>3. ~ (pos + Header > Len(data)) /\ ~ (LeftInBlock(pos) < Header)
  <2>1. pos + Header + n <= Len(data)
    BY DEF n
  <2> QED
    BY <1>2, <2>1 DEF Header
<1>4. ~ Torn(data, pos)
  <2>1. ~ (pos + Header + n > Len(data))
    BY <1>2 DEF Header, n
  <2>2. data[pos + 1] = [type |-> "crc", covers |-> <<h.type, SubSeq(data, pos + Header + 1, pos + Header + h.len)>>]
    BY <1>1 DEF n, ChecksumAt, DataAt
  <2> QED
    BY <1>1, <2>1, <2>2, Zenon DEF Torn, h
<1>5. Pass(data, State(pos, bs, fr))
        = Assemble(State(pos + Header + h.len, bs, fr), h.type, SubSeq(data, pos + Header + 1, pos + Header + h.len))
  BY <1>1, <1>3, <1>4, PassIs DEF h
<1> QED
  BY <1>1, <1>5 DEF n, DataAt

\* A record of which only the header is there is torn.
LEMMA TornPass ==
    ASSUME NEW data \in Seq(Cell), NEW pos \in Nat, NEW bs, NEW fr, NEW type \in Kinds, NEW n \in Nat,
           LeftInBlock(pos) >= Header, pos + Header <= Len(data), pos + Header + n > Len(data),
           LengthAt(data, pos, type, n)
    PROVE  Pass(data, State(pos, bs, fr)) = State(pos, bs, fr)
<1> DEFINE h == data[pos + 2]
<1>1. h.type = type /\ h.len = n /\ h.type # "zero"
  BY DEF Kinds, LengthAt
<1>2. Len(data) \in Nat /\ LeftInBlock(pos) \in Nat
  BY BlockEnds, BlockHoldsMore
<1>3. ~ (pos + Header > Len(data)) /\ ~ (LeftInBlock(pos) < Header)
  BY <1>2 DEF Header
<1> HIDE DEF h
<1>4. Torn(data, pos)
  BY <1>1, Zenon DEF Torn, h
<1> QED
  BY <1>1, <1>3, <1>4, PassIs DEF h

\* What becomes of the record gathered so far: a fragment that is all of it,
LEMMA AssembleFull ==
    ASSUME NEW pos, NEW bs, NEW fr, NEW chunk
    PROVE  Assemble(State(pos, bs, fr), "full", chunk) = State(pos, bs \o Emit(chunk), fr)
<1> DEFINE s == State(pos, bs, fr)
<1>1. s.batches = bs /\ \A v : [s EXCEPT !.batches = v] = State(pos, v, fr)
  BY DEF State
<1>2. [s EXCEPT !.batches = @ \o Emit(chunk)] = [s EXCEPT !.batches = s.batches \o Emit(chunk)]
  BY DEF State
<1> HIDE DEF s
<1>3. Assemble(s, "full", chunk) = [s EXCEPT !.batches = @ \o Emit(chunk)]
  BY DEF Assemble
<1> QED
  BY <1>1, <1>2, <1>3 DEF s

\* the first,
LEMMA AssembleFirst ==
    ASSUME NEW pos, NEW bs, NEW fr, NEW chunk
    PROVE  Assemble(State(pos, bs, fr), "first", chunk) = State(pos, bs, <<chunk>>)
<1> DEFINE s == State(pos, bs, fr)
<1>1. [s EXCEPT !.frag = <<chunk>>] = State(pos, bs, <<chunk>>)
  BY DEF State
<1> HIDE DEF s
<1>2. Assemble(s, "first", chunk) = [s EXCEPT !.frag = <<chunk>>]
  BY DEF Assemble, Begun
<1> QED
  BY <1>1, <1>2 DEF s

\* one in the middle,
LEMMA AssembleMiddle ==
    ASSUME NEW pos, NEW bs, NEW fr, NEW chunk, fr # NoFrag
    PROVE  Assemble(State(pos, bs, fr), "middle", chunk) = State(pos, bs, Append(fr, chunk))
<1> DEFINE s == State(pos, bs, fr)
<1>1. s.frag = fr /\ \A v : [s EXCEPT !.frag = v] = State(pos, bs, v)
  BY DEF State
<1>2. [s EXCEPT !.frag = Append(@, chunk)] = [s EXCEPT !.frag = Append(s.frag, chunk)]
  BY DEF State
<1> HIDE DEF s
<1>3. s.frag # NoFrag => Assemble(s, "middle", chunk) = [s EXCEPT !.frag = Append(@, chunk)]
  BY DEF Assemble
<1> QED
  BY <1>1, <1>2, <1>3 DEF s

\* and the last.
LEMMA AssembleLast ==
    ASSUME NEW pos, NEW bs, NEW fr, NEW chunk, fr # NoFrag
    PROVE  Assemble(State(pos, bs, fr), "last", chunk)
             = State(pos, bs \o Emit(FlattenSeq(Append(fr, chunk))), NoFrag)
<1> DEFINE s == State(pos, bs, fr)
<1>1. s.frag = fr /\ s.pos = pos /\ s.batches = bs
  BY DEF State
<1> HIDE DEF s
<1>2. s.frag # NoFrag =>
        Assemble(s, "last", chunk)
          = [pos |-> s.pos, batches |-> s.batches \o Emit(FlattenSeq(Append(s.frag, chunk))), frag |-> NoFrag]
  BY DEF Assemble
<1> QED
  BY <1>1, <1>2 DEF s, State

-----------------------------------------------------------------------------
(* Passes over what the writer left.                                       *)

\* Sequence b goes on where a ends.
Begins(a, b) == Len(a) <= Len(b) /\ \A i \in 1..Len(a) : b[i] = a[i]

\* The header of a record: two cells.
LEMMA HeaderIs ==
    ASSUME NEW type \in Kinds, NEW chunk \in Seq(PayloadCell)
    PROVE  LET h == HeaderOf(type, chunk)
           IN /\ h \in Seq(Cell) /\ Len(h) = Header
              /\ h[1] = [type |-> "crc", covers |-> <<type, chunk>>] /\ h[2] = [type |-> type, len |-> Len(chunk)]
<1>1. [type |-> "crc", covers |-> <<type, chunk>>] \in Cell
  BY DEF Cell
<1>2. [type |-> type, len |-> Len(chunk)] \in Cell
  BY DEF Cell
<1> QED
  BY <1>1, <1>2 DEF HeaderOf, Header

\* What is a payload is a sequence of cells.
LEMMA PayloadsAreCells == ASSUME NEW chunk \in Seq(PayloadCell) PROVE chunk \in Seq(Cell)
<1>1. PayloadCell \subseteq Cell
  BY DEF Cell
<1> QED
  BY <1>1, SeqMonotonic

\* What a sequence behind another is.
LEMMA Behind ==
    ASSUME NEW S, NEW a \in Seq(S), NEW b \in Seq(S)
    PROVE  /\ a \o b \in Seq(S) /\ Len(a) \in Nat /\ Len(b) \in Nat /\ Len(a \o b) = Len(a) + Len(b)
           /\ \A i \in 1..Len(a) : (a \o b)[i] = a[i]
           /\ \A i \in 1..Len(b) : (a \o b)[Len(a) + i] = b[i]
           /\ Begins(a, a \o b)
<1> DEFINE m == Len(a)
           n == Len(b)
           c == a \o b
<1>1. m \in Nat /\ n \in Nat
  BY LenProperties
<1>2. /\ c \in Seq(S) /\ Len(c) = m + n
      /\ \A i \in 1..(m + n) : c[i] = IF i <= m THEN a[i] ELSE b[i - m]
  BY ConcatProperties
<1> HIDE DEF m, n, c
<1>3. \A i \in 1..m : i \in 1..(m + n) /\ i <= m
  BY <1>1
<1>4. \A i \in 1..n : m + i \in 1..(m + n) /\ ~ (m + i <= m) /\ (m + i) - m = i
  BY <1>1
<1>5. \A i \in 1..m : c[i] = a[i]
  BY <1>2, <1>3
<1>6. \A i \in 1..n : c[m + i] = b[i]
  BY <1>2, <1>4
<1>7. m <= m + n
  BY <1>1
<1> QED
  BY <1>1, <1>2, <1>5, <1>6, <1>7 DEF m, n, c, Begins

\* The cells of a record behind others.
LEMMA FrameIs ==
    ASSUME NEW pre \in Seq(Cell), NEW type \in Kinds, NEW chunk \in Seq(PayloadCell)
    PROVE  LET full == pre \o HeaderOf(type, chunk) \o chunk
               pos == Len(pre)
           IN /\ full \in Seq(Cell) /\ Len(full) = pos + Header + Len(chunk)
              /\ Begins(pre, full)
              /\ full[pos + 1] = [type |-> "crc", covers |-> <<type, chunk>>]
              /\ full[pos + 2] = [type |-> type, len |-> Len(chunk)]
              /\ \A i \in 1..Len(chunk) : full[pos + Header + i] = chunk[i]
<1> DEFINE h == HeaderOf(type, chunk)
           a == pre \o h
           full == a \o chunk
           pos == Len(pre)
           n == Len(chunk)
<1>1. /\ h \in Seq(Cell) /\ Len(h) = 2
      /\ h[1] = [type |-> "crc", covers |-> <<type, chunk>>] /\ h[2] = [type |-> type, len |-> n]
  BY HeaderIs DEF Header
<1>2. pos \in Nat /\ n \in Nat /\ chunk \in Seq(Cell)
  BY PayloadsAreCells, LenProperties
<1> HIDE DEF h
<1>3. a \in Seq(Cell) /\ Len(a) = pos + 2 /\ Begins(pre, a) /\ a[pos + 1] = h[1] /\ a[pos + 2] = h[2]
  <2> h \in Seq(Cell)
    BY <1>1
  <2>1. a \in Seq(Cell) /\ Len(a) = pos + Len(h) /\ Begins(pre, a)
    BY Behind, Zenon
  <2>2. \A i \in 1..Len(h) : a[pos + i] = h[i]
    BY Behind, SMT
  <2>3. 1 \in 1..Len(h) /\ 2 \in 1..Len(h)
    BY <1>1
  <2> HIDE DEF a, pos
  <2> QED
    BY <1>1, <2>1, <2>2, <2>3
<1> HIDE DEF a
<1>4. /\ full \in Seq(Cell) /\ Len(full) = pos + 2 + n /\ Begins(a, full)
      /\ \A i \in 1..n : full[pos + 2 + i] = chunk[i]
  <2>1. full \in Seq(Cell) /\ Len(full) = Len(a) + n /\ Begins(a, full)
    BY <1>2, <1>3, Behind, Zenon
  <2>2. \A i \in 1..n : full[Len(a) + i] = chunk[i]
    BY <1>2, <1>3, Behind, SMT
  <2> HIDE DEF full, pos, n
  <2> QED
    BY <1>3, <2>1, <2>2
<1> HIDE DEF full
<1>5. full[pos + 1] = h[1] /\ full[pos + 2] = h[2] /\ \A i \in 1..pos : full[i] = pre[i]
  <2>1. pos + 1 \in 1..(pos + 2) /\ pos + 2 \in 1..(pos + 2) /\ \A i \in 1..pos : i \in 1..(pos + 2)
    BY <1>2
  <2>2. \A i \in 1..(pos + 2) : full[i] = a[i]
    BY <1>3, <1>4 DEF Begins
  <2>3. \A i \in 1..pos : a[i] = pre[i]
    BY <1>3 DEF Begins
  <2> HIDE DEF pos
  <2> QED
    BY <1>3, <2>1, <2>2, <2>3
<1>6. Begins(pre, full)
  <2>1. pos <= pos + 2 + n
    BY <1>2
  <2> QED
    BY <1>4, <1>5, <2>1 DEF Begins
<1> QED
  BY <1>1, <1>4, <1>5, <1>6 DEF full, a, h, Header

-----------------------------------------------------------------------------
(* The passes of the writer.                                               *)

Draft(cells, done, begin, end) == [cells |-> cells, done |-> done, begin |-> begin, end |-> end]

WriteTurn(start, payload, w, x) == IF w.end THEN w ELSE Framed(start, payload, w)
Writes == INSTANCE FoldFacts WITH Op <- WriteTurn

IsDrafts(start, payload, g) ==
    g = [n \in Nat |-> IF n = 0 THEN Draft(<<>>, 0, TRUE, FALSE) ELSE WriteTurn(start, payload, g[n - 1], 0)]
Drafts(start, payload) == CHOOSE g : IsDrafts(start, payload, g)

\* The states that Fragments goes through.
LEMMA DraftsAre ==
    ASSUME NEW start, NEW payload
    PROVE  /\ Drafts(start, payload)[0] = Draft(<<>>, 0, TRUE, FALSE)
           /\ \A n \in Nat : Drafts(start, payload)[n + 1] = WriteTurn(start, payload, Drafts(start, payload)[n], 0)
           /\ Fragments(start, payload) = Drafts(start, payload)[Len(payload) + 1].cells
<1>1. \E g : IsDrafts(start, payload, g)
  <2>1. PICK g : Writes!Iterates(start, payload, Draft(<<>>, 0, TRUE, FALSE), payload, g)
    BY Writes!Iterated
  <2>2. IsDrafts(start, payload, g)
    BY <2>1, Zenon DEF Writes!Iterates, WriteTurn, IsDrafts
  <2> QED
    BY <2>2
<1>2. IsDrafts(start, payload, Drafts(start, payload))
  BY <1>1, Zenon DEF Drafts
<1> DEFINE g == Drafts(start, payload)
<1>3. g = [n \in Nat |-> IF n = 0 THEN Draft(<<>>, 0, TRUE, FALSE) ELSE WriteTurn(start, payload, g[n - 1], 0)]
  BY <1>2, Zenon DEF IsDrafts
<1>4. Fragments(start, payload) = g[Len(payload) + 1].cells
  BY Zenon DEF Fragments, Drafts, IsDrafts, Draft, WriteTurn
<1> HIDE DEF g
<1>5. g[0] = Draft(<<>>, 0, TRUE, FALSE)
  BY <1>3
<1>6. ASSUME NEW n \in Nat
      PROVE  g[n + 1] = WriteTurn(start, payload, g[n], 0)
  <2>1. n + 1 \in Nat /\ n + 1 # 0 /\ (n + 1) - 1 = n
    OBVIOUS
  <2>2. g[n + 1] = IF n + 1 = 0 THEN Draft(<<>>, 0, TRUE, FALSE) ELSE WriteTurn(start, payload, g[(n + 1) - 1], 0)
    BY <1>3, <2>1, Zenon
  <2> QED
    BY <2>1, <2>2
<1> QED
  BY <1>4, <1>5, <1>6 DEF g

\* What a pass of the writer adds: padding to the next block where less than a
\* header is left, then the record, which is cut where that block ends.
Adds(start, payload, cells, done, begin, next, pad, upto, end) ==
    LET here == start + Len(cells)
        chunk == SubSeq(payload, done + 1, upto)
    IN /\ \/ pad = 0 /\ LeftInBlock(here) >= Header
          \/ pad = LeftInBlock(here) /\ pad < Header
       /\ LeftInBlock(here + pad) >= Header
       /\ (end <=> upto = Len(payload))
       /\ ~ end => upto = done + (LeftInBlock(here + pad) - Header)
       /\ next = Draft(cells \o Zeros(pad) \o HeaderOf(FragmentType(begin, end), chunk) \o chunk, upto, FALSE, end)

\* What Framed does.
LEMMA FramedIs ==
    ASSUME NEW start \in Nat, NEW payload \in Seq(PayloadCell), NEW cells \in Seq(Cell),
           NEW done \in 0..Len(payload), NEW begin \in BOOLEAN
    PROVE  \E pad \in Nat, upto \in done..Len(payload), end \in BOOLEAN :
               Adds(start, payload, cells, done, begin,
                    Framed(start, payload, Draft(cells, done, begin, FALSE)), pad, upto, end)
<1> DEFINE here == start + Len(cells)
           left == LeftInBlock(here)
           pad == IF left < Header THEN left ELSE 0
           room == (IF pad = 0 THEN left ELSE Block) - Header
           upto == Least(done + room, Len(payload))
           chunk == SubSeq(payload, done + 1, upto)
           end == upto = Len(payload)
<1>1. Framed(start, payload, Draft(cells, done, begin, FALSE))
        = [cells |-> cells \o Zeros(pad) \o HeaderOf(FragmentType(begin, end), chunk) \o chunk,
           done |-> upto, begin |-> FALSE, end |-> end]
  <2> DEFINE w == Draft(cells, done, begin, FALSE)
  <2>1. w.cells = cells /\ w.done = done /\ w.begin = begin
    BY DEF Draft
  <2> HIDE DEF w
  <2>2. Framed(start, payload, w) = [cells |-> cells \o Zeros(pad) \o HeaderOf(FragmentType(begin, end), chunk) \o chunk,
           done |-> upto, begin |-> FALSE, end |-> end]
    BY <2>1, Zenon DEF Framed
  <2> QED
    BY <2>2 DEF w
<1>2. here \in Nat /\ Len(payload) \in Nat
  BY LenProperties
<1>3. left \in Nat /\ left > 0 /\ LeftInBlock(here + left) = Block /\ Block \in Nat /\ Block > 2
  BY <1>2, BlockEnds, BlockHoldsMore DEF Header
<1> HIDE DEF here, left
<1>4. pad \in Nat /\ (\/ pad = 0 /\ left >= Header
                      \/ pad = left /\ pad < Header /\ pad # 0)
  BY <1>3 DEF Header
<1>5. LeftInBlock(here + pad) >= Header /\ room = LeftInBlock(here + pad) - Header /\ room \in Nat
  <2>1. here + 0 = here
    BY <1>2
  <2>2. CASE pad = 0 /\ left >= Header
    <3>1. LeftInBlock(here + pad) = left
      BY <2>1, <2>2 DEF left
    <3> QED
      BY <1>3, <2>2, <3>1 DEF Header
  <2>3. CASE pad = left /\ pad < Header /\ pad # 0
    <3>1. LeftInBlock(here + pad) = Block
      BY <1>3, <2>3
    <3> QED
      BY <1>3, <2>3, <3>1 DEF Header
  <2> QED
    BY <1>4, <2>2, <2>3
<1> HIDE DEF pad, room
<1>6. upto \in done..Len(payload) /\ (upto # Len(payload) => upto = done + room)
  BY <1>2, <1>5 DEF Least
<1>7. end \in BOOLEAN /\ (end <=> upto = Len(payload))
  OBVIOUS
<1>8. Framed(start, payload, Draft(cells, done, begin, FALSE))
        = Draft(cells \o Zeros(pad) \o HeaderOf(FragmentType(begin, end), chunk) \o chunk, upto, FALSE, end)
  BY <1>1 DEF Draft
<1> HIDE DEF upto, end
<1>9. Adds(start, payload, cells, done, begin,
           Framed(start, payload, Draft(cells, done, begin, FALSE)), pad, upto, end)
  <2>1. \/ pad = 0 /\ left >= Header
        \/ pad = left /\ pad < Header
    BY <1>4
  <2>2. ~ end => upto = done + (LeftInBlock(here + pad) - Header)
    BY <1>5, <1>6, <1>7
  <2>3. chunk = SubSeq(payload, done + 1, upto)
    OBVIOUS
  <2> HIDE DEF chunk
  <2> QED
    BY <1>5, <1>7, <1>8, <2>1, <2>2, <2>3, Zenon DEF Adds, here, left
<1> QED
  BY <1>4, <1>6, <1>7, <1>9

-----------------------------------------------------------------------------
(* The reader on what a pass of the writer left.                           *)

\* What goes on where one ends that goes on where another ends.
LEMMA BeginsTransitive ==
    ASSUME NEW S, NEW a \in Seq(S), NEW b \in Seq(S), NEW c \in Seq(S), Begins(a, b), Begins(b, c)
    PROVE  Begins(a, c)
<1>1. Len(a) \in Nat /\ Len(b) \in Nat /\ Len(c) \in Nat
  BY LenProperties
<1>2. Len(a) <= Len(b) /\ Len(b) <= Len(c)
  BY DEF Begins
<1>3. \A i \in 1..Len(a) : i \in 1..Len(b)
  BY <1>1, <1>2
<1>4. \A i \in 1..Len(a) : c[i] = a[i]
  BY <1>3 DEF Begins
<1> QED
  BY <1>1, <1>2, <1>4 DEF Begins

\* A piece of a sequence is what its cells say.
LEMMA PieceIs ==
    ASSUME NEW S, NEW data \in Seq(S), NEW from \in Nat, NEW piece \in Seq(S), from + Len(piece) <= Len(data),
           \A i \in 1..Len(piece) : data[from + i] = piece[i]
    PROVE  SubSeq(data, from + 1, from + Len(piece)) = piece
<1> DEFINE n == Len(piece)
           cut == SubSeq(data, from + 1, from + n)
<1>1. n \in Nat /\ Len(data) \in Nat
  BY LenProperties
<1> HIDE DEF n
<1>2. from + 1 \in 1..(Len(data) + 1) /\ from + n \in from..Len(data)
  BY <1>1 DEF n
<1>3. Len(cut) = n /\ cut \in Seq(S) /\ \A i \in 1..n : cut[i] = data[from + i]
  BY <1>1, <1>2
<1> HIDE DEF cut
<1>4. \A i \in 1..n : cut[i] = piece[i]
  BY <1>3 DEF n
<1>5. cut = piece
  BY <1>3, <1>4, SeqEqual DEF n
<1> QED
  BY <1>5 DEF cut, n

\* Where a record follows cells: at once, or in the next block behind padding.
Follows(pos, pad) ==
    /\ \/ pad = 0 /\ LeftInBlock(pos) >= Header
       \/ pad = LeftInBlock(pos) /\ pad < Header
    /\ LeftInBlock(pos + pad) >= Header

\* The cells of a record behind others and padding.
LEMMA PaddedIs ==
    ASSUME NEW pre \in Seq(Cell), NEW pad \in Nat, NEW type \in Kinds, NEW chunk \in Seq(PayloadCell)
    PROVE  LET full == pre \o Zeros(pad) \o HeaderOf(type, chunk) \o chunk
               at == Len(pre) + pad
           IN /\ full \in Seq(Cell) /\ Len(full) = at + Header + Len(chunk)
              /\ Begins(pre, full)
              /\ full[at + 1] = [type |-> "crc", covers |-> <<type, chunk>>]
              /\ full[at + 2] = [type |-> type, len |-> Len(chunk)]
              /\ \A i \in 1..Len(chunk) : full[at + Header + i] = chunk[i]
<1> DEFINE z == Zeros(pad)
           a == pre \o z
           at == Len(pre) + pad
<1>1. z \in Seq(Cell) /\ Len(z) = pad
  <2>1. Zero \in Cell
    BY DEF Cell
  <2> HIDE DEF at
  <2> QED
    BY <2>1 DEF Zeros
<1> HIDE DEF z
<1>2. a \in Seq(Cell) /\ Len(a) = at /\ Begins(pre, a)
  <2> z \in Seq(Cell)
    BY <1>1
  <2>1. a \in Seq(Cell) /\ Len(a) = Len(pre) + Len(z) /\ Begins(pre, a)
    BY Behind, Zenon
  <2> HIDE DEF a
  <2> QED
    BY <1>1, <2>1
<1> HIDE DEF a
<1> DEFINE full == a \o HeaderOf(type, chunk) \o chunk
<1>3. /\ full \in Seq(Cell) /\ Len(full) = Len(a) + Header + Len(chunk)
      /\ Begins(a, full)
      /\ full[Len(a) + 1] = [type |-> "crc", covers |-> <<type, chunk>>]
      /\ full[Len(a) + 2] = [type |-> type, len |-> Len(chunk)]
      /\ \A i \in 1..Len(chunk) : full[Len(a) + Header + i] = chunk[i]
  BY <1>2, FrameIs
<1> HIDE DEF full, at
<1>4. Begins(pre, full)
  BY <1>2, <1>3, BeginsTransitive
<1> QED
  BY <1>2, <1>3, <1>4 DEF full, a, z, at

\* The reader steps over the padding.
LEMMA PaddingRead ==
    ASSUME NEW data \in Seq(Cell), NEW pos \in Nat, NEW pad \in Nat, Follows(pos, pad), NEW bs, NEW fr,
           Reached(data, State(pos, bs, fr)), pos + Header <= Len(data)
    PROVE  Reached(data, State(pos + pad, bs, fr))
<1>1. LeftInBlock(pos) \in Nat /\ LeftInBlock(pos) > 0 /\ Len(data) \in Nat
  BY BlockEnds, LenProperties
<1>2. CASE pad = 0
  BY <1>2
<1>3. CASE pad # 0
  <2>1. pad = LeftInBlock(pos) /\ LeftInBlock(pos) < Header
    BY <1>3 DEF Follows
  <2>2. Pass(data, State(pos, bs, fr)) = State(pos + pad, bs, fr)
    <3>1. ~ (pos + Header > Len(data))
      BY <1>1 DEF Header
    <3>2. Pass(data, State(pos, bs, fr)) = State(pos + LeftInBlock(pos), bs, fr)
      BY <2>1, <3>1, PaddingPass
    <3> QED
      BY <2>1, <3>2
  <2>3. State(pos, bs, fr).pos = pos /\ State(pos + pad, bs, fr).pos = pos + pad
    BY DEF State
  <2>4. pos + pad \in Nat /\ pos + pad > pos
    BY <1>1, <2>1
  <2> QED
    BY <2>2, <2>3, <2>4, PassReached
<1> QED
  BY <1>2, <1>3

\* A record that follows cells, and all of them with it.
IsRecord(pre, pad, type, chunk, full) ==
    /\ pre \in Seq(Cell) /\ pad \in Nat /\ type \in Kinds /\ chunk \in Seq(PayloadCell)
    /\ Follows(Len(pre), pad)
    /\ full = pre \o Zeros(pad) \o HeaderOf(type, chunk) \o chunk

\* And takes the record behind it.
LEMMA RecordRead ==
    ASSUME NEW pre, NEW pad, NEW type, NEW chunk, NEW full, IsRecord(pre, pad, type, chunk, full),
           NEW bs, NEW fr, NEW bs2, NEW fr2,
           Assemble(State(Len(full), bs, fr), type, chunk) = State(Len(full), bs2, fr2),
           NEW data \in Seq(Cell), Begins(full, data), Reached(data, State(Len(pre), bs, fr))
    PROVE  Reached(data, State(Len(full), bs2, fr2))
<1>0. /\ pre \in Seq(Cell) /\ pad \in Nat /\ type \in Kinds /\ chunk \in Seq(PayloadCell)
      /\ Follows(Len(pre), pad) /\ full = pre \o Zeros(pad) \o HeaderOf(type, chunk) \o chunk
  BY DEF IsRecord
<1> USE <1>0
<1> DEFINE pos == Len(pre)
           at == pos + pad
           n == Len(chunk)
<1>1. pos \in Nat /\ n \in Nat /\ at \in Nat /\ Len(data) \in Nat
  BY LenProperties
<1>1a. at \in Nat
  BY <1>1
<1>2. /\ full \in Seq(Cell) /\ Len(full) = at + Header + n
      /\ full[at + 1] = [type |-> "crc", covers |-> <<type, chunk>>]
      /\ full[at + 2] = [type |-> type, len |-> Len(chunk)]
      /\ \A i \in 1..n : full[at + Header + i] = chunk[i]
  BY PaddedIs
<1> HIDE DEF pos, at, n
<1>3. Len(full) <= Len(data) /\ \A i \in 1..Len(full) : data[i] = full[i]
  BY DEF Begins
<1>4. at + Header + n <= Len(data) /\ pos + Header <= Len(data)
  BY <1>1, <1>2, <1>3 DEF at, Header
<1>5. /\ data[at + 1] = full[at + 1] /\ data[at + 2] = full[at + 2]
      /\ \A i \in 1..n : data[at + Header + i] = full[at + Header + i]
  <2>1. at + 1 \in 1..(at + 2 + n) /\ at + 2 \in 1..(at + 2 + n) /\ \A i \in 1..n : at + 2 + i \in 1..(at + 2 + n)
    BY <1>1
  <2> QED
    BY <1>2, <1>3, <2>1 DEF Header
<1>6. SubSeq(data, at + Header + 1, at + Header + n) = chunk
  <2>1. \A i \in 1..Len(chunk) : data[(at + Header) + i] = chunk[i]
    BY <1>2, <1>5 DEF n
  <2>2. at + Header \in Nat /\ (at + Header) + Len(chunk) <= Len(data) /\ chunk \in Seq(Cell)
    BY <1>1, <1>4, PayloadsAreCells DEF Header, n
  <2> QED
    BY <2>1, <2>2, PieceIs DEF n
<1>7. Reached(data, State(at, bs, fr))
  BY <1>1, <1>4, PaddingRead DEF at, pos
<1>8. Pass(data, State(at, bs, fr)) = State(Len(full), bs2, fr2)
  <2>1. LeftInBlock(at) >= Header
    BY DEF Follows, at, pos
  <2>2. Pass(data, State(at, bs, fr)) = Assemble(State(at + Header + n, bs, fr), type, chunk)
    <3>1. ChecksumAt(data, at, type, chunk) /\ LengthAt(data, at, type, Len(chunk))
      BY <1>2, <1>5 DEF ChecksumAt, LengthAt
    <3>2. at + Header + Len(chunk) <= Len(data) /\ DataAt(data, at, chunk)
      BY <1>4, <1>6 DEF n, DataAt
    <3>3. Pass(data, State(at, bs, fr)) = Assemble(State(at + Header + Len(chunk), bs, fr), type, chunk)
      BY <1>1a, <2>1, <3>1, <3>2, WholePass
    <3> QED
      BY <3>3 DEF n
  <2> QED
    BY <1>2, <2>2
<1>9. State(at, bs, fr).pos = at /\ State(Len(full), bs2, fr2).pos = Len(full)
  BY DEF State
<1>10. at + Header <= Len(data) /\ Len(full) \in Nat /\ Len(full) > at
  <2>1. Len(full) = at + 2 + n /\ at + 2 + n <= Len(data)
    BY <1>2, <1>4 DEF Header
  <2> QED
    BY <1>1, <2>1 DEF Header
<1> QED
  BY <1>1, <1>7, <1>8, <1>9, <1>10, PassReached

\* A record of which something is missing is the end of the log.
LEMMA TornRead ==
    ASSUME NEW pre, NEW pad, NEW type, NEW chunk, NEW full, IsRecord(pre, pad, type, chunk, full),
           NEW bs, NEW fr,
           NEW data \in Seq(Cell), Begins(data, full), Len(data) < Len(full),
           Reached(data, State(Len(pre), bs, fr))
    PROVE  ParseWal(data) = bs
<1>0. /\ pre \in Seq(Cell) /\ pad \in Nat /\ type \in Kinds /\ chunk \in Seq(PayloadCell)
      /\ Follows(Len(pre), pad) /\ full = pre \o Zeros(pad) \o HeaderOf(type, chunk) \o chunk
  BY DEF IsRecord
<1> USE <1>0
<1> DEFINE pos == Len(pre)
           at == pos + pad
           n == Len(chunk)
<1>1. pos \in Nat /\ n \in Nat /\ at \in Nat /\ Len(data) \in Nat
  BY LenProperties
<1>1a. pos \in Nat
  BY <1>1
<1>1b. at \in Nat
  BY <1>1
<1>1c. n \in Nat
  BY <1>1
<1>2. Len(full) = at + Header + n /\ full[at + 2] = [type |-> type, len |-> n]
  BY PaddedIs
<1>3. \A p : State(p, bs, fr).pos = p /\ State(p, bs, fr).batches = bs
  BY DEF State
<1>4. CASE pos + Header > Len(data)
  <2>1. Pass(data, State(pos, bs, fr)) = State(pos, bs, fr)
    BY <1>1a, <1>4, ShortPass
  <2> QED
    BY <1>3, <2>1, EndReached
<1>5. CASE ~ (pos + Header > Len(data)) /\ at + Header > Len(data)
  <2>1. Reached(data, State(at, bs, fr))
    BY <1>1, <1>5, PaddingRead DEF Header
  <2>2. Pass(data, State(at, bs, fr)) = State(at, bs, fr)
    BY <1>1b, <1>5, ShortPass
  <2> QED
    BY <1>3, <2>1, <2>2, EndReached
<1>6. CASE ~ (pos + Header > Len(data)) /\ ~ (at + Header > Len(data))
  <2>1. Reached(data, State(at, bs, fr))
    BY <1>1, <1>6, PaddingRead DEF Header
  <2>2. LeftInBlock(at) >= Header
    BY DEF Follows
  <2> HIDE DEF pos, at, n
  <2>3. at + Header <= Len(data) /\ at + Header + n > Len(data) /\ at + 2 \in 1..Len(data)
    BY <1>1, <1>2, <1>6 DEF Header
  <2>4. LengthAt(data, at, type, n)
    BY <1>2, <2>3 DEF Begins, LengthAt
  <2>5. Pass(data, State(at, bs, fr)) = State(at, bs, fr)
    BY <1>1b, <1>1c, <2>2, <2>3, <2>4, TornPass
  <2> QED
    BY <1>3, <2>1, <2>5, EndReached
<1> QED
  BY <1>4, <1>5, <1>6

-----------------------------------------------------------------------------
(* What a log with a record more reads as.                                 *)

\* Behind the log, whatever follows, the reader has these batches, and this much
\* of the next one.
ReadUpTo(log, bs, fr) ==
    \A data \in Seq(Cell) : Begins(log, data) => Reached(data, State(Len(log), bs, fr))

\* A draft of a payload behind a log.
DraftShape(log, payload, w) ==
    /\ w = Draft(w.cells, w.done, w.begin, w.end)
    /\ w.cells \in Seq(Cell) /\ w.done \in 0..Len(payload) /\ w.begin \in BOOLEAN /\ w.end \in BOOLEAN
    /\ w.begin => w.cells = <<>> /\ w.done = 0 /\ ~ w.end
    /\ ~ w.begin /\ ~ w.end => w.done < Len(payload) /\ LeftInBlock(Len(log \o w.cells)) = Block

\* As long as it is not done it is gathered.
Gathered(payload, w, fr) ==
    /\ fr \in Seq(Seq(PayloadCell))
    /\ IF w.begin THEN fr = NoFrag ELSE fr # NoFrag /\ FlattenSeq(fr) = SubSeq(payload, 1, w.done)

GoesOn(log, bs, payload, w) ==
    ~ w.end => \E fr : Gathered(payload, w, fr) /\ ReadUpTo(log \o w.cells, bs, fr)

Finished(log, bs, payload, w) == w.end => ReadUpTo(log \o w.cells, bs \o Emit(payload), NoFrag)

\* And where it is cut it does not count.
CutsDoNotCount(log, bs, w) ==
    \A data \in Seq(Cell) :
        Begins(log, data) /\ Begins(data, log \o w.cells) /\ (w.end => Len(data) < Len(log \o w.cells)) =>
            ParseWal(data) = bs

Drafted(log, bs, payload, w) ==
    /\ DraftShape(log, payload, w)
    /\ GoesOn(log, bs, payload, w)
    /\ Finished(log, bs, payload, w)
    /\ CutsDoNotCount(log, bs, w)

\* A log reads as what the reader has behind its last cell.
LEMMA ReadToTheEnd ==
    ASSUME NEW log \in Seq(Cell), NEW bs, NEW fr, ReadUpTo(log, bs, fr)
    PROVE  ParseWal(log) = bs
<1>1. Len(log) \in Nat
  BY LenProperties
<1>2. Begins(log, log)
  BY <1>1 DEF Begins
<1>3. Reached(log, State(Len(log), bs, fr))
  BY <1>2 DEF ReadUpTo
<1>4. Len(log) + Header > Len(log)
  BY <1>1 DEF Header
<1>5. Pass(log, State(Len(log), bs, fr)) = State(Len(log), bs, fr)
  BY <1>1, <1>4, ShortPass
<1>6. State(Len(log), bs, fr).batches = bs
  BY DEF State
<1> QED
  BY <1>3, <1>5, <1>6, EndReached

\* Sequences that begin with each other are equal.
LEMMA BeginBoth ==
    ASSUME NEW S, NEW a \in Seq(S), NEW b \in Seq(S), Begins(a, b), Len(b) <= Len(a)
    PROVE  a = b
<1>1. Len(a) \in Nat /\ Len(b) \in Nat /\ Len(a) <= Len(b)
  BY LenProperties DEF Begins
<1>2. Len(a) = Len(b)
  BY <1>1
<1>3. \A i \in 1..Len(a) : a[i] = b[i]
  BY DEF Begins
<1> QED
  BY <1>2, <1>3, SeqEqual

\* Of two beginnings of a sequence the shorter begins the longer.
LEMMA BeginsNested ==
    ASSUME NEW S, NEW a \in Seq(S), NEW b \in Seq(S), NEW c \in Seq(S), Begins(a, c), Begins(b, c), Len(a) <= Len(b)
    PROVE  Begins(a, b)
<1>1. Len(a) \in Nat /\ Len(b) \in Nat
  BY LenProperties
<1>2. \A i \in 1..Len(a) : i \in 1..Len(b)
  BY <1>1
<1>3. \A i \in 1..Len(a) : b[i] = a[i]
  BY <1>2 DEF Begins
<1> QED
  BY <1>3 DEF Begins

\* Before the writer's first pass.
LEMMA DraftStart ==
    ASSUME NEW log \in Seq(Cell), NEW bs, NEW payload \in Seq(PayloadCell), ReadUpTo(log, bs, NoFrag)
    PROVE  Drafted(log, bs, payload, Draft(<<>>, 0, TRUE, FALSE))
<1> DEFINE w == Draft(<<>>, 0, TRUE, FALSE)
<1>1. w.cells = <<>> /\ w.done = 0 /\ w.begin = TRUE /\ w.end = FALSE
  BY DEF Draft
<1>2. log \o <<>> = log /\ Len(payload) \in Nat
  BY ConcatEmptySeq, LenProperties
<1>3. w = Draft(w.cells, w.done, w.begin, w.end)
  BY <1>1
<1> HIDE DEF w
<1>4. DraftShape(log, payload, w)
  <2>1. w.cells \in Seq(Cell) /\ w.done \in 0..Len(payload)
    BY <1>1, <1>2, EmptySeq
  <2> QED
    BY <1>1, <1>3, <2>1 DEF DraftShape
<1>5. GoesOn(log, bs, payload, w)
  <2>1. Gathered(payload, w, NoFrag)
    BY <1>1, EmptySeq DEF Gathered, NoFrag
  <2>2. ReadUpTo(log \o w.cells, bs, NoFrag)
    BY <1>1, <1>2
  <2> QED
    BY <2>1, <2>2 DEF GoesOn
<1>6. Finished(log, bs, payload, w)
  BY <1>1 DEF Finished
<1>7. CutsDoNotCount(log, bs, w)
  <2> SUFFICES ASSUME NEW data \in Seq(Cell), Begins(log, data), Begins(data, log \o w.cells)
               PROVE  ParseWal(data) = bs
    BY DEF CutsDoNotCount
  <2>1. Len(data) <= Len(log)
    BY <1>1, <1>2 DEF Begins
  <2>2. log = data
    BY <2>1, BeginBoth
  <2> QED
    BY <2>2, ReadToTheEnd
<1> QED
  BY <1>4, <1>5, <1>6, <1>7 DEF Drafted, w

\* What each kind of fragment is.
LEMMA FragmentIs ==
    ASSUME NEW begin \in BOOLEAN, NEW end \in BOOLEAN
    PROVE  /\ FragmentType(begin, end) \in Kinds
           /\ begin /\ end => FragmentType(begin, end) = "full"
           /\ begin /\ ~ end => FragmentType(begin, end) = "first"
           /\ ~ begin /\ end => FragmentType(begin, end) = "last"
           /\ ~ begin /\ ~ end => FragmentType(begin, end) = "middle"
BY DEF FragmentType, Kinds

\* Two pieces of a sequence that meet.
LEMMA PiecesMeet ==
    ASSUME NEW S, NEW s \in Seq(S), NEW m \in 0..Len(s), NEW n \in m..Len(s)
    PROVE  /\ SubSeq(s, m + 1, n) \in Seq(S) /\ Len(SubSeq(s, m + 1, n)) = n - m
           /\ SubSeq(s, 1, m) \o SubSeq(s, m + 1, n) = SubSeq(s, 1, n)
<1>1. Len(s) \in Nat /\ m \in Nat /\ n \in Nat /\ m <= n /\ n <= Len(s)
  OBVIOUS
<1>2. SubSeq(s, m + 1, n) \in Seq(S) /\ Len(SubSeq(s, m + 1, n)) = n - m
  BY <1>1
<1>3. SubSeq(s, 1, m) \o SubSeq(s, m + 1, n) = SubSeq(s, 1, n)
  BY <1>1
<1> QED
  BY <1>2, <1>3

\* A piece of the payload behind what is done.
IsPiece(payload, w, upto, end, chunk) ==
    /\ payload \in Seq(PayloadCell)
    /\ w.begin \in BOOLEAN /\ w.done \in 0..Len(payload) /\ (w.begin => w.done = 0)
    /\ upto \in w.done..Len(payload) /\ end \in BOOLEAN /\ (end <=> upto = Len(payload))
    /\ chunk = SubSeq(payload, w.done + 1, upto)

MakesMore(payload, w, upto, end, chunk, fr, pos, bs, cells) ==
    /\ end => Assemble(State(pos, bs, fr), FragmentType(w.begin, end), chunk)
                = State(pos, bs \o Emit(payload), NoFrag)
    /\ ~ end => \E more : /\ Gathered(payload, Draft(cells, upto, FALSE, end), more)
                          /\ Assemble(State(pos, bs, fr), FragmentType(w.begin, end), chunk)
                               = State(pos, bs, more)

\* What one record more makes of what was gathered.
LEMMA GatheredMore ==
    ASSUME NEW payload, NEW w, NEW upto, NEW end, NEW chunk, IsPiece(payload, w, upto, end, chunk),
           NEW fr, Gathered(payload, w, fr), NEW pos, NEW bs, NEW cells
    PROVE  MakesMore(payload, w, upto, end, chunk, fr, pos, bs, cells)
<1>0. /\ payload \in Seq(PayloadCell)
      /\ w.begin \in BOOLEAN /\ w.done \in 0..Len(payload) /\ (w.begin => w.done = 0)
      /\ upto \in w.done..Len(payload) /\ end \in BOOLEAN /\ (end <=> upto = Len(payload))
      /\ chunk = SubSeq(payload, w.done + 1, upto)
  BY DEF IsPiece
<1> USE <1>0
<1> USE DEF MakesMore
<1>1. /\ chunk \in Seq(PayloadCell)
      /\ SubSeq(payload, 1, w.done) \o chunk = SubSeq(payload, 1, upto)
      /\ SubSeq(payload, 1, Len(payload)) = payload
  <2>1. chunk \in Seq(PayloadCell)
    BY PiecesMeet, Zenon
  <2>2. SubSeq(payload, 1, w.done) \o chunk = SubSeq(payload, 1, upto)
    BY PiecesMeet, Zenon
  <2>3. SubSeq(payload, 1, Len(payload)) = payload
    BY Heads, Zenon
  <2> QED
    BY <2>1, <2>2, <2>3
<1>2. FragmentType(w.begin, end) = IF w.begin THEN IF end THEN "full" ELSE "first"
                                   ELSE IF end THEN "last" ELSE "middle"
  BY FragmentIs
<1>3. CASE w.begin = TRUE
  <2>1. fr = NoFrag /\ w.done = 0
    BY <1>3 DEF Gathered
  <2>2. chunk = SubSeq(payload, 1, upto)
    BY <2>1
  <2>3. CASE end = TRUE
    <3>1. chunk = payload
      BY <1>1, <2>2, <2>3
    <3>2. Assemble(State(pos, bs, fr), "full", chunk) = State(pos, bs \o Emit(chunk), fr)
      BY AssembleFull
    <3> QED
      BY <1>2, <1>3, <2>1, <2>3, <3>1, <3>2
  <2>4. CASE end = FALSE
    <3> DEFINE more == <<chunk>>
    <3>1. Assemble(State(pos, bs, fr), "first", chunk) = State(pos, bs, more)
      BY AssembleFirst
    <3>2. more \in Seq(Seq(PayloadCell)) /\ more # NoFrag
      <4>1. more = Append(<<>>, chunk)
        OBVIOUS
      <4>2. Append(<<>>, chunk) \in Seq(Seq(PayloadCell)) /\ Append(<<>>, chunk) # <<>>
        <5>1. chunk \in Seq(PayloadCell)
          BY <1>1
        <5>2. <<>> \in Seq(Seq(PayloadCell))
          OBVIOUS
        <5> QED
          BY <5>1, <5>2, AppendProperties
      <4> HIDE DEF more
      <4> QED
        BY <4>1, <4>2 DEF NoFrag
    <3>3. FlattenSeq(more) = chunk
      <4>1. <<>> \in Seq(Seq(PayloadCell)) /\ more = Append(<<>>, chunk)
        OBVIOUS
      <4>2. FlattenSeq(Append(<<>>, chunk)) = FlattenSeq(<<>>) \o chunk
        BY <1>1, <4>1, FlattenMore
      <4> QED
        BY <1>1, <4>1, <4>2, FlattenNone, ConcatEmptySeq
    <3> HIDE DEF more
    <3>4. Gathered(payload, Draft(cells, upto, FALSE, end), more)
      BY <2>2, <3>2, <3>3 DEF Gathered, Draft
    <3> QED
      BY <1>2, <1>3, <2>4, <3>1, <3>4
  <2> QED
    BY <2>3, <2>4
<1>4. CASE w.begin = FALSE
  <2>1. fr # NoFrag /\ fr \in Seq(Seq(PayloadCell)) /\ FlattenSeq(fr) = SubSeq(payload, 1, w.done)
    BY <1>4 DEF Gathered
  <2> DEFINE more == Append(fr, chunk)
  <2>2. FlattenSeq(more) = SubSeq(payload, 1, upto)
    BY <1>1, <2>1, FlattenMore
  <2>3. more \in Seq(Seq(PayloadCell)) /\ more # NoFrag
    <3>1. more \in Seq(Seq(PayloadCell)) /\ Len(more) = Len(fr) + 1 /\ Len(fr) \in Nat
      BY <1>1, <2>1, AppendProperties
    <3> HIDE DEF more
    <3>2. Len(more) # 0
      BY <3>1
    <3> QED
      BY <3>1, <3>2 DEF NoFrag
  <2>4. CASE end = TRUE
    <3>1. FlattenSeq(more) = payload
      BY <1>1, <2>2, <2>4
    <3>2. Assemble(State(pos, bs, fr), "last", chunk) = State(pos, bs \o Emit(FlattenSeq(Append(fr, chunk))), NoFrag)
      BY <2>1, AssembleLast
    <3> QED
      BY <1>2, <1>4, <2>4, <3>1, <3>2
  <2>5. CASE end = FALSE
    <3>1. Assemble(State(pos, bs, fr), "middle", chunk) = State(pos, bs, Append(fr, chunk))
      BY <2>1, AssembleMiddle
    <3> HIDE DEF more
    <3>2. Gathered(payload, Draft(cells, upto, FALSE, end), more)
      BY <2>2, <2>3 DEF Gathered, Draft
    <3> QED
      BY <1>2, <1>4, <2>5, <3>1, <3>2 DEF more
  <2> QED
    BY <2>4, <2>5
<1> QED
  BY <1>3, <1>4

\* One pass of the writer.
LEMMA DraftGoesOn ==
    ASSUME NEW log \in Seq(Cell), NEW bs, NEW payload \in Seq(PayloadCell),
           NEW w, Drafted(log, bs, payload, w), ~ w.end,
           NEW next, next = Framed(Len(log), payload, w)
    PROVE  /\ Drafted(log, bs, payload, next) /\ ~ next.begin
           /\ ~ next.end => w.begin \/ next.done > w.done
<1> DEFINE cells == w.cells
           done == w.done
           begin == w.begin
           pre == log \o cells
<1>1. /\ w = Draft(cells, done, begin, FALSE)
      /\ cells \in Seq(Cell) /\ done \in 0..Len(payload) /\ begin \in BOOLEAN
      /\ begin => done = 0
      /\ ~ begin => done < Len(payload) /\ LeftInBlock(Len(pre)) = Block
  BY DEF Drafted, DraftShape
<1>2. Len(log) \in Nat /\ Len(payload) \in Nat
  BY LenProperties
<1>3. PICK pad \in Nat, upto \in done..Len(payload), end \in BOOLEAN :
          Adds(Len(log), payload, cells, done, begin, next, pad, upto, end)
  <2>1. Len(log) \in Nat /\ cells \in Seq(Cell) /\ done \in 0..Len(payload) /\ begin \in BOOLEAN
    BY <1>1, <1>2
  <2>2. next = Framed(Len(log), payload, Draft(cells, done, begin, FALSE))
    BY <1>1
  <2> HIDE DEF cells, done, begin, pre
  <2>3. \E pad \in Nat, upto \in done..Len(payload), end \in BOOLEAN :
            Adds(Len(log), payload, cells, done, begin,
                 Framed(Len(log), payload, Draft(cells, done, begin, FALSE)), pad, upto, end)
    BY <2>1, FramedIs, Zenon
  <2> QED
    BY <2>2, <2>3, Zenon
<1> DEFINE chunk == SubSeq(payload, done + 1, upto)
           type == FragmentType(begin, end)
           full == pre \o Zeros(pad) \o HeaderOf(type, chunk) \o chunk
<1>4. pre \in Seq(Cell) /\ Len(pre) = Len(log) + Len(cells) /\ Begins(log, pre)
  <2> cells \in Seq(Cell)
    BY <1>1
  <2> HIDE DEF cells
  <2> QED
    BY Behind, Zenon
<1> HIDE DEF pre
<1>5. /\ Follows(Len(pre), pad)
      /\ (end <=> upto = Len(payload))
      /\ ~ end => upto = done + (LeftInBlock(Len(pre) + pad) - Header)
      /\ next = Draft(cells \o Zeros(pad) \o HeaderOf(type, chunk) \o chunk, upto, FALSE, end)
  BY <1>3, <1>4, Zenon DEF Adds, Follows
<1>6. chunk \in Seq(PayloadCell) /\ Len(chunk) = upto - done /\ type \in Kinds
  BY <1>1, PiecesMeet, FragmentIs
<1> HIDE DEF chunk, type
<1>7. full \in Seq(Cell) /\ Len(full) = Len(pre) + pad + Header + Len(chunk) /\ Begins(pre, full)
  BY <1>4, <1>6, PaddedIs
<1>7a. IsRecord(pre, pad, type, chunk, full)
  BY <1>4, <1>5, <1>6 DEF IsRecord
<1>8. log \o next.cells = full /\ next.cells \in Seq(Cell)
  <2> DEFINE z == Zeros(pad)
             h == HeaderOf(type, chunk)
  <2>1. z \in Seq(Cell) /\ h \in Seq(Cell) /\ chunk \in Seq(Cell) /\ cells \in Seq(Cell)
    <3>1. Zero \in Cell
      BY DEF Cell
    <3>2. z \in Seq(Cell)
      BY <3>1 DEF Zeros
    <3> QED
      BY <1>1, <1>6, <3>2, HeaderIs, PayloadsAreCells
  <2>2. next.cells = cells \o z \o h \o chunk
    BY <1>5 DEF Draft
  <2> HIDE DEF z, h, cells
  <2>3. cells \o z \o h \o chunk \in Seq(Cell)
    BY <2>1, ConcatFive, Zenon
  <2>4. log \o (cells \o z \o h \o chunk) = log \o cells \o z \o h \o chunk
    <3>1. JoinUp(log, cells, z, h, chunk)
      BY <2>1, ConcatFive
    <3> QED
      BY <3>1, Zenon DEF JoinUp
  <2> QED
    BY <2>2, <2>3, <2>4 DEF pre, z, h, cells
<1>9. next.done = upto /\ next.begin = FALSE /\ next.end = end /\ next = Draft(next.cells, next.done, next.begin, next.end)
  BY <1>5 DEF Draft
<1> HIDE DEF full
<1>10. PICK fr : Gathered(payload, w, fr) /\ ReadUpTo(pre, bs, fr)
  BY DEF Drafted, GoesOn, pre
<1>11. DraftShape(log, payload, next)
  <2>1. next.done \in 0..Len(payload)
    BY <1>1, <1>9
  <2>2. ASSUME ~ end
        PROVE  upto < Len(payload) /\ LeftInBlock(Len(full)) = Block
    <3>1. upto < Len(payload)
      BY <1>2, <1>5, <2>2
    <3> DEFINE at == Len(pre) + pad
    <3>2. at \in Nat
      BY <1>4, LenProperties
    <3>3. LeftInBlock(at) \in Nat /\ LeftInBlock(at + LeftInBlock(at)) = Block
      BY <3>2, BlockEnds
    <3>4. Len(full) = at + Header + (upto - done) /\ upto = done + (LeftInBlock(at) - Header)
      BY <1>5, <1>6, <1>7, <2>2
    <3> HIDE DEF at
    <3>5. Len(full) = at + LeftInBlock(at)
      <4> DEFINE left == LeftInBlock(at)
      <4>1. left \in Nat /\ at \in Nat /\ done \in Nat
        BY <1>1, <3>2, <3>3
      <4>2. Len(full) = at + 2 + (upto - done) /\ upto = done + (left - 2)
        BY <3>4 DEF Header
      <4> HIDE DEF left, done
      <4>3. Len(full) = at + left
        BY <4>1, <4>2
      <4> QED
        BY <4>3 DEF left
    <3> QED
      BY <3>1, <3>3, <3>5
  <2> QED
    BY <1>8, <1>9, <2>1, <2>2 DEF DraftShape
<1>12. /\ end => Assemble(State(Len(full), bs, fr), type, chunk) = State(Len(full), bs \o Emit(payload), NoFrag)
       /\ ~ end => \E more : /\ Gathered(payload, next, more)
                             /\ Assemble(State(Len(full), bs, fr), type, chunk) = State(Len(full), bs, more)
  <2>1. w.begin \in BOOLEAN /\ w.done \in 0..Len(payload) /\ (w.begin => w.done = 0) /\ Gathered(payload, w, fr)
    BY <1>1, <1>10
  <2>2. upto \in w.done..Len(payload) /\ end \in BOOLEAN /\ (end <=> upto = Len(payload))
    BY <1>5
  <2>3. chunk = SubSeq(payload, w.done + 1, upto) /\ type = FragmentType(w.begin, end)
    BY DEF chunk, type
  <2>3a. IsPiece(payload, w, upto, end, chunk)
    BY <2>1, <2>2, <2>3, Zenon DEF IsPiece
  <2>3b. Gathered(payload, w, fr)
    BY <1>10
  <2>4. next = Draft(next.cells, upto, FALSE, end)
    BY <1>9
  <2> HIDE DEF cells, done, begin
  <2>5. MakesMore(payload, w, upto, end, chunk, fr, Len(full), bs, next.cells)
    BY <2>3a, <2>3b, GatheredMore
  <2> QED
    BY <2>3, <2>4, <2>5, Zenon DEF MakesMore
<1>13. ASSUME NEW bs2, NEW fr2, Assemble(State(Len(full), bs, fr), type, chunk) = State(Len(full), bs2, fr2)
       PROVE  ReadUpTo(full, bs2, fr2)
  <2> SUFFICES ASSUME NEW data \in Seq(Cell), Begins(full, data)
               PROVE  Reached(data, State(Len(full), bs2, fr2))
    BY DEF ReadUpTo
  <2>1. Begins(pre, data)
    BY <1>4, <1>7, BeginsTransitive
  <2>2. Reached(data, State(Len(pre), bs, fr))
    BY <1>10, <2>1 DEF ReadUpTo
  <2> QED
    BY <1>7a, <1>13, <2>2, RecordRead
<1>14. GoesOn(log, bs, payload, next)
  BY <1>8, <1>9, <1>12, <1>13 DEF GoesOn
<1>15. Finished(log, bs, payload, next)
  BY <1>8, <1>9, <1>12, <1>13 DEF Finished
<1>16. CutsDoNotCount(log, bs, next)
  <2> SUFFICES ASSUME NEW data \in Seq(Cell), Begins(log, data), Begins(data, full), end => Len(data) < Len(full)
               PROVE  ParseWal(data) = bs
    BY <1>8, <1>9 DEF CutsDoNotCount
  <2>1. Len(data) \in Nat /\ Len(pre) \in Nat /\ Len(full) \in Nat /\ Len(data) <= Len(full)
    BY <1>4, <1>7, LenProperties DEF Begins
  <2>2. CASE Len(data) <= Len(pre)
    <3>1. Begins(data, pre)
      BY <1>4, <1>7, <2>2, BeginsNested
    <3> QED
      BY <3>1 DEF Drafted, CutsDoNotCount, pre
  <2>3. CASE Len(data) > Len(pre) /\ Len(data) < Len(full)
    <3>1. Begins(pre, data)
      BY <1>4, <1>7, <2>1, <2>3, BeginsNested
    <3>2. Reached(data, State(Len(pre), bs, fr))
      BY <1>10, <3>1 DEF ReadUpTo
    <3> QED
      BY <1>7a, <2>3, <3>2, TornRead
  <2>4. CASE Len(data) = Len(full)
    <3>1. data = full
      BY <1>7, <2>1, <2>4, BeginBoth
    <3>2. ~ end
      BY <2>1, <2>4
    <3>3. PICK more : ReadUpTo(full, bs, more)
      BY <1>12, <1>13, <3>2
    <3> QED
      BY <1>7, <3>1, <3>3, ReadToTheEnd
  <2> QED
    BY <2>1, <2>2, <2>3, <2>4
<1>17. ~ end => begin \/ upto > done
  <2> SUFFICES ASSUME ~ end, ~ begin
               PROVE  upto > done
    OBVIOUS
  <2>1. LeftInBlock(Len(pre)) = Block /\ Block \in Nat /\ Block > 2
    BY <1>1, BlockHoldsMore DEF Header
  <2>2. pad = 0
    BY <1>5, <2>1 DEF Follows, Header
  <2>3. Len(pre) + pad = Len(pre)
    BY <1>4, <2>2, LenProperties
  <2>4. upto = done + (Block - 2)
    BY <1>5, <2>1, <2>3 DEF Header
  <2> QED
    BY <1>1, <2>1, <2>4
<1> QED
  BY <1>9, <1>11, <1>14, <1>15, <1>16, <1>17 DEF Drafted

\* Some pass of the writer is the last, and then the record counts.
LEMMA RecordAppended ==
    ASSUME NEW log \in Seq(Cell), NEW bs, NEW payload \in Seq(PayloadCell), ReadUpTo(log, bs, NoFrag)
    PROVE  \E w : /\ w.end /\ Drafted(log, bs, payload, w)
                  /\ Fragments(Len(log), payload) = w.cells
<1> DEFINE W == Drafts(Len(log), payload)
           N == Len(payload) + 1
           Stage(k) == /\ Drafted(log, bs, payload, W[k])
                       /\ W[k].end \/ k = 0 \/ (~ W[k].begin /\ W[k].done >= k - 1)
           S == {k \in 0..N : Stage(k)}
<1>1. N \in Nat /\ Len(payload) \in Nat /\ N = Len(payload) + 1
  BY LenProperties
<1>2. Stage(0)
  <2>1. W[0] = Draft(<<>>, 0, TRUE, FALSE)
    BY DraftsAre
  <2> QED
    BY <2>1, DraftStart
<1>3. ASSUME NEW k \in 0..N, k < N, Stage(k)
      PROVE  Stage(k + 1)
  <2>1. W[k + 1] = IF W[k].end THEN W[k] ELSE Framed(Len(log), payload, W[k])
    <3>1. k \in Nat
      BY <1>1
    <3> QED
      BY <3>1, DraftsAre DEF WriteTurn
  <2>2. CASE W[k].end
    BY <1>3, <2>1, <2>2
  <2>3. CASE ~ W[k].end
    <3> DEFINE w == W[k]
               next == W[k + 1]
    <3>1. next = Framed(Len(log), payload, w) /\ Drafted(log, bs, payload, w) /\ ~ w.end
      BY <1>3, <2>1, <2>3
    <3>2. k = 0 \/ (~ w.begin /\ w.done >= k - 1)
      BY <1>3, <2>3
    <3> HIDE DEF w, next
    <3>3. Drafted(log, bs, payload, next) /\ ~ next.begin /\ (~ next.end => w.begin \/ next.done > w.done)
      BY <3>1, DraftGoesOn
    <3>4. w.done \in Nat /\ next.done \in Nat
      BY <3>1, <3>3, <1>1 DEF Drafted, DraftShape
    <3>5. next.end \/ next.done >= (k + 1) - 1
      <4>1. CASE k = 0
        BY <3>4, <4>1
      <4>2. CASE k # 0
        BY <1>1, <3>2, <3>3, <3>4, <4>2
      <4> QED
        BY <4>1, <4>2
    <3> QED
      BY <3>3, <3>5 DEF next
  <2> QED
    BY <2>2, <2>3
<1> HIDE DEF Stage, N
<1>4. 0 \in S /\ \A k \in S : k < N => k + 1 \in S
  BY <1>1, <1>2, <1>3
<1>5. S \in SUBSET (0..N)
  OBVIOUS
<1> HIDE DEF S
<1>6. S = 0..N
  BY <1>1, <1>4, <1>5, Counting
<1>7. N \in S
  BY <1>1, <1>6
<1>8. Stage(N)
  BY <1>7 DEF S
<1> DEFINE w == W[N]
<1>9. Drafted(log, bs, payload, w) /\ (w.end \/ (~ w.begin /\ w.done >= N - 1))
  BY <1>1, <1>8 DEF Stage
<1>10. Fragments(Len(log), payload) = w.cells
  BY <1>1, DraftsAre DEF N
<1> HIDE DEF w
<1>11. w.end
  <2> SUFFICES ASSUME ~ w.end
               PROVE  FALSE
    OBVIOUS
  <2>1. w.done \in 0..Len(payload) /\ w.done < Len(payload) /\ w.done >= N - 1
    BY <1>9 DEF Drafted, DraftShape
  <2> QED
    BY <1>1, <2>1
<1> QED
  BY <1>9, <1>10, <1>11

\* What a batch is when it was read back.
BatchOf(sequence, ops) == [sequence |-> sequence, ops |-> ops]

\* A payload is a record, and is read back as its batch.
LEMMA PayloadIs ==
    ASSUME NEW q \in Nat, NEW ops \in Seq(Operation)
    PROVE  Payload(q, ops) \in Seq(PayloadCell) /\ Emit(Payload(q, ops)) = <<BatchOf(q, ops)>>
<1> DEFINE first == [type |-> "batch", sequence |-> q, count |-> Len(ops)]
           head == <<first>>
           p == head \o ops
           n == Len(ops)
<1>1. n \in Nat /\ first \in PayloadCell
  BY LenProperties DEF PayloadCell
<1>2. ops \in Seq(PayloadCell)
  <2>1. Operation \subseteq PayloadCell
    BY DEF PayloadCell
  <2> QED
    BY <2>1, SeqMonotonic
<1>3. first.count = n /\ first.sequence = q
  OBVIOUS
<1> HIDE DEF first, n
<1>4. head \in Seq(PayloadCell) /\ Len(head) = 1 /\ head[1] = first
  BY <1>1
<1> HIDE DEF head
<1>5. p \in Seq(PayloadCell) /\ Len(p) = 1 + n /\ p[1] = head[1]
  <2>1. p \in Seq(PayloadCell) /\ Len(p) = Len(head) + Len(ops) /\ \A i \in 1..Len(head) : p[i] = head[i]
    BY <1>2, <1>4, Behind
  <2> HIDE DEF p
  <2> QED
    BY <1>4, <2>1 DEF n
<1>6. \A i \in 1..n : p[1 + i] = ops[i]
  <2> head \in Seq(PayloadCell)
    BY <1>4
  <2>1. \A i \in 1..Len(ops) : p[Len(head) + i] = ops[i]
    BY <1>2, Behind
  <2> HIDE DEF p
  <2> QED
    BY <1>4, <2>1 DEF n
<1> HIDE DEF p
<1>7. p[1] = first /\ p # <<>>
  <2>1. Len(p) # 0
    BY <1>1, <1>5
  <2> QED
    BY <1>4, <1>5, <2>1
<1>8. Least(n + 1, Len(p)) = 1 + n
  BY <1>1, <1>5 DEF Least
<1>9. SubSeq(p, 1 + 1, 1 + n) = ops
  BY <1>1, <1>2, <1>5, <1>6, PieceIs DEF n
<1>10. Emit(p) = << [sequence |-> p[1].sequence, ops |-> SubSeq(p, 2, Least(p[1].count + 1, Len(p)))] >>
  BY <1>7, Zenon DEF Emit
<1>11. Emit(p) = <<BatchOf(q, ops)>>
  <2>1. n + 1 = 1 + n /\ 1 + 1 = 2
    BY <1>1
  <2>2. p[1].sequence = q /\ p[1].count = n
    BY <1>3, <1>7
  <2>3. Least(p[1].count + 1, Len(p)) = 1 + n
    BY <1>8, <2>2
  <2>4. SubSeq(p, 2, Least(p[1].count + 1, Len(p))) = ops
    BY <1>9, <2>1, <2>3
  <2> QED
    BY <1>10, <2>2, <2>4 DEF BatchOf
<1>12. p = Payload(q, ops)
  BY DEF p, head, first, Payload
<1> QED
  BY <1>5, <1>11, <1>12

-----------------------------------------------------------------------------
(* What a log reads as, and what its heads do.                             *)

HeadReads(log, n) == ParseWal(SubSeq(log, 1, n))

\* Every head reads as some of the first batches, and a longer one not as fewer.
HeadsRead(log, bs) ==
    /\ \A n \in 0..Len(log) :
          /\ Len(HeadReads(log, n)) \in 0..Len(bs)
          /\ HeadReads(log, n) = SubSeq(bs, 1, Len(HeadReads(log, n)))
    /\ \A n \in 0..Len(log) : \A m \in 0..n : Len(HeadReads(log, m)) <= Len(HeadReads(log, n))

ReadsAs(log, bs) ==
    /\ log \in Seq(Cell) /\ bs \in Seq([sequence : Nat, ops : Seq(Operation)])
    /\ ReadUpTo(log, bs, NoFrag)
    /\ HeadsRead(log, bs)

\* An empty log holds nothing.
LEMMA NothingRead == ReadsAs(<<>>, <<>>)
<1>1. ReadUpTo(<<>>, <<>>, NoFrag)
  <2> SUFFICES ASSUME NEW data \in Seq(Cell)
               PROVE  Reached(data, State(0, <<>>, NoFrag))
    BY DEF ReadUpTo
  <2> QED
    BY StartReached
<1>2. <<>> \in Seq(Cell) /\ Len(<<>>) = 0
  OBVIOUS
<1>3. ParseWal(<<>>) = <<>>
  BY <1>1, <1>2, ReadToTheEnd
<1>4. HeadsRead(<<>>, <<>>)
  <2>1. SubSeq(<<>>, 1, 0) = <<>>
    OBVIOUS
  <2>2. HeadReads(<<>>, 0) = <<>>
    BY <1>3, <2>1 DEF HeadReads
  <2>3. PICK e : e = <<>>
    OBVIOUS
  <2>4. Len(e) = 0 /\ HeadReads(e, 0) = e /\ SubSeq(e, 1, 0) = e
    BY <1>2, <2>1, <2>2, <2>3
  <2>5. \A n \in 0..0 : n = 0
    OBVIOUS
  <2>6. \A n \in 0..Len(e) : Len(HeadReads(e, n)) = 0 /\ HeadReads(e, n) = e
    BY <2>4, <2>5
  <2>7. HeadsRead(e, e)
    <3>1. \A n \in 0..Len(e) : \A m \in 0..n : m \in 0..Len(e)
      BY <2>4
    <3>2. \A n \in 0..Len(e) : Len(HeadReads(e, n)) \in 0..Len(e) /\ HeadReads(e, n) = SubSeq(e, 1, Len(HeadReads(e, n)))
      <4>1. 0 \in 0..Len(e)
        BY <2>4
      <4> QED
        BY <2>4, <2>6, <4>1, Zenon
    <3>3. \A n \in 0..Len(e) : \A m \in 0..n : Len(HeadReads(e, m)) <= Len(HeadReads(e, n))
      <4>1. 0 <= 0
        OBVIOUS
      <4> QED
        BY <2>6, <3>1, <4>1, Zenon
    <3> QED
      BY <3>2, <3>3, Zenon DEF HeadsRead
  <2> QED
    BY <2>3, <2>7
<1>5. <<>> \in Seq([sequence : Nat, ops : Seq(Operation)])
  OBVIOUS
<1> QED
  BY <1>1, <1>2, <1>4, <1>5 DEF ReadsAs

\* A head of a sequence is begun by it.
LEMMA HeadBegins ==
    ASSUME NEW S, NEW s \in Seq(S), NEW n \in 0..Len(s)
    PROVE  SubSeq(s, 1, n) \in Seq(S) /\ Len(SubSeq(s, 1, n)) = n /\ Begins(SubSeq(s, 1, n), s)
<1>1. SubSeq(s, 1, n) \in Seq(S) /\ Len(SubSeq(s, 1, n)) = n /\ n <= Len(s)
  BY Heads
<1>2. \A i \in 1..n : SubSeq(s, 1, n)[i] = s[i]
  OBVIOUS
<1> QED
  BY <1>1, <1>2 DEF Begins

\* Heads of a sequence that goes on are heads of it.
LEMMA HeadsStay ==
    ASSUME NEW S, NEW a \in Seq(S), NEW b \in Seq(S), Begins(a, b), NEW n \in 0..Len(a)
    PROVE  SubSeq(b, 1, n) = SubSeq(a, 1, n)
<1>1. Len(a) \in Nat /\ Len(b) \in Nat /\ n \in 0..Len(b)
  BY LenProperties DEF Begins
<1> DEFINE x == SubSeq(a, 1, n)
           y == SubSeq(b, 1, n)
<1>2. x \in Seq(S) /\ Len(x) = n /\ Begins(x, a)
  BY HeadBegins
<1>3. y \in Seq(S) /\ Len(y) = n /\ Begins(y, b)
  BY <1>1, HeadBegins
<1> HIDE DEF x, y
<1>4. \A i \in 1..n : x[i] = a[i] /\ y[i] = b[i] /\ b[i] = a[i]
  BY <1>1, <1>2, <1>3 DEF Begins
<1>5. \A i \in 1..Len(x) : x[i] = y[i]
  BY <1>2, <1>4
<1>6. x = y
  BY <1>2, <1>3, <1>5, SeqEqual
<1> QED
  BY <1>6 DEF x, y

\* A log to which a batch is appended reads back with that batch; a head of it that
\* lacks some of the batch's records reads as the log before it.
THEOREM LogReadsBack ==
    ASSUME NEW log, NEW bs, ReadsAs(log, bs), NEW q \in Nat, NEW ops \in Seq(Operation)
    PROVE  ReadsAs(AddBatch(log, q, ops), Append(bs, BatchOf(q, ops))) /\ Begins(log, AddBatch(log, q, ops))
<1> DEFINE payload == Payload(q, ops)
           batch == BatchOf(q, ops)
           all == AddBatch(log, q, ops)
           more == Append(bs, batch)
           B == [sequence : Nat, ops : Seq(Operation)]
<1>1. log \in Seq(Cell) /\ bs \in Seq(B) /\ ReadUpTo(log, bs, NoFrag) /\ HeadsRead(log, bs)
  BY DEF ReadsAs
<1>2. payload \in Seq(PayloadCell) /\ Emit(payload) = <<batch>> /\ batch \in B
  BY PayloadIs DEF BatchOf
<1>3. bs \o <<batch>> = more /\ more \in Seq(B) /\ Len(more) = Len(bs) + 1 /\ Len(bs) \in Nat
  BY <1>1, <1>2
<1> HIDE DEF payload, batch, B
<1>4. PICK w : w.end /\ Drafted(log, bs, payload, w) /\ Fragments(Len(log), payload) = w.cells
  BY <1>1, <1>2, RecordAppended
<1>5. all = log \o w.cells
  BY <1>4 DEF AddBatch, payload
<1>6. w.cells \in Seq(Cell)
  BY <1>4 DEF Drafted, DraftShape
<1>7. all \in Seq(Cell) /\ Begins(log, all) /\ Len(all) = Len(log) + Len(w.cells) /\ Len(log) \in Nat /\ Len(all) \in Nat
  <2>1. Len(log) \in Nat /\ Len(w.cells) \in Nat
    BY <1>1, <1>6, LenProperties
  <2>2. log \o w.cells \in Seq(Cell) /\ Len(log \o w.cells) = Len(log) + Len(w.cells) /\ Begins(log, log \o w.cells)
    BY <1>1, <1>6, Behind
  <2> QED
    BY <1>5, <2>1, <2>2
<1> HIDE DEF all, more
<1>8. ReadUpTo(all, more, NoFrag)
  BY <1>2, <1>3, <1>4, <1>5 DEF Drafted, Finished
<1>9. \A data \in Seq(Cell) : Begins(log, data) /\ Begins(data, all) /\ Len(data) < Len(all) => ParseWal(data) = bs
  BY <1>4, <1>5 DEF Drafted, CutsDoNotCount
<1>10. \A n \in 0..Len(log) : n \in 0..Len(all) /\ HeadReads(all, n) = HeadReads(log, n)
  <2> SUFFICES ASSUME NEW n \in 0..Len(log)
               PROVE  n \in 0..Len(all) /\ HeadReads(all, n) = HeadReads(log, n)
    OBVIOUS
  <2>1. n \in 0..Len(all)
    BY <1>7 DEF Begins
  <2>2. SubSeq(all, 1, n) = SubSeq(log, 1, n)
    BY <1>1, <1>7, HeadsStay
  <2> QED
    BY <2>1, <2>2 DEF HeadReads
<1>11. ASSUME NEW n \in 0..Len(all), n > Len(log)
       PROVE  HeadReads(all, n) = IF n < Len(all) THEN bs ELSE more
  <2> DEFINE data == SubSeq(all, 1, n)
  <2>1. data \in Seq(Cell) /\ Len(data) = n /\ Begins(data, all)
    BY <1>7, HeadBegins
  <2> HIDE DEF data
  <2>2. CASE n < Len(all)
    <3>1. Begins(log, data)
      BY <1>1, <1>7, <1>11, <2>1, BeginsNested
    <3>2. ParseWal(data) = bs
      BY <1>9, <2>1, <2>2, <3>1
    <3> QED
      BY <2>2, <3>2 DEF data, HeadReads
  <2>3. CASE ~ (n < Len(all))
    <3>1. Len(all) <= Len(data)
      BY <1>7, <2>1, <2>3
    <3>2. data = all
      BY <1>7, <2>1, <3>1, BeginBoth
    <3>3. ParseWal(all) = more
      BY <1>7, <1>8, ReadToTheEnd
    <3> QED
      BY <2>3, <3>2, <3>3 DEF data, HeadReads
  <2> QED
    BY <2>2, <2>3
<1>12. /\ \A k \in 0..Len(bs) : SubSeq(more, 1, k) = SubSeq(bs, 1, k) /\ k \in 0..Len(more)
       /\ SubSeq(more, 1, Len(more)) = more
  <2>1. Begins(bs, more)
    <3>1. \A i \in 1..Len(bs) : more[i] = bs[i]
      BY <1>1, <1>2, AppendProperties DEF more
    <3> QED
      BY <1>3, <3>1 DEF Begins
  <2>2. \A k \in 0..Len(bs) : SubSeq(more, 1, k) = SubSeq(bs, 1, k)
    BY <1>1, <1>3, <2>1, HeadsStay
  <2>3. \A k \in 0..Len(bs) : k \in 0..Len(more)
    BY <1>3
  <2>4. SubSeq(more, 1, Len(more)) = more
    BY <1>3, Heads
  <2> QED
    BY <2>2, <2>3, <2>4
<1>13. SubSeq(bs, 1, Len(bs)) = bs
  BY <1>1, Heads
<1>14. ASSUME NEW n \in 0..Len(all)
       PROVE  /\ Len(HeadReads(all, n)) \in 0..Len(more)
              /\ HeadReads(all, n) = SubSeq(more, 1, Len(HeadReads(all, n)))
              /\ n > Len(log) => Len(HeadReads(all, n)) >= Len(bs)
  <2>1. CASE n <= Len(log)
    <3>1. n \in 0..Len(log)
      BY <1>7, <2>1
    <3>2. Len(HeadReads(log, n)) \in 0..Len(bs) /\ HeadReads(log, n) = SubSeq(bs, 1, Len(HeadReads(log, n)))
      BY <1>1, <3>1 DEF HeadsRead
    <3>3. HeadReads(all, n) = HeadReads(log, n)
      BY <1>10, <3>1
    <3>4. ~ (n > Len(log))
      BY <1>7, <2>1
    <3> QED
      BY <1>12, <3>2, <3>3, <3>4
  <2>2. CASE n > Len(log) /\ n < Len(all)
    <3>1. HeadReads(all, n) = bs
      BY <1>11, <2>2
    <3>2. Len(bs) \in 0..Len(bs) /\ Len(bs) >= Len(bs)
      BY <1>3
    <3> QED
      BY <1>12, <1>13, <3>1, <3>2
  <2>3. CASE n > Len(log) /\ ~ (n < Len(all))
    <3>1. HeadReads(all, n) = more
      BY <1>11, <2>3
    <3>2. Len(more) \in 0..Len(more) /\ Len(more) >= Len(bs)
      BY <1>3
    <3> QED
      BY <1>12, <3>1, <3>2
  <2> QED
    BY <1>7, <2>1, <2>2, <2>3
<1>15. ASSUME NEW n \in 0..Len(all), NEW m \in 0..n
       PROVE  Len(HeadReads(all, m)) <= Len(HeadReads(all, n))
  <2>1. m \in 0..Len(all) /\ m <= n
    BY <1>7
  <2>2. CASE n <= Len(log)
    <3>1. n \in 0..Len(log) /\ m \in 0..Len(log)
      BY <1>7, <2>1, <2>2
    <3>2. HeadReads(all, n) = HeadReads(log, n) /\ HeadReads(all, m) = HeadReads(log, m)
      BY <1>10, <3>1
    <3>3. Len(HeadReads(log, m)) <= Len(HeadReads(log, n))
      BY <1>1, <3>1 DEF HeadsRead
    <3> QED
      BY <3>2, <3>3
  <2>3. CASE n > Len(log) /\ m <= Len(log)
    <3>1. m \in 0..Len(log)
      BY <1>7, <2>1, <2>3
    <3>2. HeadReads(all, m) = HeadReads(log, m) /\ Len(HeadReads(log, m)) \in 0..Len(bs)
      BY <1>1, <1>10, <3>1 DEF HeadsRead
    <3>3. Len(HeadReads(all, n)) >= Len(bs) /\ Len(HeadReads(all, n)) \in 0..Len(more)
      BY <1>14, <2>3
    <3> QED
      BY <1>3, <3>2, <3>3
  <2>4. CASE n > Len(log) /\ m > Len(log)
    <3>1. HeadReads(all, n) = (IF n < Len(all) THEN bs ELSE more) /\ HeadReads(all, m) = (IF m < Len(all) THEN bs ELSE more)
      BY <1>11, <2>1, <2>4
    <3>2. n < Len(all) => m < Len(all)
      BY <1>7, <2>1
    <3> QED
      BY <1>3, <3>1, <3>2
  <2> QED
    BY <1>7, <2>1, <2>2, <2>3, <2>4
<1>16. HeadsRead(all, more)
  BY <1>14, <1>15 DEF HeadsRead
<1> QED
  BY <1>3, <1>7, <1>8, <1>16 DEF ReadsAs, all, more, batch, B

-----------------------------------------------------------------------------
(* Tables.                                                                 *)

KeyValue == Seq(Nat) \X Seq(Nat)

\* What two keys share is a head of both.
LEMMA CommonPrefixIs ==
    ASSUME NEW a \in Seq(Nat), NEW b \in Seq(Nat)
    PROVE  /\ CommonPrefix(a, b) \in 0..Len(b)
           /\ SubSeq(a, 1, CommonPrefix(a, b)) = SubSeq(b, 1, CommonPrefix(a, b))
<1> DEFINE C == CommonPrefixes({a, b})
           P == UNION {Prefixes(x) : x \in {a, b}}
           V == {Len(x) : x \in C}
<1>1. C = {x \in P : \A t \in {a, b} : IsPrefix(x, t)}
  BY Zenon DEF CommonPrefixes
<1>2. \A x \in P : x \in Seq(Nat)
  <2> SUFFICES ASSUME NEW x \in P
               PROVE  x \in Seq(Nat)
    OBVIOUS
  <2>1. (\E n \in 0..Len(a) : x = SubSeq(a, 1, n)) \/ (\E n \in 0..Len(b) : x = SubSeq(b, 1, n))
    BY DEF Prefixes
  <2>2. (\A n \in 0..Len(a) : SubSeq(a, 1, n) \in Seq(Nat))
    BY Heads
  <2>3. (\A n \in 0..Len(b) : SubSeq(b, 1, n) \in Seq(Nat))
    BY Heads
  <2> QED
    BY <2>1, <2>2, <2>3, Zenon
<1>3. SubSeq(a, 1, 0) \in C
  <2>1. 0 \in 0..Len(a) /\ SubSeq(a, 1, 0) = <<>>
    BY Heads
  <2>2. SubSeq(a, 1, 0) \in P
    BY <2>1 DEF Prefixes
  <2>3. \A t \in {a, b} : IsPrefix(<<>>, t)
    <3>1. Len(a) \in Nat /\ Len(b) \in Nat /\ Len(<<>>) = 0 /\ SubSeq(<<>>, 1, 0) = <<>>
          /\ SubSeq(a, 1, 0) = <<>> /\ SubSeq(b, 1, 0) = <<>>
      OBVIOUS
    <3> QED
      BY <3>1 DEF IsPrefix
  <2> HIDE DEF P, C
  <2> QED
    BY <1>1, <2>1, <2>2, <2>3
<1> HIDE DEF C, P
<1>4. \A x \in C : x \in Seq(Nat) /\ Len(x) \in Nat /\ IsPrefix(x, a) /\ IsPrefix(x, b)
  BY <1>1, <1>2, LenProperties
<1>5. V \in SUBSET (0..Len(a)) /\ V # {} /\ Len(a) \in Nat
  <2>1. \A x \in C : Len(x) <= Len(a)
    BY <1>4 DEF IsPrefix
  <2>2. Len(a) \in Nat
    OBVIOUS
  <2>3. \A x \in C : Len(x) \in 0..Len(a)
    BY <1>4, <2>1, <2>2
  <2>4. \A v \in V : v \in 0..Len(a)
    BY <2>3
  <2>5. Len(SubSeq(a, 1, 0)) \in V
    BY <1>3
  <2> HIDE DEF V
  <2> QED
    BY <2>2, <2>4, <2>5
<1>6. PICK p \in C : \A x \in C : Len(x) <= Len(p)
  <2>1. PICK v \in V : \A w \in V : w <= v
    <3> HIDE DEF V
    <3> QED BY <1>5, BoundedHasMax
  <2> QED
    BY <2>1
<1> DEFINE q == LongestCommonPrefix({a, b})
<1>7. q \in C
  <2>1. \E x \in C : \A y \in C : Len(y) <= Len(x)
    BY <1>6
  <2>2. q = CHOOSE x \in C : \A y \in C : Len(y) <= Len(x)
    BY Zenon DEF LongestCommonPrefix, C
  <2> HIDE DEF q
  <2> QED
    BY <2>1, <2>2, Zenon
<1>8. CommonPrefix(a, b) = Len(q)
  BY DEF CommonPrefix
<1> HIDE DEF q
<1> QED
  BY <1>4, <1>7, <1>8 DEF IsPrefix

\* A key is what it shares with the one before and the rest of it.
LEMMA Rejoined ==
    ASSUME NEW prev \in Seq(Nat), NEW key \in Seq(Nat), NEW c \in 0..Len(key),
           SubSeq(prev, 1, c) = SubSeq(key, 1, c)
    PROVE  SubSeq(prev, 1, c) \o SubSeq(key, c + 1, Len(key)) = key
<1> DEFINE h == SubSeq(key, 1, c)
           t == SubSeq(key, c + 1, Len(key))
<1>1. Len(key) \in Nat /\ c \in Nat /\ c <= Len(key)
  OBVIOUS
<1>2. h \in Seq(Nat) /\ Len(h) = c /\ \A i \in 1..c : h[i] = key[i]
  OBVIOUS
<1>3. t \in Seq(Nat) /\ Len(t) = Len(key) - c /\ \A i \in 1..(Len(key) - c) : t[i] = key[c + i]
  OBVIOUS
<1> HIDE DEF h, t
<1>4. h \o t \in Seq(Nat) /\ Len(h \o t) = Len(key)
      /\ \A i \in 1..Len(key) : (h \o t)[i] = IF i <= c THEN h[i] ELSE t[i - c]
  <2>1. h \in Seq(Nat) /\ t \in Seq(Nat) /\ Len(h) = c /\ Len(t) = Len(key) - c
    BY <1>2, <1>3
  <2>2. Len(h) + Len(t) = Len(key)
    BY <1>1, <2>1
  <2>3. /\ h \o t \in Seq(Nat)
        /\ Len(h \o t) = Len(h) + Len(t)
        /\ \A i \in 1..(Len(h) + Len(t)) : (h \o t)[i] = IF i <= Len(h) THEN h[i] ELSE t[i - Len(h)]
    BY <2>1, ConcatProperties
  <2> QED
    BY <2>1, <2>2, <2>3
<1>5. \A i \in 1..Len(key) : (h \o t)[i] = key[i]
  <2> SUFFICES ASSUME NEW i \in 1..Len(key)
               PROVE  (h \o t)[i] = key[i]
    OBVIOUS
  <2>1. CASE i <= c
    BY <1>2, <1>4, <2>1
  <2>2. CASE ~ (i <= c)
    <3>1. i - c \in 1..(Len(key) - c) /\ c + (i - c) = i
      BY <1>1, <2>2
    <3> QED
      BY <1>3, <1>4, <2>2, <3>1
  <2> QED
    BY <2>1, <2>2
<1>6. h \o t = key
  BY <1>4, <1>5, SeqEqual
<1> QED
  BY <1>6 DEF h, t

\* A turn of parseBlock.
BlockTurn(b, c, out, r) ==
    Append(out, <<SubSeq(IF out = <<>> THEN <<>> ELSE Last(out)[1], 1, r.shared) \o r.delta, r.value>>)

BlockReads == INSTANCE FoldFacts WITH Op <- BlockTurn

LEMMA BlockIsFolded ==
    \A rows : ParseBlock(rows) = BlockReads!Folded(0, 0, <<>>, rows)
BY Zenon DEF BlockReads!Folded, BlockReads!FoldLeft, BlockReads!MapThenFoldSet, BlockReads!Max, BlockTurn,
             ParseBlock, FoldLeft, MapThenFoldSet, Max

\* A row of a block, behind the entry before it.
LEMMA RowIs ==
    ASSUME NEW es \in Seq(KeyValue), NEW k \in 0..Len(es), k < Len(es)
    PROVE  BlockTurn(0, 0, SubSeq(es, 1, k), Compressed(es)[k + 1]) = SubSeq(es, 1, k + 1)
<1> DEFINE out == SubSeq(es, 1, k)
           r == Compressed(es)[k + 1]
           key == es[k + 1][1]
           shared == IF k + 1 = 1 THEN 0 ELSE CommonPrefix(es[k][1], key)
           prev == IF out = <<>> THEN <<>> ELSE Last(out)[1]
<1>1. k \in Nat /\ Len(es) \in Nat /\ k + 1 \in 1..Len(es) /\ (k + 1) - 1 = k /\ DOMAIN es = 1..Len(es)
  OBVIOUS
<1>2. es[k + 1] \in KeyValue /\ es[k + 1] = <<key, es[k + 1][2]>> /\ key \in Seq(Nat)
  BY <1>1 DEF KeyValue
<1>3. r = [shared |-> shared, delta |-> SubSeq(key, shared + 1, Len(key)), value |-> es[k + 1][2]]
  <2>1. Compressed(es) = [i \in DOMAIN es |->
            [shared |-> IF i = 1 THEN 0 ELSE CommonPrefix(es[i - 1][1], es[i][1]),
             delta |-> SubSeq(es[i][1], (IF i = 1 THEN 0 ELSE CommonPrefix(es[i - 1][1], es[i][1])) + 1, Len(es[i][1])),
             value |-> es[i][2]]]
    BY Zenon DEF Compressed
  <2> QED
    BY <1>1, <2>1
<1>4. out \in Seq(KeyValue) /\ Len(out) = k /\ SubSeq(es, 1, k + 1) = Append(out, es[k + 1])
  BY Heads
<1>5. /\ k = 0 => prev = <<>> /\ shared = 0
      /\ k > 0 => prev = es[k][1] /\ shared = CommonPrefix(es[k][1], key) /\ es[k][1] \in Seq(Nat)
  <2>1. CASE k = 0
    <3>1. out = <<>>
      BY <1>4, <2>1
    <3> QED
      BY <2>1, <3>1
  <2>2. CASE k > 0
    <3>1. out # <<>> /\ Last(out) = out[k] /\ k \in 1..Len(es)
      BY <1>1, <1>4, <2>2 DEF Last
    <3>2. out[k] = es[k]
      BY <1>1, <2>2
    <3>3. es[k] \in KeyValue
      BY <3>1
    <3>4. es[k][1] \in Seq(Nat)
      BY <3>3 DEF KeyValue
    <3> HIDE DEF out
    <3> QED
      BY <1>1, <2>2, <3>1, <3>2, <3>4
  <2> QED
    BY <1>1, <2>1, <2>2
<1> HIDE DEF out, r, prev, shared, key
<1>6. prev \in Seq(Nat) /\ shared \in 0..Len(key) /\ SubSeq(prev, 1, shared) = SubSeq(key, 1, shared)
  <2>1. CASE k = 0
    <3>1. Len(key) \in Nat /\ SubSeq(key, 1, 0) = <<>> /\ SubSeq(<<>>, 1, 0) = <<>> /\ <<>> \in Seq(Nat)
      BY <1>2
    <3> QED
      BY <1>5, <2>1, <3>1
  <2>2. CASE k > 0
    BY <1>2, <1>5, <2>2, CommonPrefixIs
  <2> QED
    BY <1>1, <2>1, <2>2
<1>7. SubSeq(prev, 1, shared) \o SubSeq(key, shared + 1, Len(key)) = key
  BY <1>2, <1>6, Rejoined
<1>8. BlockTurn(0, 0, out, r) = Append(out, <<SubSeq(prev, 1, r.shared) \o r.delta, r.value>>)
  BY Zenon DEF BlockTurn, prev
<1>9. r.shared = shared /\ r.delta = SubSeq(key, shared + 1, Len(key)) /\ r.value = es[k + 1][2]
  BY <1>3
<1>10. BlockTurn(0, 0, out, r) = Append(out, es[k + 1])
  BY <1>2, <1>7, <1>8, <1>9, Zenon
<1> QED
  BY <1>4, <1>10 DEF out, r

\* A block reads back as the entries it was made of.
LEMMA BlockReadsBack ==
    ASSUME NEW es \in Seq(KeyValue)
    PROVE  ParseBlock(Compressed(es)) = es
<1> DEFINE rows == Compressed(es)
           n == Len(es)
           S == Range(rows)
           F(k) == BlockReads!Folded(0, 0, <<>>, SubSeq(rows, 1, k))
           Q == {k \in 0..n : F(k) = SubSeq(es, 1, k)}
<1>1. n \in Nat /\ DOMAIN es = 1..n /\ SubSeq(es, 1, n) = es /\ SubSeq(es, 1, 0) = <<>>
  BY Heads
<1>2. rows \in Seq(S) /\ Len(rows) = n
  <2>1. DOMAIN rows = 1..n /\ rows = [i \in 1..n |-> rows[i]]
    BY <1>1 DEF Compressed
  <2>2. \A i \in DOMAIN rows : rows[i] \in S
    BY DEF Range
  <2> HIDE DEF rows, S, n
  <2> QED
    BY <1>1, <2>1, <2>2
<1> HIDE DEF S, n
<1>3. SubSeq(rows, 1, n) = rows /\ SubSeq(rows, 1, 0) = <<>>
  <2> HIDE DEF rows
  <2> QED
    BY <1>2, Heads
<1> HIDE DEF rows
<1>4. 0 \in Q
  <2>1. F(0) = <<>>
    BY <1>3, BlockReads!FoldEmpty
  <2>2. 0 \in 0..n
    BY <1>1
  <2>3. F(0) = SubSeq(es, 1, 0)
    BY <1>1, <2>1
  <2> HIDE DEF F
  <2> QED
    BY <2>2, <2>3
<1>5. \A k \in Q : k < n => k + 1 \in Q
  <2> SUFFICES ASSUME NEW k \in Q, k < n
               PROVE  k + 1 \in 0..n /\ F(k + 1) = SubSeq(es, 1, k + 1)
    OBVIOUS
  <2> DEFINE h == SubSeq(rows, 1, k)
             x == rows[k + 1]
  <2>1. h \in Seq(S) /\ SubSeq(rows, 1, k + 1) = Append(h, x) /\ k \in 0..n /\ k + 1 \in 0..n
    BY <1>1, <1>2, Heads
  <2> HIDE DEF h, x
  <2>2. BlockReads!Folded(0, 0, <<>>, Append(h, x)) = BlockTurn(0, 0, BlockReads!Folded(0, 0, <<>>, h), x)
    BY <2>1, BlockReads!FoldAppend
  <2>3. F(k) = SubSeq(es, 1, k)
    OBVIOUS
  <2>4. BlockTurn(0, 0, SubSeq(es, 1, k), x) = SubSeq(es, 1, k + 1)
    BY <2>1, RowIs DEF x, rows, n
  <2> QED
    BY <2>1, <2>2, <2>3, <2>4, Zenon DEF h
<1>6. Q = 0..n
  <2>1. Q \in SUBSET (0..n)
    OBVIOUS
  <2> HIDE DEF Q
  <2> QED
    BY <1>1, <1>4, <1>5, <2>1, Counting
<1>7. F(n) = es
  <2>1. n \in Q
    <3> HIDE DEF Q
    <3> QED BY <1>1, <1>6
  <2> QED
    BY <1>1, <2>1
<1> QED
  BY <1>3, <1>7, BlockIsFolded DEF rows

\* Where a table ends its j-th block.
EndOf(es, j) == Least2(j * BlockEntries, Len(es))
Chunk(es, j) == SubSeq(es, (j - 1) * BlockEntries + 1, EndOf(es, j))
BlockCount(es) == (Len(es) + BlockEntries - 1) \div BlockEntries

\* Every block but the last is full, and the last ends with the entries.
LEMMA BlocksCover ==
    ASSUME NEW S, NEW es \in Seq(S)
    PROVE  /\ BlockCount(es) \in Nat
           /\ \A j \in 1..BlockCount(es) :
                 /\ (j - 1) * BlockEntries \in 0..Len(es) /\ EndOf(es, j) \in 0..Len(es)
                 /\ (j - 1) * BlockEntries <= EndOf(es, j)
                 /\ j < BlockCount(es) => EndOf(es, j) = j * BlockEntries
           /\ BlockCount(es) > 0 => EndOf(es, BlockCount(es)) = Len(es)
           /\ BlockCount(es) = 0 => Len(es) = 0
<1> DEFINE B == BlockEntries
           L == Len(es)
           N == BlockCount(es)
<1>1. B \in Nat /\ B > 0 /\ L \in Nat
  BY SomeEntries
<1>2. PICK r \in 0..(B - 1) : N \in Nat /\ L + B - 1 = B * N + r
  <2> DEFINE x == L + B - 1
  <2>1. x \in Nat
    BY <1>1
  <2> HIDE DEF x
  <2>2. (x % B) \in 0..(B - 1)
    BY <1>1, <2>1
  <2>3. x \div B \in Nat /\ x = B * (x \div B) + (x % B)
    BY <1>1, <2>1
  <2>4. N = x \div B
    BY DEF BlockCount, x
  <2> HIDE DEF N
  <2> QED
    BY <2>2, <2>3, <2>4 DEF x
<1>3. \A j : EndOf(es, j) = IF j * B < L THEN j * B ELSE L
  BY DEF EndOf, Least2
<1> HIDE DEF B, L, N
<1>4. L <= N * B
  BY <1>1, <1>2
<1>5. ASSUME NEW j \in Nat, j < N
      PROVE  j * B \in Nat /\ j * B < L
  <2>1. j + 1 <= N /\ j + 1 \in Nat
    BY <1>2, <1>5
  <2>2. (j + 1) * B <= N * B
    <3>1. N - (j + 1) \in Nat
      BY <1>2, <2>1
    <3>2. (N - (j + 1)) * B \in Nat
      BY <1>1, <3>1
    <3>3. (N - (j + 1)) * B = N * B - (j + 1) * B
      BY <1>1, <1>2
    <3>4. N * B \in Nat /\ (j + 1) * B \in Nat
      BY <1>1, <1>2, <2>1
    <3> QED
      BY <3>2, <3>3, <3>4
  <2>3. (j + 1) * B = j * B + B /\ B * N = N * B /\ j * B \in Nat /\ N * B \in Nat
    BY <1>1, <1>2
  <2> QED
    BY <1>1, <1>2, <2>2, <2>3
<1>6. ASSUME NEW j \in 1..N
      PROVE  /\ (j - 1) * B \in 0..L /\ EndOf(es, j) \in 0..L
             /\ (j - 1) * B <= EndOf(es, j)
             /\ j < N => EndOf(es, j) = j * B
  <2>1. j \in Nat /\ j - 1 \in Nat /\ j - 1 < N
    BY <1>2
  <2>2. (j - 1) * B \in Nat /\ (j - 1) * B < L
    BY <1>5, <2>1
  <2>3. j * B = (j - 1) * B + B /\ j * B \in Nat
    BY <1>1, <2>1
  <2>4. j < N => j * B < L
    BY <1>5, <2>1
  <2> QED
    BY <1>1, <1>3, <2>2, <2>3, <2>4
<1>7. EndOf(es, N) = L
  <2>1. N * B \in Nat
    BY <1>1, <1>2
  <2> QED
    BY <1>1, <1>3, <1>4, <2>1
<1>8. N = 0 => L = 0
  <2>1. 0 * B = 0
    BY <1>1
  <2> QED
    BY <1>1, <1>4, <2>1
<1> QED
  BY <1>2, <1>6, <1>7, <1>8 DEF B, L, N

\* A head of a sequence and what comes behind it, up to further on.
LEMMA LongerHead ==
    ASSUME NEW S, NEW s \in Seq(S), NEW a \in 0..Len(s), NEW b \in 0..Len(s), a <= b
    PROVE  /\ SubSeq(s, a + 1, b) \in Seq(S)
           /\ SubSeq(s, 1, a) \o SubSeq(s, a + 1, b) = SubSeq(s, 1, b)
<1> DEFINE h == SubSeq(s, 1, a)
           t == SubSeq(s, a + 1, b)
           u == SubSeq(s, 1, b)
<1>1. a \in Nat /\ b \in Nat /\ Len(s) \in Nat
  OBVIOUS
<1>2. h \in Seq(S) /\ Len(h) = a /\ \A i \in 1..a : h[i] = s[i]
  OBVIOUS
<1>3. t \in Seq(S) /\ Len(t) = b - a /\ \A i \in 1..(b - a) : t[i] = s[a + i]
  OBVIOUS
<1>4. u \in Seq(S) /\ Len(u) = b /\ \A i \in 1..b : u[i] = s[i]
  OBVIOUS
<1> HIDE DEF h, t, u
<1>5. Len(h) + Len(t) = b
  BY <1>1, <1>2, <1>3
<1>6. h \o t \in Seq(S) /\ Len(h \o t) = b
      /\ \A i \in 1..b : (h \o t)[i] = IF i <= a THEN h[i] ELSE t[i - a]
  <2>1. /\ h \o t \in Seq(S)
        /\ Len(h \o t) = Len(h) + Len(t)
        /\ \A i \in 1..(Len(h) + Len(t)) : (h \o t)[i] = IF i <= Len(h) THEN h[i] ELSE t[i - Len(h)]
    BY <1>2, <1>3, ConcatProperties
  <2> QED
    BY <1>2, <1>5, <2>1
<1>7. \A i \in 1..b : (h \o t)[i] = u[i]
  <2> SUFFICES ASSUME NEW i \in 1..b
               PROVE  (h \o t)[i] = u[i]
    OBVIOUS
  <2>1. CASE i <= a
    BY <1>2, <1>4, <1>6, <2>1
  <2>2. CASE ~ (i <= a)
    <3>1. i - a \in 1..(b - a) /\ a + (i - a) = i
      BY <1>1, <2>2
    <3> QED
      BY <1>3, <1>4, <1>6, <2>2, <3>1
  <2> QED
    BY <2>1, <2>2
<1>8. h \o t = u
  BY <1>4, <1>6, <1>7, SeqEqual
<1> QED
  BY <1>3, <1>8 DEF h, t, u

\* The chunks are entries of the table, one behind the other all of them.
LEMMA ChunksAreAll ==
    ASSUME NEW S, NEW es \in Seq(S)
    PROVE  /\ \A j \in 1..BlockCount(es) : Chunk(es, j) \in Seq(S)
           /\ FlattenSeq([j \in 1..BlockCount(es) |-> Chunk(es, j)]) = es
<1> DEFINE N == BlockCount(es)
           e == [j \in 1..N |-> Chunk(es, j)]
           To(k) == IF k = 0 THEN 0 ELSE EndOf(es, k)
           F(k) == FlattenSeq([j \in 1..k |-> e[j]])
           Q == {k \in 0..N : F(k) = SubSeq(es, 1, To(k))}
<1>1. N \in Nat /\ Len(es) \in Nat /\ SubSeq(es, 1, 0) = <<>> /\ SubSeq(es, 1, Len(es)) = es
  BY BlocksCover, Heads
<1>2. ASSUME NEW j \in 1..N
      PROVE  /\ Chunk(es, j) \in Seq(S)
             /\ To(j - 1) = (j - 1) * BlockEntries
             /\ SubSeq(es, 1, To(j - 1)) \o Chunk(es, j) = SubSeq(es, 1, To(j))
  <2> DEFINE a == (j - 1) * BlockEntries
             b == EndOf(es, j)
  <2>1. a \in 0..Len(es) /\ b \in 0..Len(es) /\ a <= b
    BY BlocksCover
  <2>2. To(j - 1) = a
    <3>1. CASE j = 1
      <4>1. 0 * BlockEntries = 0
        BY SomeEntries
      <4> QED
        BY <3>1, <4>1
    <3>2. CASE j # 1
      <4>1. j - 1 \in 1..N /\ j - 1 < N /\ j - 1 # 0
        BY <1>1, <3>2
      <4>2. EndOf(es, j - 1) = (j - 1) * BlockEntries
        BY <4>1, BlocksCover
      <4> QED
        BY <4>1, <4>2
    <3> QED
      BY <3>1, <3>2
  <2>3. To(j) = b
    BY <1>1
  <2>4. Chunk(es, j) = SubSeq(es, a + 1, b)
    BY Zenon DEF Chunk
  <2> HIDE DEF a, b, To
  <2>5. SubSeq(es, a + 1, b) \in Seq(S) /\ SubSeq(es, 1, a) \o SubSeq(es, a + 1, b) = SubSeq(es, 1, b)
    BY <2>1, LongerHead
  <2> QED
    BY <2>2, <2>3, <2>4, <2>5 DEF a
<1>3. e \in [1..N -> Seq(S)] /\ \A j \in 1..N : e[j] = Chunk(es, j)
  BY <1>2
<1> HIDE DEF e, N
<1>4. 0 \in Q
  <2>1. F(0) = <<>>
    <3>1. PICK r : r = [j \in 1..0 |-> e[j]]
      OBVIOUS
    <3>2. r = <<>>
      BY <3>1
    <3> QED
      BY <3>1, <3>2, FlattenNone
  <2>2. 0 \in 0..N /\ To(0) = 0
    BY <1>1
  <2>3. F(0) = SubSeq(es, 1, To(0))
    BY <1>1, <2>1, <2>2
  <2> HIDE DEF F, To
  <2> QED
    BY <2>2, <2>3
<1>5. \A k \in Q : k < N => k + 1 \in Q
  <2> SUFFICES ASSUME NEW k \in Q, k < N
               PROVE  k + 1 \in 0..N /\ F(k + 1) = SubSeq(es, 1, To(k + 1))
    OBVIOUS
  <2>1. k \in 0..N /\ k + 1 \in 1..N /\ k + 1 \in 0..N /\ (k + 1) - 1 = k
    BY <1>1
  <2>2. F(k + 1) = F(k) \o e[k + 1]
    BY <1>1, <1>3, <2>1, FlattenOneMore
  <2>3. F(k) = SubSeq(es, 1, To(k))
    OBVIOUS
  <2> HIDE DEF F, To
  <2>4. SubSeq(es, 1, To(k)) \o Chunk(es, k + 1) = SubSeq(es, 1, To(k + 1))
    <3>1. SubSeq(es, 1, To((k + 1) - 1)) \o Chunk(es, k + 1) = SubSeq(es, 1, To(k + 1))
      BY <1>2, <2>1
    <3> QED
      BY <2>1, <3>1
  <2>5. e[k + 1] = Chunk(es, k + 1)
    BY <1>3, <2>1
  <2> QED
    BY <2>1, <2>2, <2>3, <2>4, <2>5
<1>6. Q = 0..N
  <2>1. Q \in SUBSET (0..N)
    OBVIOUS
  <2> HIDE DEF Q
  <2> QED
    BY <1>1, <1>4, <1>5, <2>1, Counting
<1>7. F(N) = SubSeq(es, 1, To(N))
  <2>1. N \in Q
    <3> HIDE DEF Q
    <3> QED BY <1>1, <1>6
  <2> QED
    BY <2>1
<1>8. To(N) = Len(es)
  <2>1. N > 0 => EndOf(es, N) = Len(es)
    BY BlocksCover DEF N
  <2>2. N = 0 => Len(es) = 0
    BY BlocksCover DEF N
  <2> QED
    BY <1>1, <2>1, <2>2
<1>9. F(N) = FlattenSeq([j \in 1..N |-> Chunk(es, j)])
  BY DEF e
<1> HIDE DEF F, To
<1>10. FlattenSeq([j \in 1..N |-> Chunk(es, j)]) = es
  BY <1>1, <1>7, <1>8, <1>9
<1> QED
  BY <1>2, <1>10 DEF N

\* A table with its index and the rows that the writer gave it.
HasRows(t, es) ==
    /\ t.indexOk /\ DOMAIN t.blocks = 1..BlockCount(es)
    /\ \A j \in 1..BlockCount(es) : t.blocks[j].rows = Compressed(Chunk(es, j))

\* A table reads as some of these entries.
ReadsSome(t, S) == \E out \in Seq(S), l \in BOOLEAN : ParseTable(t) = [entries |-> out, lossy |-> l]

\* Blocks with the rows of a table read as entries of it, whichever have gone bad.
LEMMA BlocksRead ==
    ASSUME NEW S, S \subseteq KeyValue, NEW es \in Seq(S), NEW t, HasRows(t, es)
    PROVE  /\ ReadsSome(t, S)
           /\ (\A j \in DOMAIN t.blocks : t.blocks[j].ok) => ParseTable(t) = [entries |-> es, lossy |-> FALSE]
<1> DEFINE N == BlockCount(es)
           b == t.blocks
           e == [j \in 1..N |-> IF b[j].ok THEN ParseBlock(b[j].rows) ELSE <<>>]
<1>1. N \in Nat
  BY BlocksCover
<1>2. \A j \in 1..N : Chunk(es, j) \in Seq(S) /\ Chunk(es, j) \in Seq(KeyValue)
  <2>1. \A s \in Seq(S) : s \in Seq(KeyValue)
    OBVIOUS
  <2>2. \A j \in 1..N : Chunk(es, j) \in Seq(S)
    BY ChunksAreAll
  <2> QED
    BY <2>1, <2>2, Zenon
<1>3. \A j \in 1..N : ParseBlock(b[j].rows) = Chunk(es, j)
  <2>1. \A j \in 1..N : b[j].rows = Compressed(Chunk(es, j))
    BY DEF HasRows
  <2>2. \A j \in 1..N : ParseBlock(Compressed(Chunk(es, j))) = Chunk(es, j)
    BY <1>2, BlockReadsBack
  <2> HIDE DEF b, N
  <2> QED
    BY <2>1, <2>2
<1>4. e \in [1..N -> Seq(S)]
  <2>1. <<>> \in Seq(S)
    OBVIOUS
  <2> QED
    BY <1>2, <1>3, <2>1
<1>5. DOMAIN b = 1..N
  BY DEF HasRows
<1>6. ParseTable(t) = [entries |-> FlattenSeq(e), lossy |-> \E j \in 1..N : ~ b[j].ok]
  <2>1. ParseTable(t) = [entries |-> FlattenSeq([j \in DOMAIN t.blocks |->
                             IF t.blocks[j].ok THEN ParseBlock(t.blocks[j].rows) ELSE <<>>]),
                         lossy |-> \E j \in DOMAIN t.blocks : ~ t.blocks[j].ok]
    BY Zenon DEF ParseTable, HasRows
  <2> HIDE DEF N
  <2> QED
    BY <1>5, <2>1, Zenon
<1>7. FlattenSeq(e) \in Seq(S)
  <2>1. N \in 0..N
    BY <1>1
  <2>2. FlattenSeq([j \in 1..N |-> e[j]]) \in Seq(S)
    <3> HIDE DEF e, N
    <3> QED
      BY <1>1, <1>4, <2>1, FlattenType
  <2>3. e = [j \in 1..N |-> e[j]]
    OBVIOUS
  <2> HIDE DEF e, N
  <2> QED
    BY <2>2, <2>3
<1>8. ASSUME \A j \in 1..N : b[j].ok
      PROVE  ParseTable(t) = [entries |-> es, lossy |-> FALSE]
  <2>1. e = [j \in 1..N |-> Chunk(es, j)]
    BY <1>3, <1>8
  <2>2. FlattenSeq(e) = es
    <3> HIDE DEF e
    <3> QED
      BY <2>1, ChunksAreAll
  <2>3. (\E j \in 1..N : ~ b[j].ok) = FALSE
    BY <1>8
  <2> HIDE DEF e, N
  <2> QED
    BY <1>6, <2>2, <2>3
<1>9. ReadsSome(t, S)
  <2>1. (\E j \in 1..N : ~ b[j].ok) \in BOOLEAN
    OBVIOUS
  <2> HIDE DEF e, b, N
  <2> QED
    BY <1>6, <1>7, <2>1, Zenon DEF ReadsSome
<1> HIDE DEF e
<1> QED
  BY <1>5, <1>8, <1>9

\* The blocks that the writer makes.
LEMMA BlocksAre ==
    ASSUME NEW es
    PROVE  BlocksOf(es) = [j \in 1..BlockCount(es) |-> [ok |-> TRUE, rows |-> Compressed(Chunk(es, j))]]
BY Zenon DEF BlocksOf, BlockCount, Chunk, EndOf

\* A table reads back as the entries it was made of.
THEOREM TableReadsBack ==
    ASSUME NEW es \in Seq(KeyValue)
    PROVE  ParseTable(Table(es)) = [entries |-> es, lossy |-> FALSE]
<1> DEFINE b == BlocksOf(es)
           t == Table(es)
<1>1. t.blocks = b /\ t.indexOk
  BY DEF Table
<1>2. b = [j \in 1..BlockCount(es) |-> [ok |-> TRUE, rows |-> Compressed(Chunk(es, j))]]
  BY BlocksAre
<1> HIDE DEF b, t
<1>3. HasRows(t, es) /\ \A j \in DOMAIN t.blocks : t.blocks[j].ok
  BY <1>1, <1>2 DEF HasRows
<1>4. es \in Seq(KeyValue) /\ KeyValue \subseteq KeyValue
  OBVIOUS
<1> QED
  BY <1>3, <1>4, BlocksRead DEF t

\* A copy of it that went wrong reads as entries of it, if as any.
LEMMA SpoiltReads ==
    ASSUME NEW S, S \subseteq KeyValue, NEW es \in Seq(S),
           NEW c \in {Table(es), Truncated(Table(es)), Damaged(Table(es))}
    PROVE  ReadsSome(c, S)
<1> DEFINE b == BlocksOf(es)
           t == Table(es)
           N == BlockCount(es)
<1>1. t = [blocks |-> b, indexOk |-> TRUE]
  BY DEF Table
<1>2. b = [j \in 1..N |-> [ok |-> TRUE, rows |-> Compressed(Chunk(es, j))]]
  BY BlocksAre
<1> HIDE DEF b, t, N
<1>3. CASE c = t
  <2>1. HasRows(c, es)
    BY <1>1, <1>2, <1>3 DEF HasRows, N
  <2> QED
    BY <2>1, BlocksRead
<1>4. CASE c = Truncated(t)
  <2>1. ~ c.indexOk
    BY <1>1, <1>4 DEF Truncated
  <2>2. ParseTable(c) = [entries |-> <<>>, lossy |-> TRUE]
    BY <2>1 DEF ParseTable
  <2>3. <<>> \in Seq(S)
    OBVIOUS
  <2> QED
    BY <2>2, <2>3, Zenon DEF ReadsSome
<1>5. CASE c = Damaged(t)
  <2> DEFINE d == [b EXCEPT ![1] = [b[1] EXCEPT !.ok = FALSE]]
  <2>1. c.blocks = d /\ c.indexOk
    <3>1. c = [t EXCEPT !.blocks = [t.blocks EXCEPT ![1] = [t.blocks[1] EXCEPT !.ok = FALSE]]]
      BY <1>1, <1>5 DEF Damaged
    <3>2. t.blocks = b
      BY <1>1
    <3>3. c = [t EXCEPT !.blocks = d]
      BY <3>1, <3>2, Zenon
    <3> HIDE DEF d
    <3> QED
      BY <1>1, <3>3
  <2>2. d = [j \in 1..N |-> d[j]]
    <3>1. DOMAIN d = 1..N
      BY <1>2
    <3> QED
      BY <1>2, <3>1
  <2>3. ASSUME NEW j \in 1..N
        PROVE  d[j].rows = Compressed(Chunk(es, j))
    <3>1. b[j] = [ok |-> TRUE, rows |-> Compressed(Chunk(es, j))]
      BY <1>2
    <3>2. d[j] = IF j = 1 THEN [b[j] EXCEPT !.ok = FALSE] ELSE b[j]
      BY <1>2
    <3> HIDE DEF d
    <3> QED
      BY <3>1, <3>2
  <2> HIDE DEF d
  <2>4. DOMAIN d = 1..N
    BY <2>2
  <2>5. HasRows(c, es)
    BY <2>1, <2>3, <2>4 DEF HasRows, N
  <2> QED
    BY <2>5, BlocksRead
<1> QED
  BY <1>3, <1>4, <1>5 DEF t

-----------------------------------------------------------------------------
(* Crossing a worker boundary.                                             *)

SumTurn(part, c, sum, l) == sum + l[part]

Sums == INSTANCE FoldFacts WITH Op <- SumTurn

\* What lies inside a sequence stays when something is put behind it.
LEMMA InsideStays ==
    ASSUME NEW S, NEW a \in Seq(S), NEW b \in Seq(S), NEW p \in Nat, NEW q \in Nat, p + q <= Len(a)
    PROVE  /\ SubSeq(a \o b, p + 1, p + q) = SubSeq(a, p + 1, p + q)
           /\ SubSeq(a \o b, Len(a) + 1, Len(a) + Len(b)) = b
           /\ Len(a \o b) = Len(a) + Len(b)
<1>1. a \o b \in Seq(S) /\ Len(a \o b) = Len(a) + Len(b)
      /\ \A i \in 1..(Len(a) + Len(b)) : (a \o b)[i] = IF i <= Len(a) THEN a[i] ELSE b[i - Len(a)]
  BY ConcatProperties
<1>2. PICK ab : ab = a \o b
  OBVIOUS
<1>3. Len(a) \in Nat /\ Len(b) \in Nat
  OBVIOUS
<1>4. ab \in Seq(S) /\ Len(ab) = Len(a) + Len(b)
      /\ \A i \in 1..(Len(a) + Len(b)) : ab[i] = IF i <= Len(a) THEN a[i] ELSE b[i - Len(a)]
  BY <1>1, <1>2
<1>5. SubSeq(ab, p + 1, p + q) = SubSeq(a, p + 1, p + q)
  <2>1. SubSeq(ab, p + 1, p + q) = [i \in 1..q |-> ab[p + i]]
    BY <1>3, <1>4
  <2>2. SubSeq(a, p + 1, p + q) = [i \in 1..q |-> a[p + i]]
    BY <1>3
  <2>3. \A i \in 1..q : ab[p + i] = a[p + i]
    <3> SUFFICES ASSUME NEW i \in 1..q
                 PROVE  ab[p + i] = a[p + i]
      OBVIOUS
    <3>1. p + i \in 1..(Len(a) + Len(b)) /\ p + i <= Len(a)
      BY <1>3
    <3> QED
      BY <1>4, <3>1
  <2> QED
    BY <2>1, <2>2, <2>3
<1>6. SubSeq(ab, Len(a) + 1, Len(a) + Len(b)) = b
  <2>1. SubSeq(ab, Len(a) + 1, Len(a) + Len(b)) = [i \in 1..Len(b) |-> ab[Len(a) + i]]
    BY <1>3, <1>4
  <2>2. \A i \in 1..Len(b) : ab[Len(a) + i] = b[i]
    <3> SUFFICES ASSUME NEW i \in 1..Len(b)
                 PROVE  ab[Len(a) + i] = b[i]
      OBVIOUS
    <3>1. Len(a) + i \in 1..(Len(a) + Len(b)) /\ ~ (Len(a) + i <= Len(a)) /\ Len(a) + i - Len(a) = i
      BY <1>3
    <3> QED
      BY <1>4, <3>1
  <2>3. b = [i \in 1..Len(b) |-> b[i]]
    OBVIOUS
  <2> QED
    BY <2>1, <2>2, <2>3
<1> QED
  BY <1>1, <1>2, <1>5, <1>6

\* The cells before the n-th sequence, and with it.
UpTo(e, n) == FlattenSeq([j \in 1..n |-> e[j]])

\* Each of the sequences that are put together lies where the others leave it.
LEMMA InsideFlat ==
    ASSUME NEW S, NEW N \in Nat, NEW e \in [1..N -> Seq(S)]
    PROVE  /\ \A n \in 0..N : UpTo(e, n) \in Seq(S)
           /\ UpTo(e, 0) = <<>>
           /\ \A n \in 0..N : n < N => Len(UpTo(e, n + 1)) = Len(UpTo(e, n)) + Len(e[n + 1])
           /\ \A i \in 1..N : SubSeq(UpTo(e, N), Len(UpTo(e, i - 1)) + 1, Len(UpTo(e, i - 1)) + Len(e[i])) = e[i]
<1> DEFINE F(n) == UpTo(e, n)
           In(i, n) == /\ Len(F(i - 1)) + Len(e[i]) <= Len(F(n))
                       /\ SubSeq(F(n), Len(F(i - 1)) + 1, Len(F(i - 1)) + Len(e[i])) = e[i]
           Q == {n \in 0..N : \A i \in 1..n : In(i, n)}
<1>1. \A n \in 0..N : F(n) \in Seq(S)
  BY FlattenType DEF UpTo
<1>2. F(0) = <<>>
  <2>1. PICK r : r = [j \in 1..0 |-> e[j]]
    OBVIOUS
  <2>2. r = <<>>
    BY <2>1
  <2> QED
    BY <2>1, <2>2, FlattenNone DEF UpTo
<1>3. \A n \in 0..N : n < N => F(n + 1) = F(n) \o e[n + 1]
  BY FlattenOneMore DEF UpTo
<1> HIDE DEF F
<1>4. ASSUME NEW n \in 0..N, n < N
      PROVE  /\ n \in Nat /\ n + 1 \in 1..N /\ n + 1 \in 0..N /\ (n + 1) - 1 = n
             /\ F(n) \in Seq(S) /\ e[n + 1] \in Seq(S) /\ F(n + 1) = F(n) \o e[n + 1]
             /\ Len(F(n + 1)) = Len(F(n)) + Len(e[n + 1])
             /\ SubSeq(F(n + 1), Len(F(n)) + 1, Len(F(n)) + Len(e[n + 1])) = e[n + 1]
  <2>1. n \in Nat /\ n + 1 \in 1..N /\ n + 1 \in 0..N /\ (n + 1) - 1 = n
    BY <1>4
  <2>2. F(n) \in Seq(S) /\ e[n + 1] \in Seq(S) /\ F(n + 1) = F(n) \o e[n + 1]
    BY <1>1, <1>3, <1>4, <2>1
  <2>3. 0 \in Nat /\ 0 + 0 <= Len(F(n))
    BY <2>2
  <2>4. Len(F(n) \o e[n + 1]) = Len(F(n)) + Len(e[n + 1])
        /\ SubSeq(F(n) \o e[n + 1], Len(F(n)) + 1, Len(F(n)) + Len(e[n + 1])) = e[n + 1]
    BY <2>2, <2>3, InsideStays
  <2> QED
    BY <2>1, <2>2, <2>4
<1>5. 0 \in Q
  <2>1. 0 \in 0..N /\ \A i \in 1..0 : In(i, 0)
    OBVIOUS
  <2> HIDE DEF In
  <2> QED
    BY <2>1
<1>6. \A n \in Q : n < N => n + 1 \in Q
  <2> SUFFICES ASSUME NEW n \in Q, n < N
               PROVE  n + 1 \in 0..N /\ \A i \in 1..(n + 1) : In(i, n + 1)
    OBVIOUS
  <2>1. n \in 0..N /\ \A i \in 1..n : In(i, n)
    OBVIOUS
  <2> HIDE DEF Q
  <2>2. /\ n \in Nat /\ n + 1 \in 1..N /\ n + 1 \in 0..N /\ (n + 1) - 1 = n
        /\ F(n) \in Seq(S) /\ e[n + 1] \in Seq(S) /\ F(n + 1) = F(n) \o e[n + 1]
        /\ Len(F(n + 1)) = Len(F(n)) + Len(e[n + 1])
        /\ SubSeq(F(n + 1), Len(F(n)) + 1, Len(F(n)) + Len(e[n + 1])) = e[n + 1]
    BY <1>4, <2>1
  <2>3. ASSUME NEW i \in 1..n
        PROVE  In(i, n + 1)
    <3> DEFINE p == Len(F(i - 1))
               q == Len(e[i])
    <3>1. p + q <= Len(F(n)) /\ SubSeq(F(n), p + 1, p + q) = e[i]
      BY <2>1
    <3>2. p \in Nat /\ q \in Nat
      <4>1. i - 1 \in 0..N /\ i \in 1..N
        BY <2>2
      <4> QED
        BY <1>1, <4>1
    <3>3. Len(F(n)) \in Nat /\ Len(e[n + 1]) \in Nat
      BY <2>2
    <3> HIDE DEF p, q
    <3>4. SubSeq(F(n) \o e[n + 1], p + 1, p + q) = SubSeq(F(n), p + 1, p + q)
      BY <2>2, <3>1, <3>2, InsideStays
    <3>5. p + q <= Len(F(n + 1))
      BY <2>2, <3>1, <3>2, <3>3
    <3>6. SubSeq(F(n + 1), p + 1, p + q) = e[i]
      BY <2>2, <3>1, <3>4
    <3> QED
      BY <3>5, <3>6 DEF p, q
  <2>4. In(n + 1, n + 1)
    <3>1. Len(F(n + 1)) \in Nat
      BY <1>1, <2>2
    <3>2. Len(F(n)) + Len(e[n + 1]) <= Len(F(n + 1))
      BY <2>2, <3>1
    <3> QED
      BY <2>2, <3>2
  <2>5. \A i \in 1..(n + 1) : i \in 1..n \/ i = n + 1
    BY <2>2
  <2> HIDE DEF In
  <2> QED
    BY <2>2, <2>3, <2>4, <2>5
<1>7. N \in Q
  <2>1. Q \in SUBSET (0..N)
    OBVIOUS
  <2> HIDE DEF Q
  <2>2. Q = 0..N
    BY <1>5, <1>6, <2>1, Counting
  <2> QED
    BY <2>2
<1>8. \A i \in 1..N : In(i, N)
  <2> HIDE DEF In
  <2> QED
    BY <1>7
<1> HIDE DEF Q
<1> QED
  BY <1>1, <1>2, <1>4, <1>8 DEF F

\* A part of every entry, its key or its value, cut out of the blob by the lengths.
LEMMA SliceIs ==
    ASSUME NEW N \in Nat, NEW part \in {1, 2}, NEW e \in [1..N -> Seq(Nat)],
           NEW lens \in Seq(Nat \X Nat), Len(lens) = N, \A i \in 1..N : lens[i][part] = Len(e[i]),
           NEW i \in 1..N
    PROVE  Slice(UpTo(e, N), lens, part, i) = e[i]
<1> DEFINE From(k) == Sums!Folded(part, 0, 0, SubSeq(lens, 1, k))
           Q == {k \in 0..N : From(k) = Len(UpTo(e, k))}
<1>1. /\ UpTo(e, 0) = <<>>
      /\ \A n \in 0..N : n < N => Len(UpTo(e, n + 1)) = Len(UpTo(e, n)) + Len(e[n + 1])
      /\ SubSeq(UpTo(e, N), Len(UpTo(e, i - 1)) + 1, Len(UpTo(e, i - 1)) + Len(e[i])) = e[i]
  BY InsideFlat
<1>2. 0 \in Q
  <2>1. SubSeq(lens, 1, 0) = <<>>
    BY Heads
  <2>2. From(0) = 0
    BY <2>1, Sums!FoldEmpty
  <2>3. Len(<<>>) = 0 /\ 0 \in 0..N
    OBVIOUS
  <2>4. From(0) = Len(UpTo(e, 0))
    BY <1>1, <2>2, <2>3
  <2> HIDE DEF From
  <2> QED
    BY <2>3, <2>4
<1>3. \A k \in Q : k < N => k + 1 \in Q
  <2> SUFFICES ASSUME NEW k \in Q, k < N
               PROVE  k + 1 \in 0..N /\ From(k + 1) = Len(UpTo(e, k + 1))
    OBVIOUS
  <2>1. k \in 0..N /\ From(k) = Len(UpTo(e, k))
    OBVIOUS
  <2> HIDE DEF Q
  <2> DEFINE h == SubSeq(lens, 1, k)
             x == lens[k + 1]
  <2>2. h \in Seq(Nat \X Nat) /\ SubSeq(lens, 1, k + 1) = Append(h, x)
    BY <2>1, Heads
  <2> HIDE DEF h, x
  <2>3. Sums!Folded(part, 0, 0, Append(h, x)) = SumTurn(part, 0, Sums!Folded(part, 0, 0, h), x)
    BY <2>2, Sums!FoldAppend
  <2>4. From(k + 1) = From(k) + x[part]
    BY <2>2, <2>3, Zenon DEF h, SumTurn
  <2>5. k + 1 \in 1..N /\ k + 1 \in 0..N
    BY <2>1
  <2>6. x[part] = Len(e[k + 1])
    BY <2>5 DEF x
  <2> HIDE DEF From
  <2> QED
    BY <1>1, <2>1, <2>4, <2>5, <2>6
<1>4. Q = 0..N
  <2>1. Q \in SUBSET (0..N)
    OBVIOUS
  <2> HIDE DEF Q
  <2> QED
    BY <1>2, <1>3, <2>1, Counting
<1>5. From(i - 1) = Len(UpTo(e, i - 1))
  <2>1. i - 1 \in Q
    <3> HIDE DEF Q
    <3> QED BY <1>4
  <2> QED
    BY <2>1
<1>6. From(i - 1) = FoldLeft(LAMBDA sum, l : sum + l[part], 0, SubSeq(lens, 1, i - 1))
  BY Zenon DEF Sums!Folded, Sums!FoldLeft, Sums!MapThenFoldSet, Sums!Max, SumTurn, FoldLeft, MapThenFoldSet, Max
<1>7. Slice(UpTo(e, N), lens, part, i) = SubSeq(UpTo(e, N), From(i - 1) + 1, From(i - 1) + lens[i][part])
  BY <1>6, Zenon DEF Slice
<1>8. lens[i][part] = Len(e[i])
  OBVIOUS
<1> HIDE DEF From
<1> QED
  BY <1>1, <1>5, <1>7, <1>8

\* A parsed table arrives as it was sent.
THEOREM ArrivesAsSent ==
    ASSUME NEW es \in Seq(KeyValue), NEW l
    PROVE  UnpackTable(PackTable([entries |-> es, lossy |-> l])) = [entries |-> es, lossy |-> l]
<1> DEFINE N == Len(es)
           res == [entries |-> es, lossy |-> l]
           keys == [i \in 1..N |-> es[i][1]]
           vals == [i \in 1..N |-> es[i][2]]
           lens == [i \in 1..N |-> <<Len(es[i][1]), Len(es[i][2])>>]
           p == PackTable(res)
<1>1. N \in Nat /\ DOMAIN es = 1..N
  OBVIOUS
<1>2. \A i \in 1..N : es[i][1] \in Seq(Nat) /\ es[i][2] \in Seq(Nat) /\ es[i] = <<es[i][1], es[i][2]>>
  <2>1. \A i \in 1..N : es[i] \in KeyValue
    OBVIOUS
  <2> QED
    BY <2>1 DEF KeyValue
<1>3. p = [keys |-> FlattenSeq(keys), vals |-> FlattenSeq(vals), lens |-> lens, lossy |-> l]
  <2>1. res.entries = es /\ res.lossy = l
    OBVIOUS
  <2>2. p = [keys |-> FlattenSeq([i \in DOMAIN res.entries |-> res.entries[i][1]]),
             vals |-> FlattenSeq([i \in DOMAIN res.entries |-> res.entries[i][2]]),
             lens |-> [i \in DOMAIN res.entries |-> <<Len(res.entries[i][1]), Len(res.entries[i][2])>>],
             lossy |-> res.lossy]
    BY Zenon DEF PackTable
  <2> HIDE DEF res, N
  <2> QED
    BY <1>1, <2>1, <2>2, Zenon
<1>4. keys \in [1..N -> Seq(Nat)] /\ vals \in [1..N -> Seq(Nat)]
      /\ \A i \in 1..N : keys[i] = es[i][1] /\ vals[i] = es[i][2]
  BY <1>2
<1>5. lens \in Seq(Nat \X Nat) /\ Len(lens) = N /\ DOMAIN lens = 1..N
      /\ \A i \in 1..N : lens[i][1] = Len(keys[i]) /\ lens[i][2] = Len(vals[i])
  <2>1. \A i \in 1..N : Len(es[i][1]) \in Nat /\ Len(es[i][2]) \in Nat
    BY <1>2
  <2>2. lens \in [1..N -> Nat \X Nat] /\ \A i \in 1..N : lens[i][1] = Len(es[i][1]) /\ lens[i][2] = Len(es[i][2])
    BY <2>1
  <2> HIDE DEF lens, keys, vals, N
  <2>3. lens \in Seq(Nat \X Nat) /\ Len(lens) = N /\ DOMAIN lens = 1..N
    <3>1. \A T, f : f \in [1..N -> T] => f \in Seq(T) /\ Len(f) = N /\ DOMAIN f = 1..N
      BY <1>1
    <3> QED
      BY <2>2, <3>1
  <2>4. \A i \in 1..N : lens[i][1] = Len(keys[i]) /\ lens[i][2] = Len(vals[i])
    BY <1>4, <2>2
  <2> QED
    BY <2>3, <2>4
<1>6. FlattenSeq(keys) = UpTo(keys, N) /\ FlattenSeq(vals) = UpTo(vals, N)
  <2>1. keys = [i \in 1..N |-> keys[i]] /\ vals = [i \in 1..N |-> vals[i]]
    OBVIOUS
  <2> HIDE DEF keys, vals, N
  <2> QED
    BY <2>1, Zenon DEF UpTo
<1> HIDE DEF keys, vals, lens
<1>7. \A i \in 1..N : Slice(UpTo(keys, N), lens, 1, i) = keys[i] /\ Slice(UpTo(vals, N), lens, 2, i) = vals[i]
  <2>1. \A i \in 1..N : Slice(UpTo(keys, N), lens, 1, i) = keys[i]
    <3> HIDE DEF N
    <3> QED
      BY <1>1, <1>4, <1>5, SliceIs
  <2>2. \A i \in 1..N : Slice(UpTo(vals, N), lens, 2, i) = vals[i]
    <3> HIDE DEF N
    <3> QED
      BY <1>1, <1>4, <1>5, SliceIs
  <2> QED
    BY <2>1, <2>2
<1>8. UnpackTable(p) = [entries |-> [i \in 1..N |-> <<keys[i], vals[i]>>], lossy |-> l]
  <2>1. p.keys = UpTo(keys, N) /\ p.vals = UpTo(vals, N) /\ p.lens = lens /\ p.lossy = l
    <3> HIDE DEF p
    <3> QED
      BY <1>3, <1>6
  <2>2. UnpackTable(p) = [entries |-> [i \in DOMAIN p.lens |->
                              <<Slice(p.keys, p.lens, 1, i), Slice(p.vals, p.lens, 2, i)>>],
                          lossy |-> p.lossy]
    BY Zenon DEF UnpackTable
  <2>3. [i \in DOMAIN p.lens |-> <<Slice(p.keys, p.lens, 1, i), Slice(p.vals, p.lens, 2, i)>>]
        = [i \in 1..N |-> <<keys[i], vals[i]>>]
    <3> HIDE DEF p, N
    <3> QED
      BY <1>5, <1>7, <2>1
  <2> HIDE DEF p, N
  <2> QED
    BY <2>1, <2>2, <2>3
<1>9. [i \in 1..N |-> <<keys[i], vals[i]>>] = es
  <2>1. es = [i \in 1..N |-> es[i]]
    BY <1>1
  <2> HIDE DEF N
  <2> QED
    BY <1>2, <1>4, <2>1
<1> QED
  BY <1>8, <1>9 DEF p, res

-----------------------------------------------------------------------------
(* The order of keys.                                                      *)

\* What a key has at i, of which nothing comes before everything.
At(a, i) == IF i <= Len(a) THEN a[i] + 1 ELSE 0

\* Two keys differ at i for the first time, and a is before b there.
DifferAt(a, b, i) == At(a, i) < At(b, i) /\ \A j \in 1..(i - 1) : At(a, j) = At(b, j)

\* Keys are ordered by the first place where they differ.
LEMMA LexIs ==
    ASSUME NEW a \in Seq(Nat), NEW b \in Seq(Nat)
    PROVE  LexBefore(a, b) <=> \E i \in Nat \ {0} : DifferAt(a, b, i)
<1>1. Len(a) \in Nat /\ Len(b) \in Nat /\ DOMAIN a = 1..Len(a) /\ DOMAIN b = 1..Len(b)
      /\ (\A i \in 1..Len(a) : a[i] \in Nat) /\ (\A i \in 1..Len(b) : b[i] \in Nat)
  OBVIOUS
<1>2. \A n \in Nat : n <= Len(a) /\ n <= Len(b) =>
         (SubSeq(a, 1, n) = SubSeq(b, 1, n) <=> \A j \in 1..n : a[j] = b[j])
  <2> SUFFICES ASSUME NEW n \in Nat, n <= Len(a), n <= Len(b)
               PROVE  SubSeq(a, 1, n) = SubSeq(b, 1, n) <=> \A j \in 1..n : a[j] = b[j]
    OBVIOUS
  <2>1. SubSeq(a, 1, n) = [j \in 1..n |-> a[j]] /\ SubSeq(b, 1, n) = [j \in 1..n |-> b[j]]
    <3>1. SubSeq(a, 1, n) \in Seq(Nat) /\ Len(SubSeq(a, 1, n)) = n /\ \A j \in 1..n : SubSeq(a, 1, n)[j] = a[j]
      OBVIOUS
    <3>2. SubSeq(b, 1, n) \in Seq(Nat) /\ Len(SubSeq(b, 1, n)) = n /\ \A j \in 1..n : SubSeq(b, 1, n)[j] = b[j]
      OBVIOUS
    <3> QED
      BY <3>1, <3>2
  <2> QED
    BY <2>1
<1>3. ASSUME NEW i \in DOMAIN a \cap DOMAIN b, a[i] < b[i], SubSeq(a, 1, i - 1) = SubSeq(b, 1, i - 1)
      PROVE  i \in Nat \ {0} /\ DifferAt(a, b, i)
  <2>1. i \in 1..Len(a) /\ i \in 1..Len(b) /\ i - 1 \in Nat
    BY <1>1
  <2>2. \A j \in 1..(i - 1) : a[j] = b[j]
    BY <1>1, <1>2, <1>3, <2>1
  <2>3. At(a, i) < At(b, i)
    BY <1>1, <1>3, <2>1 DEF At
  <2>4. \A j \in 1..(i - 1) : At(a, j) = At(b, j)
    BY <1>1, <2>1, <2>2 DEF At
  <2> QED
    BY <2>1, <2>3, <2>4 DEF DifferAt
<1>4. ASSUME IsStrictPrefix(a, b)
      PROVE  Len(a) + 1 \in Nat \ {0} /\ DifferAt(a, b, Len(a) + 1)
  <2>1. Len(a) <= Len(b) /\ SubSeq(a, 1, Len(a)) = SubSeq(b, 1, Len(a)) /\ a # b
    BY <1>4 DEF IsStrictPrefix, IsPrefix
  <2>2. SubSeq(a, 1, Len(a)) = a /\ SubSeq(b, 1, Len(b)) = b
    BY Heads
  <2>3. Len(a) < Len(b)
    BY <1>1, <2>1, <2>2
  <2>4. \A j \in 1..Len(a) : a[j] = b[j]
    BY <1>1, <1>2, <2>1
  <2>5. At(a, Len(a) + 1) = 0 /\ At(b, Len(a) + 1) > 0
    <3>1. Len(a) + 1 \in 1..Len(b) /\ ~ (Len(a) + 1 <= Len(a))
      BY <1>1, <2>3
    <3> QED
      BY <1>1, <3>1 DEF At
  <2>6. \A j \in 1..((Len(a) + 1) - 1) : At(a, j) = At(b, j)
    BY <1>1, <2>1, <2>4 DEF At
  <2> QED
    BY <1>1, <2>5, <2>6 DEF DifferAt
<1>5. ASSUME NEW i \in Nat \ {0}, DifferAt(a, b, i)
      PROVE  LexBefore(a, b)
  <2>1. At(a, i) < At(b, i) /\ \A j \in 1..(i - 1) : At(a, j) = At(b, j)
    BY <1>5 DEF DifferAt
  <2>2. i <= Len(b) /\ i - 1 \in Nat
    <3>1. CASE ~ (i <= Len(b))
      <4>1. At(b, i) = 0
        BY <3>1 DEF At
      <4>2. At(a, i) \in Nat
        BY <1>1 DEF At
      <4> QED
        BY <2>1, <4>1, <4>2
    <3> QED
      BY <3>1
  <2>3. CASE i <= Len(a)
    <3>1. \A j \in 1..(i - 1) : a[j] = b[j]
      <4> SUFFICES ASSUME NEW j \in 1..(i - 1)
                   PROVE  a[j] = b[j]
        OBVIOUS
      <4>1. j \in 1..Len(a) /\ j \in 1..Len(b)
        BY <1>1, <2>2, <2>3
      <4>2. a[j] + 1 = b[j] + 1
        BY <2>1, <4>1 DEF At
      <4> QED
        BY <1>1, <4>1, <4>2
    <3>2. SubSeq(a, 1, i - 1) = SubSeq(b, 1, i - 1)
      BY <1>1, <1>2, <2>2, <2>3, <3>1
    <3>3. i \in DOMAIN a \cap DOMAIN b
      BY <1>1, <2>2, <2>3
    <3>4. a[i] < b[i]
      <4>1. a[i] + 1 < b[i] + 1
        BY <2>1, <2>2, <2>3 DEF At
      <4> QED
        BY <1>1, <3>3, <4>1
    <3> QED
      BY <3>2, <3>3, <3>4 DEF LexBefore
  <2>4. CASE ~ (i <= Len(a))
    <3>1. \A j \in 1..Len(a) : a[j] = b[j]
      <4> SUFFICES ASSUME NEW j \in 1..Len(a)
                   PROVE  a[j] = b[j]
        OBVIOUS
      <4>1. j \in 1..(i - 1) /\ j \in 1..Len(b)
        BY <1>1, <2>2, <2>4
      <4>2. a[j] + 1 = b[j] + 1
        BY <2>1, <4>1 DEF At
      <4> QED
        BY <1>1, <4>1, <4>2
    <3>2. Len(a) < Len(b)
      BY <1>1, <2>2, <2>4
    <3>3. SubSeq(a, 1, Len(a)) = SubSeq(b, 1, Len(a))
      BY <1>1, <1>2, <3>1, <3>2
    <3> QED
      BY <1>1, <3>2, <3>3 DEF LexBefore, IsStrictPrefix, IsPrefix
  <2> QED
    BY <2>3, <2>4
<1> QED
  BY <1>3, <1>4, <1>5 DEF LexBefore

\* The order of keys is total and goes on from key to key.
LEMMA LexOrders ==
    ASSUME NEW a \in Seq(Nat), NEW b \in Seq(Nat)
    PROVE  /\ a # b => LexBefore(a, b) \/ LexBefore(b, a)
           /\ \A c \in Seq(Nat) : LexBefore(a, b) /\ LexBefore(b, c) => LexBefore(a, c)
<1>0. \A x \in Seq(Nat) : \A i \in Nat \ {0} : At(x, i) \in Nat
  <2> SUFFICES ASSUME NEW x \in Seq(Nat), NEW i \in Nat \ {0}
               PROVE  At(x, i) \in Nat
    OBVIOUS
  <2>1. i <= Len(x) => x[i] \in Nat
    OBVIOUS
  <2> QED
    BY <2>1 DEF At
<1>1. ASSUME a # b
      PROVE  LexBefore(a, b) \/ LexBefore(b, a)
  <2> DEFINE D == {i \in Nat \ {0} : At(a, i) # At(b, i)}
  <2>1. D # {}
    <3>1. CASE Len(a) # Len(b)
      <4>1. Len(a) \in Nat /\ Len(b) \in Nat
        OBVIOUS
      <4>2. CASE Len(a) < Len(b)
        <5>1. Len(b) \in Nat \ {0} /\ b[Len(b)] \in Nat
          BY <4>1, <4>2
        <5>2. At(a, Len(b)) = 0 /\ At(b, Len(b)) = b[Len(b)] + 1
          BY <4>1, <4>2 DEF At
        <5> QED
          BY <5>1, <5>2
      <4>3. CASE Len(b) < Len(a)
        <5>1. Len(a) \in Nat \ {0} /\ a[Len(a)] \in Nat
          BY <4>1, <4>3
        <5>2. At(b, Len(a)) = 0 /\ At(a, Len(a)) = a[Len(a)] + 1
          BY <4>1, <4>3 DEF At
        <5> QED
          BY <5>1, <5>2
      <4> QED
        BY <3>1, <4>1, <4>2, <4>3
    <3>2. CASE Len(a) = Len(b)
      <4>1. PICK i \in 1..Len(a) : a[i] # b[i]
        BY <1>1, <3>2, SeqEqual
      <4>2. i \in Nat \ {0} /\ a[i] \in Nat /\ b[i] \in Nat /\ i <= Len(a) /\ i <= Len(b)
        BY <3>2
      <4>3. At(a, i) = a[i] + 1 /\ At(b, i) = b[i] + 1
        BY <4>2 DEF At
      <4>4. At(a, i) # At(b, i)
        BY <4>1, <4>2, <4>3
      <4> QED
        BY <4>2, <4>4
    <3> QED
      BY <3>1, <3>2
  <2>2. PICK m \in D : \A i \in D : m <= i
    <3>1. D \in SUBSET Nat
      OBVIOUS
    <3> HIDE DEF D
    <3> QED
      BY <2>1, <3>1, HasMin
  <2>3. m \in Nat \ {0} /\ At(a, m) # At(b, m) /\ \A j \in 1..(m - 1) : At(a, j) = At(b, j)
    BY <2>2
  <2>4. At(a, m) \in Nat /\ At(b, m) \in Nat
    BY <1>0, <2>3
  <2>5. DifferAt(a, b, m) \/ DifferAt(b, a, m)
    BY <2>3, <2>4 DEF DifferAt
  <2> QED
    BY <2>3, <2>5, LexIs
<1>2. ASSUME NEW c \in Seq(Nat), LexBefore(a, b), LexBefore(b, c)
      PROVE  LexBefore(a, c)
  <2>1. PICK i \in Nat \ {0} : DifferAt(a, b, i)
    BY <1>2, LexIs
  <2>2. PICK k \in Nat \ {0} : DifferAt(b, c, k)
    BY <1>2, LexIs
  <2>3. \A n \in Nat \ {0} : At(a, n) \in Nat /\ At(b, n) \in Nat /\ At(c, n) \in Nat
    BY <1>0
  <2> DEFINE m == IF i <= k THEN i ELSE k
  <2>4. m \in Nat \ {0} /\ m <= i /\ m <= k
    OBVIOUS
  <2>5. At(a, m) < At(c, m)
    <3>1. i < k => At(a, i) < At(b, i) /\ At(b, i) = At(c, i)
      BY <2>1, <2>2 DEF DifferAt
    <3>2. k < i => At(b, k) < At(c, k) /\ At(a, k) = At(b, k)
      BY <2>1, <2>2 DEF DifferAt
    <3>3. At(a, i) < At(b, i) /\ At(b, k) < At(c, k)
      BY <2>1, <2>2 DEF DifferAt
    <3>4. CASE i < k
      BY <3>1, <3>4
    <3>5. CASE k < i
      <4>1. m = k
        BY <3>5
      <4> HIDE DEF m
      <4> QED
        BY <3>2, <3>5, <4>1
    <3>6. CASE i = k
      <4>1. m = i /\ At(a, i) < At(b, i) /\ At(b, i) < At(c, i)
        BY <3>3, <3>6
      <4> HIDE DEF m
      <4> QED
        BY <2>3, <4>1
    <3> QED
      BY <3>4, <3>5, <3>6
  <2>6. \A j \in 1..(m - 1) : At(a, j) = At(c, j)
    <3> SUFFICES ASSUME NEW j \in 1..(m - 1)
                 PROVE  At(a, j) = At(c, j)
      OBVIOUS
    <3>1. j \in 1..(i - 1) /\ j \in 1..(k - 1)
      BY <2>4
    <3> QED
      BY <2>1, <2>2, <3>1 DEF DifferAt
  <2> HIDE DEF m
  <2>7. DifferAt(a, c, m)
    BY <2>5, <2>6 DEF DifferAt
  <2> QED
    BY <2>4, <2>7, LexIs
<1> QED
  BY <1>1, <1>2
=============================================================================
