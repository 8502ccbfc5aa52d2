--------------------------- MODULE WriteAheadLog ---------------------------
(***************************************************************************)
(* The write-ahead log of LevelDB (write-ahead-log.ts): the bytes Teams's  *)
(* LevelDB appends to a .log file, and what parseWal makes of a copy that  *)
(* may have been taken in the middle of an append.                         *)
(*                                                                         *)
(* Bytes are cells.  A block is Block cells and a header two: the checksum *)
(* and the pair of length and type.  A checksum is the very thing it       *)
(* covers, so it matches exactly when nothing of it changed.               *)
(***************************************************************************)
EXTENDS Naturals, SequencesExt

CONSTANT Block      \* cells in a block (32768 bytes in the code)

Header == 2         \* HEADER, 7 bytes: checksum, then length and type

ASSUME BlockHoldsMore == Block \in Nat /\ Block > Header

Zero == [type |-> "zero", len |-> 0]
Zeros(n) == [i \in 1..n |-> Zero]
Least(a, b) == IF a < b THEN a ELSE b

LeftInBlock(pos) == Block - (pos % Block)

-----------------------------------------------------------------------------
(* The writer.                                                             *)

HeaderOf(type, chunk) ==
    << [type |-> "crc", covers |-> <<type, chunk>>], [type |-> type, len |-> Len(chunk)] >>

FragmentType(begin, end) ==
    IF begin THEN IF end THEN "full" ELSE "first" ELSE IF end THEN "last" ELSE "middle"

\* One pass of the writer's loop: less than a header is padded, and the record is
\* cut where the block ends.
Framed(start, payload, w) ==
    LET left == LeftInBlock(start + Len(w.cells))
        pad == IF left < Header THEN left ELSE 0
        room == (IF pad = 0 THEN left ELSE Block) - Header
        upto == Least(w.done + room, Len(payload))
        chunk == SubSeq(payload, w.done + 1, upto)
        end == upto = Len(payload)
    IN [cells |-> w.cells \o Zeros(pad) \o HeaderOf(FragmentType(w.begin, end), chunk) \o chunk,
        done |-> upto, begin |-> FALSE, end |-> end]

\* The cells of a record appended at start: all but the first pass write something.
Fragments(start, payload) ==
    LET passes[n \in Nat] ==
            IF n = 0 THEN [cells |-> <<>>, done |-> 0, begin |-> TRUE, end |-> FALSE]
            ELSE LET w == passes[n - 1] IN IF w.end THEN w ELSE Framed(start, payload, w)
    IN passes[Len(payload) + 1].cells

\* A batch has an operation at least.
Operation == [type : {"op"}, op : Nat, key : Seq(Nat), value : Seq(Nat)]
Batch == Seq(Operation) \ {<<>>}

\* Its first cell is its first sequence number and count, then the operations.
Payload(sequence, ops) ==
    << [type |-> "batch", sequence |-> sequence, count |-> Len(ops)] >> \o ops

AddBatch(log, sequence, ops) == log \o Fragments(Len(log), Payload(sequence, ops))

-----------------------------------------------------------------------------
(* The reader.                                                             *)

\* emit: the batch of a reassembled record, none if it is too short for one.
Emit(record) ==
    IF record = <<>> THEN <<>>
    ELSE << [sequence |-> record[1].sequence,
             ops |-> SubSeq(record, 2, Least(record[1].count + 1, Len(record)))] >>

NoFrag == <<>>

\* The record at pos is short or its checksum is wrong: the end of the log.
Torn(data, pos) ==
    LET h == data[pos + 2]
        to == pos + Header + h.len
    IN \/ to > Len(data)
       \/ data[pos + 1] # [type |-> "crc", covers |-> <<h.type, SubSeq(data, pos + Header + 1, to)>>]

\* Mutant: a first fragment without data does not count as begun.
BegunIfAny(chunk) == IF chunk = <<>> THEN NoFrag ELSE <<chunk>>

\* The first fragment, which has no data where just a header fits in a block.
Begun(chunk) == <<chunk>>

\* What a whole record does to the record gathered so far and to the batches.
Assemble(s, type, chunk) ==
    CASE type = "full" -> [s EXCEPT !.batches = @ \o Emit(chunk)]
      [] type = "first" -> [s EXCEPT !.frag = Begun(chunk)]
      [] type = "middle" /\ s.frag # NoFrag -> [s EXCEPT !.frag = Append(@, chunk)]
      [] type = "last" /\ s.frag # NoFrag ->
            [pos |-> s.pos, batches |-> s.batches \o Emit(FlattenSeq(Append(s.frag, chunk))), frag |-> NoFrag]
      [] OTHER -> s

\* One pass of parseWal's loop, which ends where nothing moves any more.
Pass(data, s) ==
    LET left == LeftInBlock(s.pos)
        h == data[s.pos + 2]
        next == s.pos + Header + h.len
    IN IF s.pos + Header > Len(data) THEN s
       ELSE IF left < Header \/ h.type = "zero" THEN [s EXCEPT !.pos = @ + left]
       ELSE IF Torn(data, s.pos) THEN s
       ELSE Assemble([s EXCEPT !.pos = next], h.type, SubSeq(data, s.pos + Header + 1, next))

\* Every pass but the last moves on.
ParseWal(data) ==
    LET passes[n \in Nat] ==
            IF n = 0 THEN [pos |-> 0, batches |-> <<>>, frag |-> NoFrag]
            ELSE LET s == passes[n - 1] IN Pass(data, s)
    IN passes[Len(data)].batches
=============================================================================
