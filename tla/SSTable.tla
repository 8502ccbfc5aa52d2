------------------------------ MODULE SSTable ------------------------------
(***************************************************************************)
(* The tables of LevelDB (sstable.ts), and the form in which a parsed one  *)
(* crosses from a worker to the coordinator (table-transfer.ts).           *)
(*                                                                         *)
(* An entry is an internal key and a value, both sequences of cells.  The  *)
(* internal key ends in a trailer of two cells: type and sequence number.  *)
(***************************************************************************)
EXTENDS Naturals, SequencesExt

CONSTANT BlockEntries     \* entries in a data block

\* The elements of a set, smallest first.
Ordered(S, Before(_, _)) ==
    LET f[T \in SUBSET S] ==
            IF T = {} THEN <<>>
            ELSE LET m == CHOOSE x \in T : \A y \in T \ {x} : Before(x, y)
                 IN <<m>> \o f[T \ {m}]
    IN f[S]

ASSUME SomeEntries == BlockEntries \in Nat \ {0}

CommonPrefix(a, b) == Len(LongestCommonPrefix({a, b}))

-----------------------------------------------------------------------------
(* The writer: blocks of prefix-compressed entries, then the index block.  *)

Compressed(entries) ==
    [i \in DOMAIN entries |->
        LET key == entries[i][1]
            shared == IF i = 1 THEN 0 ELSE CommonPrefix(entries[i - 1][1], key)
        IN [shared |-> shared, delta |-> SubSeq(key, shared + 1, Len(key)), value |-> entries[i][2]]]

Least2(a, b) == IF a < b THEN a ELSE b

BlocksOf(entries) ==
    [j \in 1..((Len(entries) + BlockEntries - 1) \div BlockEntries) |->
        [ok |-> TRUE,
         rows |-> Compressed(SubSeq(entries, (j - 1) * BlockEntries + 1,
                                    Least2(j * BlockEntries, Len(entries))))]]

Table(entries) == [blocks |-> BlocksOf(entries), indexOk |-> TRUE]

\* A copy that lost its tail, and one of the right size with a block gone bad.
Truncated(table) == [table EXCEPT !.blocks = SubSeq(@, 1, Len(@) - 1), !.indexOk = FALSE]
Damaged(table) == [table EXCEPT !.blocks[1].ok = FALSE]

\* The size of the file: its blocks, and whether the index block, which comes
\* last, is among them.
SizeOf(table) == [blocks |-> Len(table.blocks), index |-> table.indexOk]
NoBytes == SizeOf([blocks |-> <<>>, indexOk |-> FALSE])

-----------------------------------------------------------------------------
(* The reader.                                                             *)

\* parseBlock: every key is a prefix of the one before and a delta.
ParseBlock(rows) ==
    LET Entry(out, r) ==
            LET prev == IF out = <<>> THEN <<>> ELSE Last(out)[1]
            IN Append(out, <<SubSeq(prev, 1, r.shared) \o r.delta, r.value>>)
    IN FoldLeft(Entry, <<>>, rows)

\* parseTable: a bad index loses the table, a bad data block only itself.
ParseTable(table) ==
    IF ~table.indexOk THEN [entries |-> <<>>, lossy |-> TRUE]
    ELSE [entries |-> FlattenSeq([j \in DOMAIN table.blocks |->
                          IF table.blocks[j].ok THEN ParseBlock(table.blocks[j].rows) ELSE <<>>]),
          lossy |-> \E j \in DOMAIN table.blocks : ~table.blocks[j].ok]

-----------------------------------------------------------------------------
(* Crossing a worker boundary: two blobs and the lengths.                  *)

\* Mutant: a table that came with a bad block arrives as a clean one.
PackTableAsClean(res) ==
    [keys |-> FlattenSeq([i \in DOMAIN res.entries |-> res.entries[i][1]]),
     vals |-> FlattenSeq([i \in DOMAIN res.entries |-> res.entries[i][2]]),
     lens |-> [i \in DOMAIN res.entries |-> <<Len(res.entries[i][1]), Len(res.entries[i][2])>>],
     lossy |-> FALSE]

PackTable(res) ==
    [keys |-> FlattenSeq([i \in DOMAIN res.entries |-> res.entries[i][1]]),
     vals |-> FlattenSeq([i \in DOMAIN res.entries |-> res.entries[i][2]]),
     lens |-> [i \in DOMAIN res.entries |-> <<Len(res.entries[i][1]), Len(res.entries[i][2])>>],
     lossy |-> res.lossy]

\* The cells of a blob that belong to entry i.
Slice(blob, lens, part, i) ==
    LET from == FoldLeft(LAMBDA sum, l : sum + l[part], 0, SubSeq(lens, 1, i - 1))
    IN SubSeq(blob, from + 1, from + lens[i][part])

UnpackTable(p) ==
    [entries |-> [i \in DOMAIN p.lens |-> <<Slice(p.keys, p.lens, 1, i), Slice(p.vals, p.lens, 2, i)>>],
     lossy |-> p.lossy]
=============================================================================
