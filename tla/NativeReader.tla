---------------------------- MODULE NativeReader ----------------------------
(***************************************************************************)
(* The Rust reader (idb.rs): the same directory as Reader, folded into a   *)
(* vector of records with an index of positions, and for refreshes a       *)
(* folded prefix: the fold of the first tables of the sorted list, kept    *)
(* from one refresh to the next without the log.  Functions of the         *)
(* directory, written the way idb.rs goes about it.                        *)
(***************************************************************************)
EXTENDS Naturals, SequencesExt, Functions, TLC

CONSTANTS
    ReadTable(_),      \* read_table: a table's entries and whether any is missing
    ParseLog(_),       \* parse_write_ahead_log
    SortedNumbers(_),  \* sorted_by_ext
    SizeOfTable(_),    \* the length of a table's file
    ZeroLength         \* the length of an empty one

Dedup0 == [order |-> <<>>, index |-> <<>>, raw |-> 0, lossy |-> FALSE]

\* Mutant: the last one folded wins.
DedupConsiderLater(d, key, value, seq, rtype) ==
    LET rec == [key |-> key, type |-> rtype, seq |-> seq, value |-> value]
    IN IF key \notin DOMAIN d.index
       THEN [d EXCEPT !.raw = @ + 1, !.order = Append(@, rec),
                      !.index = (key :> Len(d.order) + 1) @@ @]
       ELSE [d EXCEPT !.raw = @ + 1, !.order[d.index[key]] = rec]

\* Dedup::consider
DedupConsider(d, key, value, seq, rtype) ==
    LET rec == [key |-> key, type |-> rtype, seq |-> seq, value |-> value]
    IN IF key \notin DOMAIN d.index
       THEN [d EXCEPT !.raw = @ + 1, !.order = Append(@, rec),
                      !.index = (key :> Len(d.order) + 1) @@ @]
       ELSE IF seq > d.order[d.index[key]].seq
       THEN [d EXCEPT !.raw = @ + 1, !.order[d.index[key]] = rec]
       ELSE [d EXCEPT !.raw = @ + 1]

\* fold_table, and what its callers make of an incomplete table
NativeFoldTable(d, t) ==
    LET One(acc, x) ==
            LET n == Len(x[1])
            IN DedupConsider(acc, SubSeq(x[1], 1, n - 2), x[2], x[1][n], x[1][n - 1])
        fed == FoldLeft(One, d, t.entries)
    IN [order |-> fed.order, index |-> fed.index, raw |-> fed.raw, lossy |-> d.lossy \/ t.lossy]

\* The folding of the logs, onto a copy of whatever was folded before.
FoldLogs(d, dir) ==
    LET Ops(batch) == [i \in DOMAIN batch.ops |-> <<batch.ops[i], batch.sequence + (i - 1)>>]
        batches == ParseLog(dir.log)
        all == FlattenSeq([j \in DOMAIN batches |-> Ops(batches[j])])
    IN FoldLeft(LAMBDA acc, x : DedupConsider(acc, x[1].key, x[1].value, x[2], x[1].op), d, all)

ReadOr(dir, bad, f) ==
    IF f \in bad THEN [entries |-> <<>>, lossy |-> TRUE] ELSE ReadTable(dir.tables[f])

\* sorted_ldb_sizes: a file that cannot be asked has size 0.
SortedLdbSizes(dir, bad) ==
    LET fs == SortedNumbers(dir)
    IN [i \in DOMAIN fs |-> <<fs[i], IF fs[i] \in bad THEN ZeroLength ELSE SizeOfTable(dir.tables[fs[i]])>>]

\* fold_all_ldb
FoldAllLdb(dir, bad, ldbNow) ==
    FoldLeft(LAMBDA d, ns : NativeFoldTable(d, ReadOr(dir, bad, ns[1])), Dedup0, ldbNow)

-----------------------------------------------------------------------------
(* collect_snapshot, record by record as the code routes them.             *)

BucketAt(s, db, os) == SelectInSeq(s.buckets, LAMBDA b : b.db = db /\ b.os = os)

AddToBucket(s, rec, db, os) ==
    LET known == BucketAt(s, db, os)
        fresh == [db |-> db, os |-> os, records |-> <<>>, dbName |-> 0, storeName |-> 0, maxSeq |-> 0]
        s1 == IF known = 0 THEN [s EXCEPT !.buckets = Append(@, fresh)] ELSE s
        i == IF known = 0 THEN Len(s1.buckets) ELSE known
        Later(m) == IF rec.seq > m THEN rec.seq ELSE m
    IN [s1 EXCEPT !.buckets[i].records = Append(@, rec), !.buckets[i].maxSeq = Later(@)]

Route(s0, rec) ==
    LET s == [s0 EXCEPT !.maxSeq = IF rec.seq > @ THEN rec.seq ELSE @]
        db == rec.key[1]
        os == rec.key[2]
        idx == rec.key[3]
        tag == rec.key[4]
    IN IF rec.type = 0 THEN s
       ELSE IF db = 0 /\ os = 0 /\ idx = 0 /\ tag = 201
       THEN [s EXCEPT !.dbNames = (rec.value[1] :> rec.key[5]) @@ @]
       ELSE IF db > 0 /\ os = 0 /\ idx = 0 /\ tag = 50
       THEN IF rec.key[6] = 0 THEN [s EXCEPT !.storeNames = (<<db, rec.key[5]>> :> rec.value[1]) @@ @] ELSE s
       ELSE IF idx = 1 THEN AddToBucket(s, rec, db, os) ELSE s

NativeCollectSnapshot(d) ==
    LET s == FoldLeft(Route, [buckets |-> <<>>, dbNames |-> <<>>, storeNames |-> <<>>, maxSeq |-> 0], d.order)
        NameOr0(names, k) == IF k \in DOMAIN names THEN names[k] ELSE 0
    IN [buckets |-> [i \in DOMAIN s.buckets |->
            [s.buckets[i] EXCEPT !.dbName = NameOr0(s.dbNames, s.buckets[i].db),
                                 !.storeName = NameOr0(s.storeNames, <<s.buckets[i].db, s.buckets[i].os>>)]],
        maxSeq |-> s.maxSeq, rawCount |-> d.raw, uniqueCount |-> Len(d.order), lossy |-> d.lossy]

-----------------------------------------------------------------------------
(* The loaders.                                                            *)

\* load_snapshot
NativeLoad(dir, bad) ==
    NativeCollectSnapshot(FoldLogs(FoldAllLdb(dir, bad, SortedLdbSizes(dir, bad)), dir))

NoPrefix == [covered |-> <<>>, dedup |-> Dedup0, some |-> FALSE]

\* Only a clean fold becomes a prefix.
PrefixOf(d, ldbNow) == IF d.lossy THEN NoPrefix ELSE [covered |-> ldbNow, dedup |-> d, some |-> TRUE]

\* Mutant: the covered tables are somewhere in the list.
IsSomewhereIn(covered, current) ==
    \A i \in DOMAIN covered : Contains(current, covered[i])

\* is_positional_prefix
IsPositionalPrefix(covered, current) == IsPrefix(covered, current)

\* covered_name_vanished
CoveredNameVanished(covered, current) ==
    \E i \in DOMAIN covered : \A j \in DOMAIN current : current[j][1] # covered[i][1]

\* Folds the tail onto the prefix until a table of it is lossy.
AdvancePrefix(dir, bad, folded, ldbNow) ==
    LET tail == SubSeq(ldbNow, Len(folded.covered) + 1, Len(ldbNow))
    IN FoldLeft(LAMBDA p, ns : IF p.dedup.lossy THEN p
                               ELSE [covered |-> Append(p.covered, ns), some |-> p.some,
                                     dedup |-> NativeFoldTable(p.dedup, ReadOr(dir, bad, ns[1]))],
                folded, tail)

\* build_dedup_map_reuse up to the logs: the fold, the prefix it leaves, and
\* whether a covered table is gone.
FoldTablesReuse(dir, bad, folded) ==
    LET ldbNow == SortedLdbSizes(dir, bad)
        all == FoldAllLdb(dir, bad, ldbNow)
        advanced == AdvancePrefix(dir, bad, folded, ldbNow)
    IN IF folded.some /\ CoveredNameVanished(folded.covered, ldbNow)
       THEN [dedup |-> all, folded |-> PrefixOf(all, ldbNow), compacted |-> TRUE]
       ELSE IF folded.some /\ IsPositionalPrefix(folded.covered, ldbNow)
       THEN IF advanced.dedup.lossy THEN [dedup |-> all, folded |-> NoPrefix, compacted |-> FALSE]
            ELSE [dedup |-> advanced.dedup, folded |-> advanced, compacted |-> FALSE]
       ELSE [dedup |-> all, folded |-> PrefixOf(all, ldbNow), compacted |-> FALSE]

\* load_snapshot_reuse
NativeLoadReuse(dir, bad, folded) ==
    NativeCollectSnapshot(FoldLogs(FoldTablesReuse(dir, bad, folded).dedup, dir))

\* Mutant: the log does not enter the signature.
SourceSignatureOfTables(dir) == <<SortedLdbSizes(dir, {}), 0, 0>>

\* A log's file number is never used again, nor is the number it begins at.
LogNumber(cells) ==
    LET batches == ParseLog(cells) IN IF batches = <<>> THEN 0 ELSE batches[1].sequence

\* source_signature: names and sizes of what is read.
SourceSignature(dir) == <<SortedLdbSizes(dir, {}), LogNumber(dir.log), Len(dir.log)>>
=============================================================================
