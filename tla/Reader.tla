------------------------------- MODULE Reader -------------------------------
(***************************************************************************)
(* The TypeScript reader of Chromium's IndexedDB (indexeddb.ts): what a    *)
(* mirrored directory of tables and a log amounts to, read afresh, read    *)
(* with the cache of parsed tables, and read with tables parsed by         *)
(* workers.  Functions of the directory; MirroredStore has the steps.      *)
(*                                                                         *)
(* A directory is [tables |-> file number -> table, log |-> cells].  A     *)
(* user key is the ids of database, store and index, and what follows.     *)
(***************************************************************************)
EXTENDS WriteAheadLog, SSTable, Functions, TLC

CONSTANT Digits     \* names of that many files are one digit, then they grow

ASSUME ThereAreNames == Digits \in Nat /\ Digits > 1

NoName == 0
DbNameTag == 201      \* 0xc9
StoreNameTag == 50    \* 0x32
NameMeta == 0

DeleteType == 0

-----------------------------------------------------------------------------
(* Names.  Numbers are padded to a width; past it a longer name sorts by   *)
(* its first digit, before names that are older.                           *)

NameOf(n) == IF n < Digits THEN <<n>> ELSE <<n \div Digits, n % Digits>>

LexBefore(a, b) ==
    \/ \E i \in DOMAIN a \cap DOMAIN b : a[i] < b[i] /\ SubSeq(a, 1, i - 1) = SubSeq(b, 1, i - 1)
    \/ IsStrictPrefix(a, b)

\* names().filter('.ldb').sort(byCodeUnit)
LdbFilesOf(dir) == Ordered(DOMAIN dir.tables, LAMBDA m, n : LexBefore(NameOf(m), NameOf(n)))

-----------------------------------------------------------------------------
(* Deduplication: a Map in insertion order, as the sequence of its records.*)

Empty == [map |-> <<>>, raw |-> 0, lossy |-> FALSE]

\* The highest sequence number of a user key wins; of equals, the first read.
Consider(acc, r) ==
    LET at == SelectInSeq(acc.map, LAMBDA x : x.key = r.key)
    IN [map |-> IF at = 0 THEN Append(acc.map, r)
                ELSE IF r.seq > acc.map[at].seq THEN [acc.map EXCEPT ![at] = r] ELSE acc.map,
        raw |-> acc.raw + 1, lossy |-> acc.lossy]

\* The trailer of an internal key is its type and sequence number.
RecordOf(entry) ==
    LET n == Len(entry[1])
    IN [key |-> SubSeq(entry[1], 1, n - 2), type |-> entry[1][n - 1], seq |-> entry[1][n],
        value |-> entry[2]]

FoldTable(acc, res) ==
    LET fed == FoldLeft(LAMBDA a, x : Consider(a, RecordOf(x)), acc, res.entries)
    IN [map |-> fed.map, raw |-> fed.raw, lossy |-> acc.lossy \/ res.lossy]

\* Mutant: all operations of a batch get its first sequence number.
RecordsOfFlat(batch) ==
    [i \in DOMAIN batch.ops |-> [key |-> batch.ops[i].key, type |-> batch.ops[i].op,
                                 seq |-> batch.sequence, value |-> batch.ops[i].value]]

\* The operations of a batch are numbered from its sequence number.
RecordsOf(batch) ==
    [i \in DOMAIN batch.ops |-> [key |-> batch.ops[i].key, type |-> batch.ops[i].op,
                                 seq |-> batch.sequence + i - 1, value |-> batch.ops[i].value]]

FoldBatch(acc, batch) == FoldLeft(Consider, acc, RecordsOf(batch))

\* A table that cannot be read is skipped; the load is lossy then.
Unread == [entries |-> <<>>, lossy |-> TRUE]

\* results: the parse of each table, by its file name.
ReadTablesInto(acc, files, results) == FoldLeft(LAMBDA a, f : FoldTable(a, results[f]), acc, files)

ReadLogsInto(acc, dir) == FoldLeft(FoldBatch, acc, ParseWal(dir.log))

-----------------------------------------------------------------------------
(* Grouping into a Snapshot.                                               *)

DbOf(key) == key[1]
StoreOf(key) == key[2]
IndexOfKey(key) == key[3]
TagOf(key) == key[4]

IsDbNameRow(key) == DbOf(key) = 0 /\ StoreOf(key) = 0 /\ IndexOfKey(key) = 0 /\ TagOf(key) = DbNameTag
IsStoreNameRow(key) ==
    /\ DbOf(key) > 0 /\ StoreOf(key) = 0 /\ IndexOfKey(key) = 0
    /\ TagOf(key) = StoreNameTag /\ key[6] = NameMeta
IsData(key) == IndexOfKey(key) = 1

MaxOr0(S) == IF S = {} THEN 0 ELSE CHOOSE m \in S : \A n \in S : n =< m

\* The name of id in a sequence of <<id, name>>: the last, as Map.set leaves it.
NameIn(named, id) ==
    LET at == SelectLastInSeq(named, LAMBDA n : n[1] = id)
    IN IF at = 0 THEN NoName ELSE named[at][2]

\* The distinct elements of s, in the order of their first occurrence.
Distinct(s) == FoldLeft(LAMBDA seen, e : IF Contains(seen, e) THEN seen ELSE Append(seen, e), <<>>, s)

CollectSnapshot(acc) ==
    LET live == SelectSeq(acc.map, LAMBDA r : r.type # DeleteType)
        dbRows == SelectSeq(live, LAMBDA r : IsDbNameRow(r.key))
        dbNames == [i \in DOMAIN dbRows |-> <<dbRows[i].value[1], dbRows[i].key[5]>>]
        storeRows == SelectSeq(live, LAMBDA r : IsStoreNameRow(r.key))
        storeNames == [i \in DOMAIN storeRows |->
                          <<<<DbOf(storeRows[i].key), storeRows[i].key[5]>>, storeRows[i].value[1]>>]
        data == SelectSeq(live, LAMBDA r : IsData(r.key))
        BucketOf(r) == <<DbOf(r.key), StoreOf(r.key)>>
        Bucket(bk) ==
            LET records == SelectSeq(data, LAMBDA r : BucketOf(r) = bk)
            IN [db |-> bk[1], os |-> bk[2], records |-> records,
                dbName |-> NameIn(dbNames, bk[1]),
                storeName |-> NameIn(storeNames, bk),
                maxSeq |-> MaxOr0({records[i].seq : i \in DOMAIN records})]
        keys == Distinct([i \in DOMAIN data |-> BucketOf(data[i])])
    IN [buckets |-> [i \in DOMAIN keys |-> Bucket(keys[i])],
        maxSeq |-> MaxOr0({acc.map[i].seq : i \in DOMAIN acc.map}),
        rawCount |-> acc.raw, uniqueCount |-> Len(acc.map), lossy |-> acc.lossy]

-----------------------------------------------------------------------------
(* The three loaders.  `bad` are the tables that cannot be read right now. *)

ReadAndParse(dir, bad, f) == IF f \in bad THEN Unread ELSE ParseTable(dir.tables[f])

BuildDedupMap(dir, bad) ==
    LET results == [f \in DOMAIN dir.tables |-> ReadAndParse(dir, bad, f)]
    IN ReadLogsInto(ReadTablesInto(Empty, LdbFilesOf(dir), results), dir)

\* loadSnapshotFrom
LoadSnapshot(dir, bad) == CollectSnapshot(BuildDedupMap(dir, bad))

\* handlePoolMessage, packed by the worker and unpacked by the coordinator.
FromWorker(dir, f) == UnpackTable(PackTable(ParseTable(dir.tables[f])))

\* loadSnapshotFromAsync: what no worker parsed is read and parsed inline.
LoadSnapshotAsync(dir, bad, parsed) ==
    LET results == [f \in DOMAIN dir.tables |->
                       IF f \in parsed THEN FromWorker(dir, f) ELSE ReadAndParse(dir, bad, f)]
    IN CollectSnapshot(ReadLogsInto(ReadTablesInto(Empty, LdbFilesOf(dir), results), dir))

NoEntry == [size |-> 0]

\* Mutant: every parse is cached, and served by name.
LookupByName(dir, bad, cache, f) ==
    LET hit == f \in DOMAIN cache
        res == IF hit THEN cache[f].res ELSE ReadAndParse(dir, bad, f)
    IN [res |-> res,
        entry |-> IF f \in bad THEN NoEntry ELSE [res |-> res, size |-> SizeOf(dir.tables[f])]]

\* The body of readTablesInto: a hit is valid while the file has the size it
\* had, and only a clean parse is kept.
Lookup(dir, bad, cache, f) ==
    LET size == SizeOf(dir.tables[f])
        hit == f \in DOMAIN cache /\ f \notin bad /\ cache[f].size = size
        res == IF hit THEN cache[f].res ELSE ReadAndParse(dir, bad, f)
    IN [res |-> res,
        entry |-> IF ~hit /\ ~res.lossy THEN [res |-> res, size |-> size]
                  ELSE IF f \in DOMAIN cache THEN cache[f] ELSE NoEntry]

\* loadSnapshotReuseFrom
LoadSnapshotReuse(dir, bad, cache) ==
    LET results == [f \in DOMAIN dir.tables |-> Lookup(dir, bad, cache, f).res]
    IN CollectSnapshot(ReadLogsInto(ReadTablesInto(Empty, LdbFilesOf(dir), results), dir))

\* Mutant: asked after the tables that are gone were pruned.
CompactedAfterPrune(dir, cache) == \E f \in DOMAIN cache \intersect DOMAIN dir.tables : f \notin DOMAIN dir.tables

\* A table parsed before is gone: a compaction.
Compacted(dir, cache) == \E f \in DOMAIN cache : f \notin DOMAIN dir.tables

\* The cache a reuse leaves: new clean parses in, tables that are gone out.
CacheAfter(dir, bad, cache) ==
    LET entries == [f \in DOMAIN dir.tables |-> Lookup(dir, bad, cache, f).entry]
    IN RestrictValues(entries, LAMBDA x : x # NoEntry)
=============================================================================
