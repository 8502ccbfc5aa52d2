--------------------------- MODULE MirroredStore ---------------------------
(***************************************************************************)
(* A LevelDB that Teams writes, the directory the session mirrors it into, *)
(* and the loads of both engines from that directory, each with what it    *)
(* keeps from one load to the next.                                        *)
(*                                                                         *)
(* Teams appends batches to the log, flushes the log into a table and      *)
(* compacts all tables into one without the records that are hidden and    *)
(* without tombstones; what was replaced stays for a while, and one        *)
(* background thread does the one or the other.  The session copies all at *)
(* one moment (the file by file copy is module Session's), a table only    *)
(* if its size differs, and a copy may be short.                           *)
(***************************************************************************)
EXTENDS Reader, FiniteSets

CONSTANTS
    Opening,       \* the batch that creates the database
    Batches,       \* what Teams may write then: sequences of [op, key, value]
    MaxBatches,    \* bound: batches written
    FirstFile,     \* number of the first table
    MaxFile,       \* bound: number of the last table
    Tears          \* how many cells of the log a copy can miss

ASSUME FilesAreNumbered == FirstFile \in Nat
ASSUME BatchesAreWritten == Opening \in Batch /\ Batches \subseteq Batch

Native == INSTANCE NativeReader WITH
    ReadTable <- ParseTable, ParseLog <- ParseWal,
    SortedNumbers <- LdbFilesOf, SizeOfTable <- SizeOf, ZeroLength <- NoBytes

VARIABLES
    history,     \* the batches written, oldest first
    base,        \* how many of them the live log no longer holds
    log,         \* cells of the live log
    flushed,     \* the log is in a table and about to be removed
    tables,      \* the live tables: file number -> table
    obsolete,    \* those of them that a compaction has replaced
    nextFile,    \* number of the next table
    dir,         \* the mirrored directory
    copied,      \* cells of the live log that an earlier copy had
    ldbCache,    \* Map<filename, { res, size }> of the JS engine
    folded,      \* FoldedPrefix of the native engine
    loaded,      \* how the directory was last loaded: "never", "full", "reuse"
    seen         \* the last load that was not lossy: its records, its maxSeq

vars == <<history, base, log, flushed, tables, obsolete, nextFile, dir, copied, ldbCache, folded, loaded, seen>>
teams == <<history, base, log, flushed, tables, obsolete, nextFile>>

NoTables == <<>>
NothingSeen == [some |-> FALSE, live |-> {}, maxSeq |-> 0]

-----------------------------------------------------------------------------
(* Teams.                                                                  *)

OpsOf(h) == FlattenSeq(h)
NextSeq == Len(OpsOf(history)) + 1

\* The operations of the first n batches.
Written(n) == Len(OpsOf(SubSeq(history, 1, n)))

\* Internal keys: by user key, newest first.
Entry(op, seq) == <<op.key \o <<op.op, seq>>, op.value>>
EntryBefore(a, b) ==
    LET ka == SubSeq(a[1], 1, Len(a[1]) - 2)
        kb == SubSeq(b[1], 1, Len(b[1]) - 2)
    IN LexBefore(ka, kb) \/ (ka = kb /\ Last(a[1]) > Last(b[1]))

\* What the log holds.
LogEntries == {Entry(OpsOf(history)[i], i) : i \in (Written(base) + 1)..(NextSeq - 1)}

UserKey(x) == SubSeq(x[1], 1, Len(x[1]) - 2)
TableEntries == UNION {ToSet(ParseTable(tables[f]).entries) : f \in DOMAIN tables \ obsolete}
Newest(S) == {x \in S : \A y \in S : UserKey(x) = UserKey(y) => Last(y[1]) =< Last(x[1])}
Undeleted(S) == {x \in S : x[1][Len(x[1]) - 1] # DeleteType}

\* A new table gets the next number.
TablesWith(table) ==
    [f \in DOMAIN tables \union {nextFile} |-> IF f = nextFile THEN table ELSE tables[f]]

Write(batch) ==
    /\ Len(history) < MaxBatches
    /\ ~flushed
    /\ log' = AddBatch(log, NextSeq, batch)
    /\ history' = Append(history, batch)
    /\ UNCHANGED <<base, flushed, tables, obsolete, nextFile, dir, copied, ldbCache, folded, loaded, seen>>

Flush ==
    /\ log # <<>> /\ ~flushed /\ obsolete = {}
    /\ nextFile =< MaxFile
    /\ tables' = TablesWith(Table(Ordered(LogEntries, EntryBefore)))
    /\ nextFile' = nextFile + 1
    /\ flushed' = TRUE
    /\ UNCHANGED <<history, base, log, obsolete, dir, copied, ldbCache, folded, loaded, seen>>

RemoveLog ==
    /\ flushed
    /\ log' = <<>> /\ base' = Len(history) /\ flushed' = FALSE /\ copied' = 0
    /\ UNCHANGED <<history, tables, obsolete, nextFile, dir, ldbCache, folded, loaded, seen>>

Compact ==
    /\ Cardinality(DOMAIN tables) > 1 /\ obsolete = {} /\ ~flushed
    /\ nextFile =< MaxFile
    /\ obsolete' = DOMAIN tables
    /\ tables' = TablesWith(Table(Ordered(Undeleted(Newest(TableEntries)), EntryBefore)))
    /\ nextFile' = nextFile + 1
    /\ UNCHANGED <<history, base, log, flushed, dir, copied, ldbCache, folded, loaded, seen>>

RemoveObsolete ==
    /\ obsolete # {}
    /\ tables' = Restrict(tables, DOMAIN tables \ obsolete)
    /\ obsolete' = {}
    /\ UNCHANGED <<history, base, log, flushed, nextFile, dir, copied, ldbCache, folded, loaded, seen>>

-----------------------------------------------------------------------------
(* The session's copies.                                                   *)

Copies(table) ==
    {table} \union (IF table.blocks = <<>> THEN {} ELSE {Truncated(table), Damaged(table)})

\* All tables are copied afresh, or those missing or of another size; at most
\* one copy goes wrong, and the log's may lack a tail.
Copied(full) == {f \in DOMAIN tables :
    \/ full
    \/ f \notin DOMAIN dir.tables
    \/ SizeOf(dir.tables[f]) # SizeOf(tables[f])}

\* A copy lacks a tail only of a log that Teams still appends to.
LogCuts == {m \in copied..Len(log) : Len(log) - m \in IF flushed THEN {0} ELSE Tears}

\* What the directory becomes: takeSnapshot copies all, snapshotReuse brings
\* it up to date in place; at most one copy goes wrong.
Mirrored(full, spoiled, n) ==
    [tables |-> [f \in DOMAIN tables |->
         IF f \in DOMAIN spoiled THEN spoiled[f]
         ELSE IF f \in Copied(full) THEN tables[f] ELSE dir.tables[f]],
     log |-> SubSeq(log, 1, n)]

Spoiled(full) == {<<>>} \union UNION {{[g \in {f} |-> t] : t \in Copies(tables[f])} : f \in Copied(full)}

\* One fault at a time: a log that lacks its tail comes with whole tables.
Mirrors(full) ==
    {Mirrored(full, s, Len(log)) : s \in Spoiled(full)} \union {Mirrored(full, <<>>, n) : n \in LogCuts}

\* With a table that cannot be read, the copies go well.
WholeMirror == Mirrored(FALSE, <<>>, Len(log))

-----------------------------------------------------------------------------
(* The loads.                                                              *)

LiveOf(snap) == UNION {ToSet(snap.buckets[i].records) : i \in DOMAIN snap.buckets}

Look(snap) ==
    IF snap.lossy THEN seen
    ELSE [some |-> TRUE, live |-> LiveOf(snap), maxSeq |-> snap.maxSeq]

\* A full build: everything is copied, and the engines start over.
FullLoad ==
    \E d \in Mirrors(TRUE) :
        /\ dir' = d /\ copied' = Len(d.log) /\ loaded' = "full"
        /\ ldbCache' = <<>> /\ folded' = Native!NoPrefix
        /\ seen' = Look(LoadSnapshot(d, {}))
        /\ UNCHANGED teams

\* A refresh: the copies are brought up to date and both engines load, with
\* what they kept and with the tables `bad` unreadable.
ReuseLoad(bad) ==
    \E d \in IF bad = {} THEN Mirrors(FALSE) ELSE {WholeMirror} :
        /\ dir' = d /\ copied' = Len(d.log) /\ loaded' = "reuse"
        /\ ldbCache' = CacheAfter(d, bad, ldbCache)
        /\ folded' = Native!FoldTablesReuse(d, bad, folded).folded
        /\ seen' = Look(LoadSnapshotReuse(d, bad, ldbCache))
        /\ UNCHANGED teams

\* At most one table cannot be read, for now.
Unreadable == {{}} \union {{f} : f \in DOMAIN tables}

Init ==
    /\ history = <<Opening>> /\ base = 0 /\ log = AddBatch(<<>>, 1, Opening) /\ flushed = FALSE
    /\ tables = NoTables /\ obsolete = {} /\ nextFile = FirstFile
    /\ dir = [tables |-> NoTables, log |-> <<>>] /\ copied = 0
    /\ ldbCache = <<>> /\ folded = Native!NoPrefix
    /\ loaded = "never" /\ seen = NothingSeen

Next ==
    \/ \E b \in Batches : Write(b)
    \/ Flush
    \/ RemoveLog
    \/ Compact
    \/ RemoveObsolete
    \/ FullLoad
    \/ \E bad \in Unreadable : ReuseLoad(bad)

Spec == Init /\ [][Next]_vars

-----------------------------------------------------------------------------
(* Properties.                                                             *)

\* What Teams had stored after its first n batches.
StateAfter(n) ==
    LET ops == OpsOf(SubSeq(history, 1, n))
        LastOf(k) == SelectLastInSeq(ops, LAMBDA o : o.key = k)
    IN {ops[LastOf(ops[i].key)] : i \in {j \in DOMAIN ops : ops[LastOf(ops[j].key)].op # DeleteType}}

Rows(S, Test(_)) == {<<x.key, x.value>> : x \in {y \in S : Test(y.key)}}

\* A load that is not lossy is one past state of Teams's storage, the present
\* one if nothing has changed since the copies and they are whole: every record
\* with its newest value, nothing deleted, batches whole, whichever order the
\* files sort in, whatever tables overlap and wherever the log was cut
\* (indexeddb.ts:255-267, write-ahead-log.ts:28-76).
PastState ==
    LET snap == LoadSnapshot(dir, {})
        current == dir = [tables |-> tables, log |-> log]
    IN snap.lossy \/ \E n \in IF current THEN {Len(history)} ELSE 0..Len(history) :
           {<<r.key, r.value>> : r \in LiveOf(snap)} = Rows(StateAfter(n), IsData)

ReusedNow == dir' # dir /\ loaded' = "reuse"

\* With the cache of parsed tables a load comes to what it comes to without,
\* records, order, names and counts, at every point (indexeddb.ts:66-121).
ReuseIsFresh ==
    [][ReusedNow => LoadSnapshotReuse(dir', {}, ldbCache) = LoadSnapshot(dir', {})]_vars

\* Whichever tables the workers parsed, the load is the serial one
\* (indexeddb.ts:294-341, table-transfer.ts).
AsyncIsSync ==
    \A parsed \in SUBSET DOMAIN dir.tables :
        LoadSnapshotAsync(dir, {}, parsed) = LoadSnapshot(dir, {})

\* The two engines read the same Snapshot, order included (idb.rs:138-173).
EnginesAgree == Native!NativeLoad(dir, {}) = LoadSnapshot(dir, {})

\* With the folded prefix the native engine reads what it reads cold, order
\* included (idb.rs:457-530).
PrefixIsColdFold ==
    [][ReusedNow => Native!NativeLoadReuse(dir', {}, folded) = Native!NativeLoad(dir', {})]_vars

\* Two directories with one source signature that read whole hold the same: the
\* native refresh may skip the second unread (idb.rs:564-594).
SignatureIsSound ==
    [][dir' # dir /\ Native!SourceSignature(dir') = Native!SourceSignature(dir) =>
        LET before == LoadSnapshot(dir, {})
            after == LoadSnapshot(dir', {})
        IN before.lossy \/ after.lossy \/ before = after]_vars

CachedRecords == UNION {{RecordOf(x) : x \in ToSet(ldbCache[f].res.entries)} : f \in DOMAIN ldbCache}

\* From one load that is not lossy to the next, a record that is new or changed
\* has a sequence number above the earlier maxSeq: the incremental, which looks
\* only there, misses none (ingest.ts:108-113).
ChangesAreAbove ==
    [][ReusedNow /\ seen.some /\ seen' # seen =>
        \A r \in seen'.live \ seen.live : r.seq > seen.maxSeq]_vars

\* A record that an earlier load read from a table and that the next one lacks
\* has a tombstone above the earlier maxSeq, or the load reports a compaction
\* (indexeddb.ts:343-366).  Nothing is promised of a record read from the log,
\* nor of the first refresh after a full build, whose cache is empty.
GoneIsExplained ==
    [][ReusedNow /\ seen' # seen =>
        \A r \in seen.live \intersect CachedRecords :
            \/ \E s \in seen'.live : s.key = r.key
            \/ Compacted(dir', ldbCache)
            \/ \E x \in ToSet(BuildDedupMap(dir', {}).map) :
                   x.key = r.key /\ x.type = DeleteType /\ x.seq > seen.maxSeq]_vars
=============================================================================
