------------------------------ MODULE Session ------------------------------
(***************************************************************************)
(* The session of libzaungast (session.ts): it notices that Teams wrote to *)
(* its LevelDB, copies the files one by one into a private directory while *)
(* Teams goes on writing, and has the engine build or refresh the store.   *)
(* A refresh is one synchronous call, but Teams is another process: every  *)
(* system call of it is a step of its own here.                            *)
(*                                                                         *)
(* The store is abstracted to the records it was made of; Ingest models    *)
(* what an engine does to its tables.  The engine here is the JS one.      *)
(***************************************************************************)
EXTENDS Naturals, FiniteSets

CONSTANTS
    Key,              \* the record keys of the source
    Dir,              \* names mkdtemp can return
    NoDir,            \* no directory
    Mode,             \* incrementalMode: "copy-reuse" or "reparse"
    OldestFirst,      \* LevelDB removes obsolete files in the order it made them
    InOrder,          \* readdir lists files by name, as NTFS does
    MaxIncrementals,  \* maxIncrementals, the backstop on their number
    MaxWrites,        \* bound: writes Teams makes
    MaxFile,          \* bound: file numbers LevelDB hands out
    MaxFaults         \* bound: copies, reads and applies that fail by themselves

ASSUME Modes == Mode \in {"copy-reuse", "reparse"}
ASSUME Orders == OldestFirst \in BOOLEAN /\ InOrder \in BOOLEAN
ASSUME Bounds == /\ MaxIncrementals \in Nat /\ MaxFaults \in Nat
                 /\ MaxWrites \in Nat \ {0} /\ MaxFile \in Nat \ {0, 1}
ASSUME Dirs == NoDir \notin Dir /\ \E d, e \in Dir : d # e

VARIABLES
    hist,         \* every record Teams wrote
    live,         \* the live directory: the records in each file
    obsolete,     \* files LevelDB no longer needs but has not removed yet
    nextFile,     \* LevelDB's next file number
    served,       \* cur: a store is served
    store,        \* the live records the store was made of
    watermark,    \* cur.state.maxSeq
    lastProbe,    \* the fingerprint of the source last read and applied
    fullDue,      \* this get finds FULL_INTERVAL_MS since lastFullAt passed
    incrementalsSinceFull,
    pendingFull,
    dirs,         \* the temp directories there are: the records in each file
    snapshotDir,
    cache,        \* ldbCache: the tables whose parse the engine holds
    pc,           \* "idle", "copy" or "stamp"
    reuse,        \* the running refresh is a copy-reuse attempt
    force,        \* its forceFull
    dest,         \* the directory it copies into
    todo,         \* files listed and not yet copied
    lossy,        \* one of them could not be copied
    began,        \* how many writes there were at the listing
    grade,        \* "nothing", or a "partial" or "whole" store served
    asOf,         \* the newest record the store's snapshot showed
    faults        \* faults so far

leveldb == <<hist, live, obsolete, nextFile>>
cur == <<served, store, watermark, grade, asOf>>
policy == <<lastProbe, incrementalsSinceFull, pendingFull>>
files == <<dirs, snapshotDir, cache>>
run == <<pc, reuse, force, fullDue, dest, todo, lossy, began>>
vars == <<leveldb, cur, policy, files, run, faults>>

File == {"ldb", "log"} \X (1..MaxFile)
IsTable(f) == f[1] = "ldb"
Record == [key : Key, seq : 1..MaxWrites, put : BOOLEAN]
IsFileMap(d) == DOMAIN d \subseteq File /\ \A f \in DOMAIN d : d[f] \subseteq Record

Promise == INSTANCE ServedState WITH answer <- store
Newest(rs) == Promise!Newest(rs)
Puts(rs) == Promise!Puts(rs)
MaxSeq(rs) == CHOOSE n \in {0} \cup {r.seq : r \in rs} : \A r \in rs : r.seq <= n
Contents(d) == UNION {d[f] : f \in DOMAIN d}
Writes == Cardinality(hist)

Without(d, fs) == [f \in DOMAIN d \ fs |-> d[f]]
With(d, x, rs) == [f \in DOMAIN d \cup {x} |-> IF f = x THEN rs ELSE d[f]]

-----------------------------------------------------------------------------
(* Teams and its LevelDB.                                                  *)

sessionVars == <<cur, policy, files, run, faults>>
Logs == {f \in DOMAIN live : ~IsTable(f)}
CurrentLog == CHOOSE f \in Logs \ obsolete : TRUE
CurrentTables == {f \in DOMAIN live \ obsolete : IsTable(f)}

\* A record is appended to the log: a put, or the deletion of a live record.
Write(k, p) ==
    /\ Writes < MaxWrites
    /\ p \/ \E r \in Promise!StateAt(hist, Writes) : r.key = k
    /\ LET r == [key |-> k, seq |-> Writes + 1, put |-> p]
       IN /\ hist' = hist \cup {r}
          /\ live' = [live EXCEPT ![CurrentLog] = @ \cup {r}]
    /\ UNCHANGED <<obsolete, nextFile, sessionVars>>

\* The log becomes a table and a new log is begun.
Flush ==
    /\ live[CurrentLog] # {}
    /\ nextFile < MaxFile
    /\ live' = With(With(live, <<"ldb", nextFile>>, live[CurrentLog]), <<"log", nextFile + 1>>, {})
    /\ obsolete' = obsolete \cup {CurrentLog}
    /\ nextFile' = nextFile + 2
    /\ UNCHANGED <<hist, sessionVars>>

\* The tables are merged into one that holds the newest records.  Tombstones
\* are dropped, but for the newest record there is: Ingest has what happens if
\* that one goes too.
Compact ==
    LET merged == Newest(UNION {live[f] : f \in CurrentTables})
        kept == {r \in merged : r.put \/ r.seq = Writes}
    IN /\ Cardinality(CurrentTables) > 1
       /\ kept # {} => nextFile <= MaxFile
       /\ live' = IF kept = {} THEN live ELSE With(live, <<"ldb", nextFile>>, kept)
       /\ nextFile' = IF kept = {} THEN nextFile ELSE nextFile + 1
       /\ obsolete' = obsolete \cup CurrentTables
       /\ UNCHANGED <<hist, sessionVars>>

\* An obsolete file is removed.
Unlink(f) ==
    /\ f \in obsolete
    /\ OldestFirst => \A g \in obsolete : f[2] <= g[2]
    /\ live' = Without(live, {f})
    /\ obsolete' = obsolete \ {f}
    /\ UNCHANGED <<hist, nextFile, sessionVars>>

-----------------------------------------------------------------------------
(* Noticing, listing and copying.  Time is in two choices: whether a get   *)
(* that finds the source changed is past the debounce (if not, it is no    *)
(* step), and whether it finds a full rebuild overdue.                     *)

\* probeFingerprint: the logs and their sizes.
Probe == {<<f, Cardinality(live[f])>> : f \in Logs}

Fault == faults < MaxFaults /\ faults' = faults + 1
NoFault == UNCHANGED faults

\* Mutant: no limit on the number of incrementals.
CanReuseWithoutLimit(due) == Mode = "copy-reuse" /\ served /\ snapshotDir # NoDir /\ ~due

\* The head of tryCopyReuse.
CanReuse(due) ==
    /\ Mode = "copy-reuse"
    /\ served /\ snapshotDir # NoDir
    /\ incrementalsSinceFull < MaxIncrementals
    /\ ~due

\* snapshotReuse: the listing, and the removal of what is no longer live.
StartMirror ==
    /\ dest' = snapshotDir
    /\ dirs' = [dirs EXCEPT ![snapshotDir] = Without(@, DOMAIN @ \ DOMAIN live)]
    /\ pc' = "copy" /\ reuse' = TRUE /\ force' = FALSE
    /\ todo' = DOMAIN live /\ lossy' = FALSE /\ began' = Writes
    /\ UNCHANGED snapshotDir

\* snapshot: a new directory and the listing.
StartSnapshot(forceFull) ==
    /\ dest' = CHOOSE d \in Dir : d \notin DOMAIN dirs
    /\ dirs' = With(dirs, dest', [f \in {} |-> {}])
    /\ pc' = "copy" /\ reuse' = FALSE /\ force' = forceFull
    /\ todo' = DOMAIN live /\ lossy' = FALSE /\ began' = Writes
    /\ UNCHANGED snapshotDir

\* get: the source looks different from what was last read and applied.
Get(due) ==
    /\ pc = "idle" /\ served
    /\ Probe # lastProbe
    /\ fullDue' = due
    /\ IF CanReuse(due) THEN StartMirror ELSE StartSnapshot(FALSE)
    /\ NoFault
    /\ UNCHANGED <<leveldb, cur, policy, cache>>

\* get and warmUp with nothing to serve yet.
ColdGet ==
    /\ pc = "idle" /\ ~served
    /\ StartSnapshot(TRUE)
    /\ NoFault
    /\ UNCHANGED <<leveldb, cur, policy, cache, fullDue>>

\* Mutant: logs are taken for immutable, too.
PresentByName(f) == reuse /\ f \in DOMAIN dirs[dest]

\* A table of the same size is there already: it is not copied again.
Present(f) == reuse /\ IsTable(f) /\ f \in DOMAIN dirs[dest]

IsNext(f) == f \in todo /\ (InOrder => \A g \in todo : f[2] <= g[2])

Copy(f) ==
    /\ pc = "copy" /\ IsNext(f) /\ f \in DOMAIN live
    /\ todo' = todo \ {f}
    /\ dirs' = IF Present(f) THEN dirs ELSE [dirs EXCEPT ![dest] = With(@, f, live[f])]
    /\ NoFault
    /\ UNCHANGED <<leveldb, cur, policy, snapshotDir, cache, pc, reuse, force, fullDue, dest, lossy, began>>

\* copyFileWithRetry gives up: the file is gone, or stays unreadable.
CopyLost(f) ==
    /\ pc = "copy" /\ IsNext(f)
    /\ IF f \in DOMAIN live THEN ~Present(f) /\ Fault ELSE NoFault
    /\ todo' = todo \ {f} /\ lossy' = TRUE
    /\ dirs' = [dirs EXCEPT ![dest] = Without(@, {f})]
    /\ UNCHANGED <<leveldb, cur, policy, snapshotDir, cache, pc, reuse, force, fullDue, dest, began>>

\* The call returns: what it kept in local variables is gone.
Return ==
    /\ pc' = "idle" /\ dest' = NoDir /\ todo' = {} /\ began' = 0
    /\ reuse' = FALSE /\ force' = FALSE /\ fullDue' = FALSE /\ lossy' = FALSE

\* Any other error: a mirror is given up for a full rebuild, a snapshot for good.
CopyThrows ==
    /\ pc = "copy" /\ todo # {} /\ Fault
    /\ IF reuse
       THEN pendingFull' = TRUE /\ StartSnapshot(FALSE) /\ UNCHANGED fullDue
       ELSE dirs' = Without(dirs, {dest}) /\ Return /\ UNCHANGED <<pendingFull, snapshotDir>>
    /\ UNCHANGED <<leveldb, cur, lastProbe, incrementalsSinceFull, cache>>

-----------------------------------------------------------------------------
(* What the engine does with a directory that was copied.                  *)

Copied == pc = "copy" /\ todo = {}
Seen == Contents(dirs[dest])

\* full: the store is built anew from the records rs.
Build(rs, whole) ==
    /\ served' = TRUE
    /\ store' = Puts(Newest(rs))
    /\ watermark' = MaxSeq(rs) /\ asOf' = MaxSeq(rs)
    /\ grade' = IF whole THEN "whole" ELSE "partial"

\* applyIncremental: nothing at an equal watermark; else chains that are gone
\* are deleted and those past the watermark taken over.
Applied ==
    LET puts == Puts(Newest(Seen))
    IN IF MaxSeq(Seen) = watermark THEN store
       ELSE (store \cap puts) \cup {r \in puts : r.seq > watermark}

\* An apply that went through, and one that threw before or after its COMMIT.
ApplyInPlace ==
    /\ store' = Applied
    /\ watermark' = MaxSeq(Seen) /\ asOf' = MaxSeq(Seen)
    /\ incrementalsSinceFull' = incrementalsSinceFull + 1
    /\ UNCHANGED <<served, grade>>
ApplyFails ==
    /\ \/ UNCHANGED <<store, asOf>>
       \/ store' = Applied /\ asOf' = MaxSeq(Seen)
    /\ UNCHANGED <<served, watermark, grade>>

-----------------------------------------------------------------------------
(* The copy-reuse attempt, once the directory is mirrored.                 *)

Tables == {f \in DOMAIN dirs[dest] : IsTable(f)}
GoStamp == pc' = "stamp" /\ dest' = NoDir /\ UNCHANGED <<reuse, force, fullDue, todo, lossy, began>>

\* A lossy mirror: the store is kept and the next get tries again.
ReuseLossy ==
    /\ Copied /\ reuse /\ lossy /\ NoFault
    /\ Return
    /\ UNCHANGED <<leveldb, cur, files, lastProbe, incrementalsSinceFull, pendingFull>>

\* The engine could not read a table or log: skipped, and not cached.
ReuseSkipped ==
    /\ Copied /\ reuse /\ ~lossy /\ Fault
    /\ \E f \in DOMAIN dirs[dest] : cache' = Tables \ {f}
    /\ Return
    /\ UNCHANGED <<leveldb, cur, dirs, snapshotDir, lastProbe,
                   incrementalsSinceFull, pendingFull>>

\* A cached table is gone: the engine defers to a fresh snapshot.
ReuseDefers ==
    /\ Copied /\ reuse /\ ~lossy /\ NoFault
    /\ ~(cache \subseteq Tables)
    /\ cache' = Tables
    /\ StartSnapshot(FALSE)
    /\ UNCHANGED <<leveldb, cur, policy, fullDue>>

\* Mutant: a lossy mirror is applied.
ReuseAppliesLossy ==
    /\ Copied /\ reuse /\ NoFault
    /\ cache \subseteq Tables
    /\ cache' = Tables
    /\ ApplyInPlace
    /\ GoStamp
    /\ UNCHANGED <<leveldb, dirs, snapshotDir, lastProbe, pendingFull>>

ReuseApplies ==
    /\ Copied /\ reuse /\ ~lossy /\ NoFault
    /\ cache \subseteq Tables
    /\ cache' = Tables
    /\ ApplyInPlace
    /\ GoStamp
    /\ UNCHANGED <<leveldb, dirs, snapshotDir, lastProbe, pendingFull>>

\* needFull, or any throw: a full rebuild is demanded.
ReuseFails ==
    /\ Copied /\ reuse /\ ~lossy /\ Fault
    /\ cache \subseteq Tables
    /\ cache' = Tables
    /\ ApplyFails
    /\ pendingFull' = TRUE
    /\ StartSnapshot(FALSE)
    /\ UNCHANGED <<leveldb, lastProbe, incrementalsSinceFull, fullDue>>

-----------------------------------------------------------------------------
(* The reparse path, once the snapshot is copied.                          *)

WantFull ==
    \/ force \/ pendingFull \/ ~served
    \/ incrementalsSinceFull >= MaxIncrementals
    \/ fullDue

\* Mutants: the old snapshot is forgotten, or the new one removed in its place.
FinallyLeaking(caughtUp) ==
    /\ snapshotDir' = dest /\ UNCHANGED dirs
    /\ pendingFull' = FALSE
    /\ IF caughtUp THEN GoStamp ELSE Return
    /\ UNCHANGED <<leveldb, lastProbe>>
FinallyRemovingNew(caughtUp) ==
    /\ snapshotDir' = dest /\ dirs' = Without(dirs, {dest})
    /\ pendingFull' = FALSE
    /\ IF caughtUp THEN GoStamp ELSE Return
    /\ UNCHANGED <<leveldb, lastProbe>>

\* finally: the new snapshot replaces the old one, whatever happened.
Finally(caughtUp) ==
    /\ snapshotDir' = dest
    /\ dirs' = Without(dirs, DOMAIN dirs \ {dest})
    /\ pendingFull' = FALSE
    /\ IF caughtUp THEN GoStamp ELSE Return
    /\ UNCHANGED <<leveldb, lastProbe>>

\* doFull, of a snapshot that was copied and read whole.
FullAdopted ==
    /\ Copied /\ ~reuse /\ WantFull /\ ~lossy /\ NoFault
    /\ Build(Seen, TRUE)
    /\ incrementalsSinceFull' = 0 /\ cache' = {}
    /\ Finally(TRUE)

\* doFull, cold: a lossy store is better than none.
FullPartial ==
    /\ Copied /\ ~reuse /\ ~served
    /\ \/ lossy /\ NoFault /\ Build(Seen, FALSE)
       \/ Fault /\ \E f \in DOMAIN dirs[dest] : Build(Contents(Without(dirs[dest], {f})), FALSE)
    /\ incrementalsSinceFull' = 0 /\ cache' = {}
    /\ Finally(FALSE)

\* Mutant: a rebuild that was not adopted counts as caught up.
FullKeptStamped ==
    /\ Copied /\ ~reuse /\ WantFull
    /\ IF served /\ lossy THEN NoFault ELSE Fault
    /\ cache' = {}
    /\ Finally(TRUE)
    /\ UNCHANGED <<cur, incrementalsSinceFull>>

\* doFull that throws, or is lossy with a good store in place: it is kept.
FullKept ==
    /\ Copied /\ ~reuse /\ WantFull
    /\ IF served /\ lossy THEN NoFault ELSE Fault
    /\ cache' = {}
    /\ Finally(FALSE)
    /\ UNCHANGED <<cur, incrementalsSinceFull>>

\* No full rebuild wanted, and a lossy copy or read: nothing is applied.
FreshSkipped ==
    /\ Copied /\ ~reuse /\ ~WantFull
    /\ IF lossy THEN NoFault ELSE Fault
    /\ Finally(FALSE)
    /\ UNCHANGED <<cur, incrementalsSinceFull, cache>>

FreshApplied ==
    /\ Copied /\ ~reuse /\ ~WantFull /\ ~lossy /\ NoFault
    /\ ApplyInPlace
    /\ Finally(TRUE)
    /\ UNCHANGED cache

\* needFull or a throw: a full rebuild of the same snapshot, which may fail too.
FreshFallsBack ==
    /\ Copied /\ ~reuse /\ ~WantFull /\ ~lossy /\ Fault
    /\ cache' = {}
    /\ \/ /\ Build(Seen, TRUE)
          /\ incrementalsSinceFull' = 0
          /\ Finally(TRUE)
       \/ /\ ApplyFails
          /\ UNCHANGED incrementalsSinceFull
          /\ Finally(FALSE)

\* lastProbe is what the directory looks like after the refresh.
Stamp ==
    /\ pc = "stamp" /\ NoFault
    /\ lastProbe' = Probe
    /\ Return
    /\ UNCHANGED <<leveldb, cur, files, incrementalsSinceFull, pendingFull>>

-----------------------------------------------------------------------------
\* Teams has been at work before: one record is in a table already.
Init ==
    /\ \E k \in Key : hist = {[key |-> k, seq |-> 1, put |-> TRUE]}
    /\ live = [f \in {<<"ldb", 1>>, <<"log", 2>>} |-> IF IsTable(f) THEN hist ELSE {}]
    /\ obsolete = {} /\ nextFile = 3
    /\ served = FALSE /\ store = {} /\ watermark = 0 /\ grade = "nothing" /\ asOf = 0
    /\ lastProbe = {} /\ fullDue = FALSE
    /\ incrementalsSinceFull = 0 /\ pendingFull = FALSE
    /\ dirs = [d \in {} |-> {}] /\ snapshotDir = NoDir /\ cache = {}
    /\ pc = "idle" /\ reuse = FALSE /\ force = FALSE /\ dest = NoDir
    /\ todo = {} /\ lossy = FALSE /\ began = 0
    /\ faults = 0

TeamsStep ==
    \/ \E k \in Key, p \in BOOLEAN : Write(k, p)
    \/ Flush \/ Compact
    \/ \E f \in File : Unlink(f)

ReuseStep == ReuseLossy \/ ReuseSkipped \/ ReuseDefers \/ ReuseApplies \/ ReuseFails
FreshStep ==
    FullAdopted \/ FullPartial \/ FullKept \/ FreshSkipped \/ FreshApplied \/ FreshFallsBack

SessionStep ==
    \/ ColdGet \/ \E due \in BOOLEAN : Get(due)
    \/ \E f \in File : Copy(f) \/ CopyLost(f)
    \/ CopyThrows
    \/ ReuseStep \/ FreshStep \/ Stamp

Next == TeamsStep \/ SessionStep

\* Clients keep asking past the debounce, and a call once begun goes on.
Fairness == WF_vars(SessionStep)

Spec == Init /\ [][Next]_vars /\ Fairness

-----------------------------------------------------------------------------
(* Properties.                                                             *)

TypeOK ==
    /\ hist \in SUBSET Record /\ IsFileMap(live)
    /\ obsolete \in SUBSET DOMAIN live /\ nextFile \in 2..(MaxFile + 1)
    /\ served \in BOOLEAN /\ store \in SUBSET Record /\ watermark \in 0..MaxWrites
    /\ lastProbe \in SUBSET (File \X (0..MaxWrites)) /\ fullDue \in BOOLEAN
    /\ incrementalsSinceFull \in Nat /\ pendingFull \in BOOLEAN
    /\ DOMAIN dirs \in SUBSET Dir /\ \A d \in DOMAIN dirs : IsFileMap(dirs[d])
    /\ snapshotDir \in DOMAIN dirs \cup {NoDir} /\ dest \in DOMAIN dirs \cup {NoDir}
    /\ cache \in SUBSET File /\ pc \in {"idle", "copy", "stamp"}
    /\ reuse \in BOOLEAN /\ force \in BOOLEAN /\ todo \in SUBSET File /\ lossy \in BOOLEAN
    /\ began \in 0..MaxWrites /\ grade \in {"nothing", "partial", "whole"}
    /\ asOf \in 0..MaxWrites /\ faults \in 0..MaxFaults

\* What is served is one state the source really went through, and never goes
\* back: copying file by file while LevelDB writes, flushes, compacts and
\* removes files mixes no two states (see ServedState).
KeepsPromise == Promise!Spec

\* A refresh that went through shows everything written before its listing.
AsFreshAsTheListing == pc = "stamp" => asOf >= began

\* Between refreshes there is one temp directory at most, the snapshot in use,
\* however the refreshes before ended (snapshot and refresh, finally).
NoTempLeak == pc = "idle" => DOMAIN dirs = {snapshotDir} \ {NoDir}

\* The backstop: never more incrementals in a row than it allows.
BackstopHolds == incrementalsSinceFull <= MaxIncrementals

\* A write that get can notice is served in the end: a refresh that failed is
\* not mistaken for one that succeeded.
NoticedIsServed ==
    \A n \in 1..MaxWrites :
        (served /\ pc = "idle" /\ Probe # lastProbe /\ Writes >= n) ~> (asOf >= n)

\* The source is marked up to date only when it was fully read and applied
\* (session.ts, refresh).
SeenIsServed == (pc = "idle" /\ Probe = lastProbe) => asOf = Writes

\* Deletions are never resurrected (session.ts, refresh): a record served was
\* not overwritten or deleted by one the store claims to know.
DeletedStaysDeleted ==
    grade = "whole" => \A r \in store, h \in hist :
        (h.key = r.key /\ h.seq > r.seq) => h.seq > asOf
=============================================================================
