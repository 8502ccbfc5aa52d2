--------------------------- MODULE SessionProofs ---------------------------
(***************************************************************************)
(* Type correctness and the safety properties of Session, for every set of *)
(* keys and directories, any number of writes, files and faults, and every *)
(* order in which LevelDB removes and the session lists the files.         *)
(***************************************************************************)
EXTENDS Session, FiniteSetTheorems, NumberFacts, TLAPS

-----------------------------------------------------------------------------
(* The inductive invariant, part by part.                                  *)

\* The records are numbered in the order they were written.
HistNumbered ==
    /\ IsFiniteSet(hist) /\ Writes \in 1..MaxWrites
    /\ \A r \in hist : r.seq <= Writes

\* A live file holds what was written, under a number that was handed out, and
\* there is a log to write to.
FilesOfHist ==
    /\ \A f \in DOMAIN live : live[f] \subseteq hist
    /\ \A f \in DOMAIN live : f[2] < nextFile
    /\ Logs \ obsolete # {}

\* The newest record of all is in a file that stays.
NewestIsLive == \E f \in DOMAIN live \ obsolete : \E r \in live[f] : r.seq = Writes

\* A copy was made of a live file.  It lags behind it if it is a log, and has
\* no namesake once the file is gone.
CopiesLag ==
    /\ \A f \in todo : f[2] < nextFile
    /\ \A d \in DOMAIN dirs : \A f \in DOMAIN dirs[d] :
         /\ dirs[d][f] \subseteq hist
         /\ f[2] < nextFile
         /\ f \in DOMAIN live => dirs[d][f] \subseteq live[f]
         /\ (f \in DOMAIN live /\ IsTable(f)) => dirs[d][f] = live[f]

\* The directories there are, by what the session is doing.
DirsInUse ==
    LET kept == {snapshotDir} \ {NoDir}
    IN  \/ pc # "copy" /\ DOMAIN dirs = kept /\ dest = NoDir
        \/ pc = "copy" /\ reuse /\ DOMAIN dirs = kept /\ dest = snapshotDir /\ dest # NoDir
        \/ /\ pc = "copy" /\ ~reuse
           /\ DOMAIN dirs = kept \cup {dest}
           /\ dest \in Dir /\ dest # snapshotDir

\* A mirror is begun below the backstop only.
ReuseIsAllowed == (pc = "copy" /\ reuse) => served /\ incrementalsSinceFull < MaxIncrementals

\* The newest record at the listing is copied already, or its file is listed.
NewestIsCopied ==
    (pc = "copy" /\ ~lossy) => \E r \in hist :
        /\ r.seq = began
        /\ \/ \E f \in todo : f \in DOMAIN live => r \in live[f]
           \/ \E f \in DOMAIN dirs[dest] : r \in dirs[dest][f]

IInv ==
    /\ TypeOK
    /\ HistNumbered
    /\ FilesOfHist
    /\ NewestIsLive
    /\ CopiesLag
    /\ DirsInUse
    /\ ReuseIsAllowed
    /\ BackstopHolds
    /\ NewestIsCopied
    /\ AsFreshAsTheListing

-----------------------------------------------------------------------------
(* Facts about the operators.                                              *)

\* The greatest sequence number there is among records, 0 if there are none.
LEMMA MaxSeqIsMax ==
    ASSUME NEW rs \in SUBSET Record
    PROVE  /\ MaxSeq(rs) \in 0..MaxWrites
           /\ \A r \in rs : r.seq <= MaxSeq(rs)
           /\ rs # {} => \E r \in rs : r.seq = MaxSeq(rs)
<1> DEFINE S == {0} \cup {r.seq : r \in rs}
<1>1. S \in SUBSET (0..MaxWrites) /\ S # {} /\ MaxWrites \in Nat
  BY Bounds DEF Record
<1>2. PICK n \in S : \A y \in S : y <= n
  <2> HIDE DEF S
  <2> QED BY <1>1, BoundedHasMax
<1>3. \A r \in rs : r.seq <= n
  BY <1>2
<1>4. MaxSeq(rs) \in S /\ \A r \in rs : r.seq <= MaxSeq(rs)
  BY <1>2, <1>3 DEF MaxSeq
<1>5. rs # {} => \E r \in rs : r.seq = MaxSeq(rs)
  <2> SUFFICES ASSUME rs # {}, MaxSeq(rs) = 0
               PROVE  \E r \in rs : r.seq = 0
    BY <1>4
  <2>1. PICK r \in rs : TRUE
    OBVIOUS
  <2>2. r.seq <= 0 /\ r.seq \in 1..MaxWrites
    BY <1>4, <2>1 DEF Record
  <2> QED
    BY <2>2, <1>1
<1> QED
  BY <1>1, <1>4, <1>5

\* The newest records and the puts among them are some of the records.
LEMMA NewestIsSome == \A rs : Newest(rs) \subseteq rs /\ Puts(Newest(rs)) \subseteq rs
  BY DEF Newest, Puts, Promise!Newest, Promise!Puts

\* The log that Teams writes to is there, and not obsolete.
LEMMA CurrentLogIsLive ==
    ASSUME FilesOfHist
    PROVE  CurrentLog \in DOMAIN live /\ ~IsTable(CurrentLog) /\ CurrentLog \notin obsolete
  BY DEF FilesOfHist, CurrentLog, Logs

\* mkdtemp finds a name that is not taken.
LEMMA FreshDir ==
    ASSUME NEW used, NEW d, used \subseteq {d}
    PROVE  (CHOOSE e \in Dir : e \notin used) \in Dir \ used
<1>1. \E e \in Dir : e \notin used
  BY Dirs
<1> QED
  BY <1>1

\* What a copied directory holds was written.
LEMMA SeenType ==
    ASSUME TypeOK, CopiesLag, dest \in DOMAIN dirs
    PROVE  Seen \subseteq hist /\ Seen \subseteq Record /\ Applied \subseteq Record
<1>1. Seen \subseteq hist /\ hist \subseteq Record
  BY DEF TypeOK, CopiesLag, Seen, Contents
<1>2. Puts(Newest(Seen)) \subseteq Seen
  BY NewestIsSome
<1> QED
  BY <1>1, <1>2 DEF Applied, TypeOK

\* A file holds at most as many records as were ever written.
LEMMA FileCounts ==
    ASSUME TypeOK, HistNumbered, FilesOfHist, NEW f \in DOMAIN live
    PROVE  Cardinality(live[f]) \in 0..MaxWrites
<1>1. live[f] \in SUBSET hist /\ IsFiniteSet(hist) /\ Writes \in 1..MaxWrites
  BY DEF HistNumbered, FilesOfHist
<1>2. Cardinality(live[f]) <= Writes /\ Cardinality(live[f]) \in Nat
  BY <1>1, FS_Subset, FS_CardinalityType DEF Writes
<1> QED
  BY <1>1, <1>2, Bounds

\* The record a write appends is new, and the newest.
LEMMA WriteIsNewest ==
    ASSUME TypeOK, HistNumbered, NEW k \in Key, NEW p \in BOOLEAN, Write(k, p),
           NEW r, r = [key |-> k, seq |-> Writes + 1, put |-> p]
    PROVE  /\ r \in Record /\ r \notin hist
           /\ hist' = hist \cup {r} /\ live' = [live EXCEPT ![CurrentLog] = @ \cup {r}]
           /\ Writes' = Writes + 1
           /\ HistNumbered'
<1>1. Writes \in 1..MaxWrites /\ Writes < MaxWrites /\ MaxWrites \in Nat
  BY Bounds DEF HistNumbered, Write
<1>2. r \in Record
  BY <1>1 DEF Record
<1>3. r \notin hist
  BY <1>1 DEF HistNumbered
<1>4. /\ hist' = hist \cup {r}
      /\ live' = [live EXCEPT ![CurrentLog] = @ \cup {r}]
  BY DEF Write
<1>5. IsFiniteSet(hist') /\ Writes' = Writes + 1
  BY <1>3, <1>4, FS_AddElement DEF HistNumbered, Writes
<1>6. \A q \in hist' : q.seq <= Writes'
  BY <1>1, <1>4, <1>5 DEF HistNumbered, TypeOK, Record
<1> QED
  BY <1>1, <1>2, <1>3, <1>4, <1>5, <1>6 DEF HistNumbered
-----------------------------------------------------------------------------
(* The steps of Teams and its LevelDB.                                     *)

\* What happens to the files there were: they grow, if logs, or go.
FilesGrowOrGo ==
    /\ hist \subseteq hist' /\ nextFile <= nextFile'
    /\ \A f \in DOMAIN live' : f[2] < nextFile =>
          /\ f \in DOMAIN live
          /\ live[f] \subseteq live'[f]
          /\ IsTable(f) => live'[f] = live[f]

\* What a step of Teams establishes about the files.
LevelDBInv ==
    /\ TypeOK' /\ HistNumbered' /\ FilesOfHist' /\ NewestIsLive'
    /\ FilesGrowOrGo

\* A write keeps LevelDB's part of the invariant, and the others follow.
LEMMA WriteInv ==
    ASSUME IInv, NEW k \in Key, NEW p \in BOOLEAN, Write(k, p)
    PROVE  LevelDBInv
<1> DEFINE r == [key |-> k, seq |-> Writes + 1, put |-> p]
<1>0. TypeOK /\ HistNumbered /\ FilesOfHist
  BY DEF IInv
<1>1. /\ r \in Record
      /\ hist' = hist \cup {r} /\ live' = [live EXCEPT ![CurrentLog] = @ \cup {r}]
      /\ Writes' = Writes + 1 /\ r.seq = Writes + 1
      /\ HistNumbered'
  <2> HIDE DEF r
  <2>1. r = [key |-> k, seq |-> Writes + 1, put |-> p]
    BY DEF r
  <2> QED BY <1>0, <2>1, WriteIsNewest
<1> HIDE DEF r
<1>2. CurrentLog \in DOMAIN live /\ ~IsTable(CurrentLog) /\ CurrentLog \notin obsolete
  BY <1>0, CurrentLogIsLive
<1>3. /\ DOMAIN live' = DOMAIN live
      /\ \A f \in DOMAIN live : live'[f] = IF f = CurrentLog THEN live[f] \cup {r} ELSE live[f]
  BY <1>1, <1>2
<1>4. UNCHANGED <<obsolete, nextFile, sessionVars>>
  BY DEF Write
<1>5. TypeOK'
  <2>1. hist' \in SUBSET Record /\ IsFileMap(live)'
    BY <1>0, <1>1, <1>3 DEF TypeOK, IsFileMap
  <2> QED
    BY <1>0, <1>3, <1>4, <2>1 DEF TypeOK, sessionVars, cur, policy, files, run
<1>6. FilesOfHist'
  BY <1>0, <1>1, <1>3, <1>4 DEF FilesOfHist, Logs
<1>7. NewestIsLive'
  BY <1>1, <1>2, <1>3, <1>4 DEF NewestIsLive
<1>8. FilesGrowOrGo
  BY <1>0, <1>1, <1>2, <1>3, <1>4 DEF FilesGrowOrGo, TypeOK
<1> QED
  BY <1>1, <1>5, <1>6, <1>7, <1>8 DEF LevelDBInv

\* So does turning a log into a table,
LEMMA FlushInv == ASSUME IInv, Flush PROVE LevelDBInv
<1> DEFINE table == <<"ldb", nextFile>>
           log == <<"log", nextFile + 1>>
<1>0. TypeOK /\ HistNumbered /\ FilesOfHist /\ NewestIsLive
  BY DEF IInv
<1>1. /\ CurrentLog \in DOMAIN live /\ ~IsTable(CurrentLog) /\ CurrentLog \notin obsolete
      /\ nextFile \in 2..(MaxFile + 1) /\ nextFile < MaxFile /\ MaxFile \in Nat
  BY <1>0, Bounds, CurrentLogIsLive DEF Flush, TypeOK
<1>2. table \in File /\ log \in File /\ table \notin DOMAIN live /\ log \notin DOMAIN live
      /\ IsTable(table) /\ ~IsTable(log) /\ table # log /\ table[2] = nextFile /\ log[2] = nextFile + 1
  BY <1>0, <1>1 DEF File, FilesOfHist, IsTable
<1>3. /\ live' = With(With(live, table, live[CurrentLog]), log, {})
      /\ obsolete' = obsolete \cup {CurrentLog} /\ nextFile' = nextFile + 2
      /\ UNCHANGED <<hist, sessionVars>>
  BY DEF Flush
<1> HIDE DEF table, log
<1>4. /\ DOMAIN live' = DOMAIN live \cup {table, log}
      /\ live'[table] = live[CurrentLog] /\ live'[log] = {}
      /\ \A f \in DOMAIN live : live'[f] = live[f]
  BY <1>2, <1>3 DEF With
<1>5. TypeOK'
  <2>1. IsFileMap(live)'
    BY <1>0, <1>1, <1>2, <1>4 DEF TypeOK, IsFileMap
  <2>2. obsolete' \in SUBSET DOMAIN live' /\ nextFile' \in 2..(MaxFile + 1)
    BY <1>0, <1>1, <1>3, <1>4 DEF TypeOK
  <2> QED
    BY <1>0, <1>3, <2>1, <2>2 DEF TypeOK, sessionVars, cur, policy, files, run
<1>6. HistNumbered'
  BY <1>0, <1>3 DEF HistNumbered, Writes
<1>7. FilesOfHist'
  <2>1. \A f \in DOMAIN live' : live'[f] \subseteq hist'
    BY <1>0, <1>1, <1>3, <1>4 DEF FilesOfHist
  <2>2. \A f \in DOMAIN live' : f[2] < nextFile'
    <3>1. \A f \in DOMAIN live : f[2] \in Nat /\ f[2] < nextFile
      BY <1>0 DEF FilesOfHist, TypeOK, IsFileMap, File
    <3> QED
      BY <1>1, <1>2, <1>3, <1>4, <3>1
  <2>3. log \in (Logs \ obsolete)'
    BY <1>0, <1>1, <1>2, <1>3, <1>4 DEF Logs, TypeOK, IsTable
  <2> QED
    BY <2>1, <2>2, <2>3 DEF FilesOfHist
<1>8. NewestIsLive'
  <2>1. PICK f \in DOMAIN live \ obsolete : \E r \in live[f] : r.seq = Writes
    BY <1>0 DEF NewestIsLive
  <2>2. CASE f = CurrentLog
    BY <1>0, <1>1, <1>2, <1>3, <1>4, <2>1, <2>2 DEF NewestIsLive, Writes, TypeOK
  <2>3. CASE f # CurrentLog
    BY <1>3, <1>4, <2>1, <2>3 DEF NewestIsLive, Writes
  <2> QED
    BY <2>2, <2>3
<1>9. FilesGrowOrGo
  BY <1>1, <1>2, <1>3, <1>4 DEF FilesGrowOrGo
<1> QED
  BY <1>5, <1>6, <1>7, <1>8, <1>9 DEF LevelDBInv

\* a compaction,
LEMMA CompactInv == ASSUME IInv, Compact PROVE LevelDBInv
<1> DEFINE table == <<"ldb", nextFile>>
           all == UNION {live[f] : f \in CurrentTables}
           merged == Newest(all)
           kept == {r \in merged : r.put \/ r.seq = Writes}
<1>0. TypeOK /\ HistNumbered /\ FilesOfHist /\ NewestIsLive
  BY DEF IInv
<1>1. /\ kept # {} => nextFile <= MaxFile
      /\ live' = IF kept = {} THEN live ELSE With(live, table, kept)
      /\ nextFile' = IF kept = {} THEN nextFile ELSE nextFile + 1
      /\ obsolete' = obsolete \cup CurrentTables
      /\ UNCHANGED <<hist, sessionVars>>
  BY DEF Compact
<1>2. kept \subseteq hist /\ CurrentTables \subseteq DOMAIN live
  BY <1>0, NewestIsSome DEF FilesOfHist, CurrentTables
<1>3. nextFile \in 2..(MaxFile + 1) /\ MaxFile \in Nat
  BY <1>0, Bounds DEF TypeOK
<1>4. /\ table \notin DOMAIN live /\ IsTable(table) /\ table[2] = nextFile
      /\ kept # {} => table \in File
  BY <1>0, <1>1, <1>3 DEF File, FilesOfHist, IsTable
<1>5. \A r \in all : r.seq = Writes => r \in kept
  <2>1. \A s \in all : s.seq <= Writes
    BY <1>0 DEF HistNumbered, FilesOfHist, CurrentTables
  <2> QED
    BY <2>1 DEF Newest, Promise!Newest
<1> HIDE DEF table, kept
<1>6. /\ DOMAIN live' = DOMAIN live \cup (IF kept = {} THEN {} ELSE {table})
      /\ kept # {} => live'[table] = kept
      /\ \A f \in DOMAIN live : live'[f] = live[f]
  BY <1>1, <1>4 DEF With
<1>7. TypeOK'
  <2>1. IsFileMap(live)'
    BY <1>0, <1>2, <1>4, <1>6 DEF TypeOK, IsFileMap
  <2>2. obsolete' \in SUBSET DOMAIN live' /\ nextFile' \in 2..(MaxFile + 1)
    BY <1>0, <1>1, <1>2, <1>3, <1>6 DEF TypeOK
  <2> QED
    BY <1>0, <1>1, <2>1, <2>2 DEF TypeOK, sessionVars, cur, policy, files, run
<1>8. HistNumbered'
  BY <1>0, <1>1 DEF HistNumbered, Writes
<1>9. FilesOfHist'
  <2>1. \A f \in DOMAIN live' : live'[f] \subseteq hist'
    BY <1>0, <1>1, <1>2, <1>6 DEF FilesOfHist
  <2>2. \A f \in DOMAIN live' : f[2] < nextFile'
    <3>1. \A f \in DOMAIN live : f[2] \in Nat /\ f[2] < nextFile
      BY <1>0 DEF FilesOfHist, TypeOK, IsFileMap, File
    <3> QED
      BY <1>1, <1>3, <1>4, <1>6, <3>1
  <2>3. (Logs \ obsolete) \subseteq (Logs \ obsolete)'
    BY <1>1, <1>6 DEF Logs, CurrentTables
  <2> QED
    BY <1>0, <2>1, <2>2, <2>3 DEF FilesOfHist
<1>10. NewestIsLive'
  <2>1. PICK f \in DOMAIN live \ obsolete : \E r \in live[f] : r.seq = Writes
    BY <1>0 DEF NewestIsLive
  <2>2. CASE IsTable(f)
    <3>1. \E r \in kept : r.seq = Writes
      BY <1>5, <2>1, <2>2 DEF CurrentTables
    <3>2. table \in DOMAIN live' \ obsolete'
      BY <1>0, <1>1, <1>2, <1>4, <1>6, <3>1 DEF TypeOK
    <3> QED
      BY <1>1, <1>6, <3>1, <3>2 DEF NewestIsLive, Writes
  <2>3. CASE ~IsTable(f)
    BY <1>1, <1>6, <2>1, <2>3 DEF NewestIsLive, Writes, CurrentTables
  <2> QED
    BY <2>2, <2>3
<1>11. FilesGrowOrGo
  BY <1>1, <1>3, <1>4, <1>6 DEF FilesGrowOrGo
<1> QED
  BY <1>7, <1>8, <1>9, <1>10, <1>11 DEF LevelDBInv

\* and the removal of a file.
LEMMA UnlinkInv == ASSUME IInv, NEW f \in File, Unlink(f) PROVE LevelDBInv
<1>0. TypeOK /\ HistNumbered /\ FilesOfHist /\ NewestIsLive
  BY DEF IInv
<1>1. /\ f \in obsolete /\ obsolete' = obsolete \ {f}
      /\ DOMAIN live' = DOMAIN live \ {f}
      /\ \A g \in DOMAIN live' : live'[g] = live[g]
      /\ UNCHANGED <<hist, nextFile, sessionVars>>
  BY DEF Unlink, Without
<1>2. TypeOK'
  <2>1. IsFileMap(live)'
    BY <1>0, <1>1 DEF TypeOK, IsFileMap
  <2>2. obsolete' \in SUBSET DOMAIN live'
    BY <1>0, <1>1 DEF TypeOK
  <2> QED
    BY <1>0, <1>1, <2>1, <2>2 DEF TypeOK, sessionVars, cur, policy, files, run
<1>3. HistNumbered'
  BY <1>0, <1>1 DEF HistNumbered, Writes
<1>4. FilesOfHist'
  BY <1>0, <1>1 DEF FilesOfHist, Logs
<1>5. NewestIsLive'
  BY <1>0, <1>1 DEF NewestIsLive, Writes
<1>6. FilesGrowOrGo
  BY <1>0, <1>1 DEF FilesGrowOrGo, TypeOK
<1> QED
  BY <1>2, <1>3, <1>4, <1>5, <1>6 DEF LevelDBInv

\* No step of Teams takes from the session what it has still to copy: a file
\* that goes has no successor of its name.
LEMMA TeamsStepInv == ASSUME IInv, TeamsStep PROVE IInv'
<1>1. UNCHANGED sessionVars
  BY DEF TeamsStep, Write, Flush, Compact, Unlink
<1>2. LevelDBInv
  BY WriteInv, FlushInv, CompactInv, UnlinkInv DEF TeamsStep
<1>3. TypeOK /\ CopiesLag /\ NewestIsCopied
  BY DEF IInv
<1>4. CopiesLag'
  <2>1. /\ nextFile \in Nat /\ nextFile' \in Nat /\ nextFile <= nextFile'
        /\ \A f \in todo : f[2] \in Nat
        /\ \A d \in DOMAIN dirs : \A f \in DOMAIN dirs[d] : f[2] \in Nat
    BY <1>2, <1>3, Bounds DEF LevelDBInv, FilesGrowOrGo, TypeOK, IsFileMap, File
  <2>2. \A f \in todo : f[2] < nextFile'
    BY <1>3, <2>1 DEF CopiesLag
  <2>3. ASSUME NEW d \in DOMAIN dirs, NEW f \in DOMAIN dirs[d]
        PROVE  /\ dirs[d][f] \subseteq hist'
               /\ f[2] < nextFile'
               /\ f \in DOMAIN live' => dirs[d][f] \subseteq live'[f]
               /\ (f \in DOMAIN live' /\ IsTable(f)) => dirs[d][f] = live'[f]
    <3>1. /\ dirs[d][f] \subseteq hist /\ f[2] < nextFile
          /\ f \in DOMAIN live => dirs[d][f] \subseteq live[f]
          /\ (f \in DOMAIN live /\ IsTable(f)) => dirs[d][f] = live[f]
      BY <1>3 DEF CopiesLag
    <3> QED
      BY <1>2, <2>1, <3>1 DEF LevelDBInv, FilesGrowOrGo
  <2> QED
    BY <1>1, <2>2, <2>3 DEF CopiesLag, sessionVars, files, run, IsTable
<1>5. NewestIsCopied'
  <2>1. /\ \A f \in todo : f[2] < nextFile
        /\ hist \subseteq hist'
        /\ \A f \in DOMAIN live' : f[2] < nextFile => f \in DOMAIN live /\ live[f] \subseteq live'[f]
    BY <1>2, <1>3 DEF CopiesLag, LevelDBInv, FilesGrowOrGo
  <2> QED
    BY <1>1, <1>3, <2>1 DEF NewestIsCopied, sessionVars, files, run
<1>6. /\ DirsInUse' /\ ReuseIsAllowed' /\ BackstopHolds' /\ AsFreshAsTheListing'
  BY <1>1 DEF IInv, DirsInUse, ReuseIsAllowed, BackstopHolds, AsFreshAsTheListing,
     sessionVars, cur, policy, files, run
<1> QED
  BY <1>2, <1>4, <1>5, <1>6 DEF LevelDBInv, IInv
-----------------------------------------------------------------------------
(* The steps of the session.                                               *)

\* The type invariant in two parts: of the directories and the running call,
\* and of the rest.
RunTyped ==
    /\ DOMAIN dirs \in SUBSET Dir /\ \A d \in DOMAIN dirs : IsFileMap(dirs[d])
    /\ snapshotDir \in DOMAIN dirs \cup {NoDir} /\ dest \in DOMAIN dirs \cup {NoDir}
    /\ pc \in {"idle", "copy", "stamp"} /\ reuse \in BOOLEAN /\ force \in BOOLEAN
    /\ todo \in SUBSET File /\ lossy \in BOOLEAN /\ began \in 0..MaxWrites

StoreTyped ==
    /\ served \in BOOLEAN /\ store \in SUBSET Record /\ watermark \in 0..MaxWrites
    /\ lastProbe \in SUBSET (File \X (0..MaxWrites)) /\ fullDue \in BOOLEAN
    /\ incrementalsSinceFull \in Nat /\ pendingFull \in BOOLEAN
    /\ cache \in SUBSET File /\ grade \in {"nothing", "partial", "whole"}
    /\ asOf \in 0..MaxWrites /\ faults \in 0..MaxFaults

\* What a step of the session establishes about the directories and the call.
RunInv == RunTyped /\ CopiesLag /\ DirsInUse /\ NewestIsCopied

\* A step of the session keeps the invariant if it keeps the session's parts.
LEMMA SessionSplit ==
    ASSUME IInv, UNCHANGED leveldb, RunInv', StoreTyped',
           ReuseIsAllowed', BackstopHolds', AsFreshAsTheListing'
    PROVE  IInv'
<1>1. TypeOK'
  BY DEF IInv, TypeOK, RunInv, RunTyped, StoreTyped, leveldb, IsFileMap
<1>2. HistNumbered' /\ FilesOfHist' /\ NewestIsLive'
  BY DEF IInv, HistNumbered, FilesOfHist, NewestIsLive, leveldb, Writes, Logs
<1> QED
  BY <1>1, <1>2 DEF IInv, RunInv

\* The type invariant of the session in two parts: the call, and the store.
LEMMA TypedParts == IInv => RunTyped /\ StoreTyped
  BY DEF IInv, TypeOK, RunTyped, StoreTyped

\* A step keeps the number of faults within its bound.
LEMMA FaultCounted == TypeOK /\ (Fault \/ NoFault) => faults' \in 0..MaxFaults
  BY Bounds DEF TypeOK, Fault, NoFault

\* A new snapshot: a directory of its own, and everything live still to copy.
LEMMA SnapshotStarts ==
    ASSUME IInv, pc = "copy" => reuse, UNCHANGED leveldb,
           NEW forceFull \in BOOLEAN, StartSnapshot(forceFull)
    PROVE  RunInv' /\ pc' = "copy" /\ ~reuse'
<1>0. TypeOK /\ HistNumbered /\ FilesOfHist /\ NewestIsLive /\ CopiesLag /\ DirsInUse
  BY DEF IInv
<1>1. /\ dest' = CHOOSE d \in Dir : d \notin DOMAIN dirs
      /\ dirs' = With(dirs, dest', [f \in {} |-> {}])
      /\ pc' = "copy" /\ reuse' = FALSE /\ force' = forceFull
      /\ todo' = DOMAIN live /\ lossy' = FALSE /\ began' = Writes
      /\ snapshotDir' = snapshotDir
      /\ live' = live /\ hist' = hist /\ nextFile' = nextFile
  BY DEF StartSnapshot, leveldb
<1>2. DOMAIN dirs = {snapshotDir} \ {NoDir}
  BY <1>0 DEF DirsInUse, TypeOK
<1>3. dest' \in Dir \ DOMAIN dirs
  BY <1>1, <1>2, FreshDir
<1>4. /\ DOMAIN dirs' = DOMAIN dirs \cup {dest'}
      /\ DOMAIN dirs'[dest'] = {}
      /\ \A d \in DOMAIN dirs : dirs'[d] = dirs[d]
  BY <1>1, <1>3 DEF With
<1>5. RunTyped'
  <2>1. Writes \in 0..MaxWrites
    BY <1>0, Bounds DEF HistNumbered
  <2>2. \A d \in DOMAIN dirs' : IsFileMap(dirs'[d])
    BY <1>0, <1>3, <1>4 DEF TypeOK, IsFileMap
  <2> QED
    BY <1>0, <1>1, <1>3, <1>4, <2>1, <2>2 DEF RunTyped, TypeOK, IsFileMap
<1>6. CopiesLag'
  <2>1. \A f \in todo' : f[2] < nextFile'
    BY <1>0, <1>1 DEF FilesOfHist
  <2>2. \A d \in DOMAIN dirs' : DOMAIN dirs'[d] # {} => d \in DOMAIN dirs /\ dirs'[d] = dirs[d]
    BY <1>3, <1>4
  <2>3. \A d \in DOMAIN dirs' : \A f \in DOMAIN dirs'[d] :
           /\ dirs'[d][f] \subseteq hist
           /\ f[2] < nextFile
           /\ f \in DOMAIN live => dirs'[d][f] \subseteq live[f]
           /\ (f \in DOMAIN live /\ IsTable(f)) => dirs'[d][f] = live[f]
    BY <1>0, <2>2 DEF CopiesLag
  <2> QED
    BY <1>1, <2>1, <2>3 DEF CopiesLag, IsTable
<1>7. DirsInUse'
  BY <1>0, <1>1, <1>2, <1>3, <1>4, Dirs DEF DirsInUse, TypeOK
<1>8. NewestIsCopied'
  BY <1>0, <1>1 DEF NewestIsCopied, NewestIsLive, FilesOfHist, TypeOK
<1> QED
  BY <1>1, <1>5, <1>6, <1>7, <1>8 DEF RunInv

\* A mirror: the snapshot there is, without the files that are gone.
LEMMA MirrorStarts ==
    ASSUME IInv, pc = "idle", snapshotDir # NoDir, UNCHANGED leveldb, StartMirror
    PROVE  RunInv'
<1>0. TypeOK /\ HistNumbered /\ FilesOfHist /\ NewestIsLive /\ CopiesLag /\ DirsInUse
  BY DEF IInv
<1>1. /\ dest' = snapshotDir
      /\ dirs' = [dirs EXCEPT ![snapshotDir] = Without(@, DOMAIN @ \ DOMAIN live)]
      /\ pc' = "copy" /\ reuse' = TRUE /\ force' = FALSE
      /\ todo' = DOMAIN live /\ lossy' = FALSE /\ began' = Writes
      /\ snapshotDir' = snapshotDir
      /\ live' = live /\ hist' = hist /\ nextFile' = nextFile
  BY DEF StartMirror, leveldb
<1>2. DOMAIN dirs = {snapshotDir}
  BY <1>0 DEF DirsInUse
<1>3. /\ DOMAIN dirs' = {snapshotDir}
      /\ DOMAIN dirs'[snapshotDir] \subseteq DOMAIN dirs[snapshotDir]
      /\ \A f \in DOMAIN dirs'[snapshotDir] : dirs'[snapshotDir][f] = dirs[snapshotDir][f]
  BY <1>1, <1>2 DEF Without
<1>4. RunTyped'
  <2>1. Writes \in 0..MaxWrites
    BY <1>0, Bounds DEF HistNumbered
  <2>2. IsFileMap(dirs'[snapshotDir])
    BY <1>0, <1>2, <1>3 DEF TypeOK, IsFileMap
  <2> QED
    BY <1>0, <1>1, <1>2, <1>3, <2>1, <2>2 DEF RunTyped, TypeOK, IsFileMap
<1>5. CopiesLag'
  <2>1. \A f \in todo' : f[2] < nextFile'
    BY <1>0, <1>1 DEF FilesOfHist
  <2>2. ASSUME NEW f \in DOMAIN dirs'[snapshotDir]
        PROVE  /\ dirs'[snapshotDir][f] \subseteq hist'
               /\ f[2] < nextFile'
               /\ f \in DOMAIN live' => dirs'[snapshotDir][f] \subseteq live'[f]
               /\ (f \in DOMAIN live' /\ IsTable(f)) => dirs'[snapshotDir][f] = live'[f]
    BY <1>0, <1>1, <1>2, <1>3, <2>2 DEF CopiesLag
  <2> QED
    BY <1>3, <2>1, <2>2 DEF CopiesLag, IsTable
<1>6. DirsInUse'
  BY <1>0, <1>1, <1>2, <1>3 DEF DirsInUse, TypeOK
<1>7. NewestIsCopied'
  BY <1>0, <1>1 DEF NewestIsCopied, NewestIsLive, FilesOfHist, TypeOK
<1> QED
  BY <1>4, <1>5, <1>6, <1>7 DEF RunInv

\* A call that leaves the directories as they were.
LEMMA CallReturns ==
    ASSUME IInv, DOMAIN dirs = {snapshotDir} \ {NoDir}, UNCHANGED <<leveldb, dirs, snapshotDir>>,
           Return
    PROVE  RunInv' /\ pc' = "idle"
<1>0. TypeOK /\ CopiesLag /\ DirsInUse
  BY DEF IInv
<1>1. /\ pc' = "idle" /\ dest' = NoDir /\ todo' = {} /\ began' = 0
      /\ reuse' = FALSE /\ force' = FALSE /\ lossy' = FALSE
      /\ UNCHANGED <<live, hist, nextFile, dirs, snapshotDir>>
  BY DEF Return, leveldb
<1>2. RunTyped'
  <2>1. DOMAIN dirs' \in SUBSET Dir
    BY <1>0, <1>1 DEF TypeOK
  <2>2. \A d \in DOMAIN dirs' : IsFileMap(dirs'[d])
    BY <1>0, <1>1 DEF TypeOK
  <2>3. snapshotDir' \in DOMAIN dirs' \cup {NoDir} /\ dest' \in DOMAIN dirs' \cup {NoDir}
    BY <1>0, <1>1 DEF TypeOK
  <2>4. began' \in 0..MaxWrites /\ todo' \in SUBSET File
    BY <1>1, Bounds
  <2> QED
    BY <1>1, <2>1, <2>2, <2>3, <2>4 DEF RunTyped
<1>3. CopiesLag'
  BY <1>0, <1>1 DEF CopiesLag, IsTable
<1>4. DirsInUse' /\ NewestIsCopied'
  BY <1>0, <1>1 DEF DirsInUse, NewestIsCopied
<1> QED
  BY <1>1, <1>2, <1>3, <1>4 DEF RunInv

\* finally: the snapshot just taken is the only directory left.
LEMMA SnapshotEnds ==
    ASSUME IInv, Copied, ~reuse, NEW caughtUp \in BOOLEAN, Finally(caughtUp)
    PROVE  /\ RunInv' /\ pc' = (IF caughtUp THEN "stamp" ELSE "idle")
           /\ UNCHANGED leveldb /\ fullDue' \in BOOLEAN
           /\ caughtUp => began' = began
<1>0. TypeOK /\ CopiesLag /\ DirsInUse
  BY DEF IInv
<1>1. /\ snapshotDir' = dest /\ dirs' = Without(dirs, DOMAIN dirs \ {dest})
      /\ UNCHANGED leveldb /\ UNCHANGED <<live, hist, nextFile>>
      /\ dest' = NoDir /\ todo' = {}
      /\ pc' = (IF caughtUp THEN "stamp" ELSE "idle")
      /\ began' = (IF caughtUp THEN began ELSE 0)
      /\ reuse' \in BOOLEAN /\ force' \in BOOLEAN /\ lossy' \in BOOLEAN /\ fullDue' \in BOOLEAN
  BY <1>0 DEF Finally, GoStamp, Return, Copied, leveldb, TypeOK
<1>2. dest \in DOMAIN dirs /\ dest \in Dir /\ dest # NoDir
  BY <1>0, Dirs DEF DirsInUse, Copied, TypeOK
<1>3. DOMAIN dirs' = {dest} /\ dirs'[dest] = dirs[dest]
  BY <1>1, <1>2 DEF Without
<1>4. RunTyped'
  <2>1. \A d \in DOMAIN dirs' : IsFileMap(dirs'[d])
    BY <1>0, <1>2, <1>3 DEF TypeOK
  <2>2. DOMAIN dirs' \in SUBSET Dir /\ snapshotDir' \in DOMAIN dirs' /\ dest' = NoDir
    BY <1>1, <1>2, <1>3
  <2>3. began' \in 0..MaxWrites /\ todo' \in SUBSET File
    BY <1>0, <1>1, Bounds DEF TypeOK
  <2> QED
    BY <1>1, <2>1, <2>2, <2>3 DEF RunTyped
<1>5. CopiesLag'
  <2>1. \A d \in DOMAIN dirs' : d \in DOMAIN dirs /\ dirs'[d] = dirs[d]
    BY <1>2, <1>3
  <2>2. \A d \in DOMAIN dirs' : \A f \in DOMAIN dirs'[d] :
           /\ dirs'[d][f] \subseteq hist
           /\ f[2] < nextFile
           /\ f \in DOMAIN live => dirs'[d][f] \subseteq live[f]
           /\ (f \in DOMAIN live /\ IsTable(f)) => dirs'[d][f] = live[f]
    BY <1>0, <2>1 DEF CopiesLag
  <2> QED
    BY <1>1, <2>2 DEF CopiesLag, IsTable
<1>6. DirsInUse' /\ NewestIsCopied'
  BY <1>1, <1>2, <1>3 DEF DirsInUse, NewestIsCopied
<1> QED
  BY <1>1, <1>4, <1>5, <1>6 DEF RunInv

\* What was copied without loss shows everything written before the listing.
LEMMA SeenIsFresh ==
    ASSUME IInv, Copied
    PROVE  /\ dest \in DOMAIN dirs /\ Seen \subseteq Record /\ Applied \subseteq Record
           /\ MaxSeq(Seen) \in 0..MaxWrites
           /\ ~lossy => MaxSeq(Seen) >= began
<1>0. TypeOK /\ CopiesLag /\ DirsInUse /\ NewestIsCopied
  BY DEF IInv
<1>1. dest \in DOMAIN dirs
  BY <1>0 DEF DirsInUse, Copied, TypeOK
<1>2. Seen \subseteq Record /\ Applied \subseteq Record
  BY <1>0, <1>1, SeenType
<1>3. MaxSeq(Seen) \in 0..MaxWrites /\ \A r \in Seen : r.seq <= MaxSeq(Seen)
  BY <1>2, MaxSeqIsMax
<1>4. ~lossy => \E r \in Seen : r.seq = began
  BY <1>0 DEF NewestIsCopied, Copied, Seen, Contents
<1>5. ~lossy => MaxSeq(Seen) >= began
  BY <1>0, <1>3, <1>4, Bounds DEF TypeOK
<1> QED
  BY <1>1, <1>2, <1>3, <1>5
\* One more file is copied, or given up.
LEMMA CopyStepInv ==
    ASSUME IInv, NEW f \in File, Copy(f) \/ CopyLost(f)
    PROVE  IInv'
<1>0. TypeOK /\ FilesOfHist /\ CopiesLag /\ DirsInUse /\ NewestIsCopied
  BY DEF IInv
<1>1. /\ pc = "copy" /\ f \in todo /\ todo' = todo \ {f}
      /\ Fault \/ NoFault
      /\ UNCHANGED <<leveldb, cur, policy, snapshotDir, cache, pc, reuse, force, fullDue, dest, began>>
      /\ UNCHANGED <<hist, live, nextFile>>
  BY DEF Copy, CopyLost, IsNext, leveldb
<1>2. dest \in DOMAIN dirs
  BY <1>0, <1>1 DEF DirsInUse, TypeOK
<1>3. /\ DOMAIN dirs' = DOMAIN dirs
      /\ \A d \in DOMAIN dirs : d # dest => dirs'[d] = dirs[d]
      /\ \A g \in DOMAIN dirs'[dest] : g # f => g \in DOMAIN dirs[dest] /\ dirs'[dest][g] = dirs[dest][g]
      /\ f \in DOMAIN dirs'[dest] => f \in DOMAIN live /\ dirs'[dest][f] = live[f]
  <2>1. CASE Copy(f) /\ Present(f)
    BY <1>0, <1>2, <2>1 DEF Copy, Present, CopiesLag
  <2>2. CASE Copy(f) /\ ~Present(f)
    BY <1>2, <2>2 DEF Copy, With
  <2>3. CASE CopyLost(f)
    BY <1>2, <2>3 DEF CopyLost, Without
  <2> QED
    BY <1>1, <2>1, <2>2, <2>3
<1>4. Copy(f) => /\ lossy' = lossy /\ f \in DOMAIN dirs'[dest]
                 /\ DOMAIN dirs[dest] \subseteq DOMAIN dirs'[dest]
                 /\ f \in DOMAIN live
  BY <1>2 DEF Copy, With, Present
<1>5. CopyLost(f) => lossy'
  BY DEF CopyLost
<1>6. RunTyped'
  <2>1. IsFileMap(dirs'[dest])
    BY <1>0, <1>1, <1>2, <1>3 DEF TypeOK, IsFileMap
  <2>2. \A d \in DOMAIN dirs' : IsFileMap(dirs'[d])
    BY <1>0, <1>3, <2>1 DEF TypeOK
  <2>3. todo' \in SUBSET File /\ lossy' \in BOOLEAN
    BY <1>0, <1>1, <1>4, <1>5 DEF TypeOK
  <2> QED
    BY <1>0, <1>1, <1>3, <2>2, <2>3 DEF RunTyped, TypeOK
<1>7. CopiesLag'
  <2>1. \A g \in todo' : g[2] < nextFile
    BY <1>0, <1>1 DEF CopiesLag
  <2>2. ASSUME NEW d \in DOMAIN dirs', NEW g \in DOMAIN dirs'[d]
        PROVE  /\ dirs'[d][g] \subseteq hist
               /\ g[2] < nextFile
               /\ g \in DOMAIN live => dirs'[d][g] \subseteq live[g]
               /\ (g \in DOMAIN live /\ IsTable(g)) => dirs'[d][g] = live[g]
    <3>1. CASE d = dest /\ g = f
      BY <1>0, <1>3, <2>2, <3>1 DEF FilesOfHist
    <3>2. CASE ~(d = dest /\ g = f)
      <4>1. d \in DOMAIN dirs /\ g \in DOMAIN dirs[d] /\ dirs'[d][g] = dirs[d][g]
        BY <1>3, <2>2, <3>2
      <4> QED
        BY <1>0, <4>1 DEF CopiesLag
    <3> QED
      BY <3>1, <3>2
  <2> QED
    BY <1>1, <2>1, <2>2 DEF CopiesLag, IsTable
<1>8. DirsInUse'
  BY <1>0, <1>1, <1>3 DEF DirsInUse
<1>9. NewestIsCopied'
  <2>1. CASE CopyLost(f)
    BY <1>5, <2>1 DEF NewestIsCopied
  <2>2. CASE Copy(f)
    <3> SUFFICES ASSUME ~lossy
                 PROVE  NewestIsCopied'
      BY <1>4, <2>2 DEF NewestIsCopied
    <3>1. PICK r \in hist :
             /\ r.seq = began
             /\ \/ \E g \in todo : g \in DOMAIN live => r \in live[g]
                \/ \E g \in DOMAIN dirs[dest] : r \in dirs[dest][g]
      BY <1>0, <1>1 DEF NewestIsCopied
    <3>2. CASE \E g \in todo : g \in DOMAIN live => r \in live[g]
      <4>1. PICK g \in todo : g \in DOMAIN live => r \in live[g]
        BY <3>2
      <4>2. \/ \E h \in todo' : h \in DOMAIN live' => r \in live'[h]
            \/ \E h \in DOMAIN dirs'[dest'] : r \in dirs'[dest'][h]
        BY <1>1, <1>3, <1>4, <2>2, <4>1
      <4> QED
        BY <1>1, <3>1, <4>2 DEF NewestIsCopied
    <3>3. CASE \E g \in DOMAIN dirs[dest] : r \in dirs[dest][g]
      <4>1. PICK g \in DOMAIN dirs[dest] : r \in dirs[dest][g]
        BY <3>3
      <4>2. g \in DOMAIN dirs'[dest'] /\ r \in dirs'[dest'][g]
        BY <1>0, <1>1, <1>2, <1>3, <1>4, <2>2, <4>1 DEF CopiesLag
      <4> QED
        BY <1>1, <3>1, <4>2 DEF NewestIsCopied
    <3> QED
      BY <3>1, <3>2, <3>3
  <2> QED
    BY <2>1, <2>2
<1>10. StoreTyped'
  BY <1>0, <1>1, FaultCounted, TypedParts DEF IInv, StoreTyped, cur, policy
<1>11. ReuseIsAllowed' /\ BackstopHolds' /\ AsFreshAsTheListing'
  BY <1>1 DEF IInv, ReuseIsAllowed, BackstopHolds, AsFreshAsTheListing, cur, policy
<1> QED
  BY <1>1, <1>6, <1>7, <1>8, <1>9, <1>10, <1>11, SessionSplit DEF RunInv

\* A get that begins a refresh, warm or cold.
LEMMA BeginInv ==
    ASSUME IInv, ColdGet \/ \E due \in BOOLEAN : Get(due)
    PROVE  IInv'
<1>0. TypeOK
  BY DEF IInv
<1>1. /\ pc = "idle" /\ NoFault
      /\ UNCHANGED <<leveldb, cur, policy, cache>>
      /\ fullDue' \in BOOLEAN
  BY <1>0 DEF ColdGet, Get, TypeOK
<1>2. StoreTyped'
  BY <1>0, <1>1, FaultCounted DEF StoreTyped, TypeOK, cur, policy
<1>3. \/ \E b \in BOOLEAN : StartSnapshot(b)
      \/ served /\ snapshotDir # NoDir /\ incrementalsSinceFull < MaxIncrementals /\ StartMirror
  BY DEF ColdGet, Get, CanReuse
<1>4. BackstopHolds' /\ pc' = "copy"
  BY <1>1, <1>3 DEF IInv, BackstopHolds, policy, StartSnapshot, StartMirror
<1>5. RunInv' /\ ReuseIsAllowed'
  <2>1. CASE \E b \in BOOLEAN : StartSnapshot(b)
    BY <1>1, <2>1, SnapshotStarts DEF ReuseIsAllowed
  <2>2. CASE served /\ snapshotDir # NoDir /\ incrementalsSinceFull < MaxIncrementals /\ StartMirror
    BY <1>1, <2>2, MirrorStarts DEF ReuseIsAllowed, cur, policy
  <2> QED
    BY <1>3, <2>1, <2>2
<1> QED
  BY <1>1, <1>2, <1>4, <1>5, SessionSplit DEF AsFreshAsTheListing

\* An error while copying: a mirror becomes a snapshot, a snapshot is removed.
LEMMA CopyThrowsInv == ASSUME IInv, CopyThrows PROVE IInv'
<1>0. TypeOK /\ CopiesLag /\ DirsInUse
  BY DEF IInv
<1>1. /\ pc = "copy" /\ Fault
      /\ UNCHANGED <<leveldb, cur, lastProbe, incrementalsSinceFull, cache>>
      /\ UNCHANGED <<live, hist, nextFile>>
  BY DEF CopyThrows, leveldb
<1>2. BackstopHolds'
  BY <1>1 DEF IInv, BackstopHolds
<1>3. CASE reuse
  <2>1. StartSnapshot(FALSE) /\ pendingFull' = TRUE /\ fullDue' = fullDue
    BY <1>3 DEF CopyThrows
  <2>2. RunInv' /\ pc' = "copy" /\ ~reuse'
    BY <1>1, <1>3, <2>1, SnapshotStarts
  <2>3. StoreTyped'
    BY <1>0, <1>1, <2>1, FaultCounted DEF StoreTyped, TypeOK, cur
  <2> QED
    BY <1>1, <1>2, <2>2, <2>3, SessionSplit DEF ReuseIsAllowed, AsFreshAsTheListing
<1>4. CASE ~reuse
  <2>1. /\ dirs' = Without(dirs, {dest}) /\ Return /\ UNCHANGED <<pendingFull, snapshotDir>>
    BY <1>4 DEF CopyThrows
  <2>2. /\ DOMAIN dirs = ({snapshotDir} \ {NoDir}) \cup {dest} /\ dest \in Dir /\ dest # snapshotDir
    BY <1>0, <1>1, <1>4 DEF DirsInUse
  <2>3. /\ DOMAIN dirs' = {snapshotDir} \ {NoDir}
        /\ \A d \in DOMAIN dirs' : d \in DOMAIN dirs /\ dirs'[d] = dirs[d]
    BY <2>1, <2>2 DEF Without
  <2>4. /\ pc' = "idle" /\ dest' = NoDir /\ todo' = {} /\ began' = 0
        /\ reuse' = FALSE /\ force' = FALSE /\ lossy' = FALSE /\ fullDue' = FALSE
    BY <2>1 DEF Return
  <2>5. RunTyped'
    <3>1. \A d \in DOMAIN dirs' : IsFileMap(dirs'[d])
      BY <1>0, <2>3 DEF TypeOK
    <3>2. DOMAIN dirs' \in SUBSET Dir /\ snapshotDir' \in DOMAIN dirs' \cup {NoDir}
      BY <1>0, <2>1, <2>3 DEF TypeOK
    <3>3. began' \in 0..MaxWrites /\ todo' \in SUBSET File
      BY <2>4, Bounds
    <3> QED
      BY <2>4, <3>1, <3>2, <3>3 DEF RunTyped
  <2>6. CopiesLag'
    <3>1. \A d \in DOMAIN dirs' : \A f \in DOMAIN dirs'[d] :
             /\ dirs'[d][f] \subseteq hist
             /\ f[2] < nextFile
             /\ f \in DOMAIN live => dirs'[d][f] \subseteq live[f]
             /\ (f \in DOMAIN live /\ IsTable(f)) => dirs'[d][f] = live[f]
      BY <1>0, <2>3 DEF CopiesLag
    <3> QED
      BY <1>1, <2>4, <3>1 DEF CopiesLag, IsTable
  <2>7. DirsInUse' /\ NewestIsCopied'
    BY <2>1, <2>3, <2>4 DEF DirsInUse, NewestIsCopied
  <2>8. StoreTyped'
    BY <1>0, <1>1, <2>1, <2>4, FaultCounted DEF StoreTyped, TypeOK, cur
  <2> QED
    BY <1>1, <1>2, <2>4, <2>5, <2>6, <2>7, <2>8, SessionSplit
    DEF RunInv, ReuseIsAllowed, AsFreshAsTheListing
<1> QED
  BY <1>3, <1>4

\* The store after a build or an apply of records that were copied.
LEMMA BuildType ==
    ASSUME NEW rs \in SUBSET Record, NEW whole \in BOOLEAN, Build(rs, whole)
    PROVE  /\ served' \in BOOLEAN /\ store' \in SUBSET Record /\ watermark' \in 0..MaxWrites
           /\ grade' \in {"nothing", "partial", "whole"} /\ asOf' \in 0..MaxWrites
<1>1. Puts(Newest(rs)) \in SUBSET Record
  BY NewestIsSome
<1>2. MaxSeq(rs) \in 0..MaxWrites
  BY MaxSeqIsMax
<1> QED
  BY <1>1, <1>2 DEF Build

\* The tables of a copy are files, and without one it holds nothing unseen.
LEMMA TablesType ==
    ASSUME TypeOK, dest \in DOMAIN dirs
    PROVE  Tables \in SUBSET File /\ \A f : Contents(Without(dirs[dest], {f})) \subseteq Seen
<1>1. Tables \in SUBSET File
  BY DEF Tables, TypeOK, IsFileMap
<1> QED
  BY <1>1 DEF Contents, Without, Seen

\* A mirror that was copied: given up for a snapshot, for good, or applied.
LEMMA ReuseStepInv == ASSUME IInv, ReuseStep PROVE IInv'
<1>0. TypeOK /\ DirsInUse /\ ReuseIsAllowed
  BY DEF IInv
<1>1. /\ Copied /\ reuse /\ pc = "copy" /\ (Fault \/ NoFault)
      /\ UNCHANGED leveldb /\ lastProbe' = lastProbe
  BY DEF ReuseStep, ReuseLossy, ReuseSkipped, ReuseDefers, ReuseApplies, ReuseFails, Copied, policy
<1>2. /\ DOMAIN dirs = {snapshotDir} \ {NoDir}
      /\ served /\ incrementalsSinceFull < MaxIncrementals
  BY <1>0, <1>1 DEF DirsInUse, ReuseIsAllowed
<1>3. /\ dest \in DOMAIN dirs /\ Seen \subseteq Record /\ Applied \subseteq Record
      /\ MaxSeq(Seen) \in 0..MaxWrites
      /\ ~lossy => MaxSeq(Seen) >= began
  BY <1>1, SeenIsFresh
<1>4. Tables \in SUBSET File /\ faults' \in 0..MaxFaults
  BY <1>0, <1>1, <1>3, TablesType, FaultCounted
<1>5. CASE ReuseLossy \/ ReuseSkipped
  <2>1. /\ Return /\ cache' \in SUBSET File /\ fullDue' = FALSE
        /\ UNCHANGED <<cur, dirs, snapshotDir, incrementalsSinceFull, pendingFull>>
    BY <1>0, <1>4, <1>5 DEF ReuseLossy, ReuseSkipped, files, Return, TypeOK
  <2>2. RunInv' /\ pc' = "idle"
    BY <1>1, <1>2, <2>1, CallReturns
  <2>3. StoreTyped'
    BY <1>0, <1>1, <1>4, <2>1 DEF StoreTyped, TypeOK, cur
  <2> QED
    BY <1>1, <2>1, <2>2, <2>3, SessionSplit
    DEF IInv, ReuseIsAllowed, AsFreshAsTheListing, BackstopHolds
<1>6. CASE ReuseDefers \/ ReuseFails
  <2>1. /\ StartSnapshot(FALSE) /\ cache' = Tables
        /\ UNCHANGED <<incrementalsSinceFull, fullDue, served>>
        /\ store' \in {store, Applied} /\ asOf' \in {asOf, MaxSeq(Seen)}
        /\ pendingFull' \in BOOLEAN
        /\ UNCHANGED <<watermark, grade>>
    BY <1>0, <1>6 DEF ReuseDefers, ReuseFails, ApplyFails, cur, policy, TypeOK
  <2>2. RunInv' /\ pc' = "copy" /\ ~reuse'
    BY <1>1, <2>1, SnapshotStarts
  <2>3. StoreTyped'
    BY <1>0, <1>1, <1>3, <1>4, <2>1 DEF StoreTyped, TypeOK
  <2> QED
    BY <1>1, <2>1, <2>2, <2>3, SessionSplit
    DEF IInv, ReuseIsAllowed, AsFreshAsTheListing, BackstopHolds
<1>7. CASE ReuseApplies
  <2>1. /\ ~lossy /\ cache' = Tables /\ ApplyInPlace /\ GoStamp
        /\ UNCHANGED <<dirs, snapshotDir, pendingFull>>
    BY <1>7 DEF ReuseApplies
  <2>2. RunInv'
    <3>1. UNCHANGED <<hist, live, nextFile, dirs, snapshotDir, reuse, force, todo, lossy, began>>
          /\ pc' = "stamp" /\ dest' = NoDir
      BY <1>1, <2>1 DEF GoStamp, leveldb
    <3>2. RunTyped'
      BY <1>0, <3>1 DEF RunTyped, TypeOK
    <3>3. CopiesLag'
      BY <3>1 DEF IInv, CopiesLag, IsTable
    <3>4. DirsInUse' /\ NewestIsCopied'
      BY <1>2, <3>1 DEF DirsInUse, NewestIsCopied
    <3> QED
      BY <3>2, <3>3, <3>4 DEF RunInv
  <2>3. StoreTyped' /\ BackstopHolds'
    BY <1>0, <1>1, <1>2, <1>3, <1>4, <2>1, Bounds
    DEF StoreTyped, TypeOK, ApplyInPlace, GoStamp, BackstopHolds
  <2>4. AsFreshAsTheListing' /\ ReuseIsAllowed'
    BY <1>3, <2>1 DEF ApplyInPlace, GoStamp, AsFreshAsTheListing, ReuseIsAllowed
  <2> QED
    BY <1>1, <2>2, <2>3, <2>4, SessionSplit
<1> QED
  BY <1>5, <1>6, <1>7 DEF ReuseStep

\* A snapshot that was copied: it replaces the old one, whatever comes of it.
LEMMA FreshStepInv == ASSUME IInv, FreshStep PROVE IInv'
<1>0. TypeOK
  BY DEF IInv
<1>1. /\ Copied /\ ~reuse /\ (Fault \/ NoFault)
      /\ \E b \in BOOLEAN : Finally(b) /\ (b => ~lossy /\ asOf' = MaxSeq(Seen))
  BY DEF FreshStep, FullAdopted, FullPartial, FullKept, FreshSkipped, FreshApplied, FreshFallsBack,
     Build, ApplyInPlace
<1>2. PICK b \in BOOLEAN : Finally(b) /\ (b => ~lossy /\ asOf' = MaxSeq(Seen))
  BY <1>1
<1>3. /\ dest \in DOMAIN dirs /\ Seen \subseteq Record /\ Applied \subseteq Record
      /\ MaxSeq(Seen) \in 0..MaxWrites
      /\ ~lossy => MaxSeq(Seen) >= began
  BY <1>1, SeenIsFresh
<1>4. /\ RunInv' /\ pc' = (IF b THEN "stamp" ELSE "idle")
      /\ UNCHANGED leveldb /\ fullDue' \in BOOLEAN
      /\ b => began' = began
  BY <1>1, <1>2, SnapshotEnds
<1>5. AsFreshAsTheListing' /\ ReuseIsAllowed'
  BY <1>2, <1>3, <1>4 DEF AsFreshAsTheListing, ReuseIsAllowed
<1>6. \A f : Contents(Without(dirs[dest], {f})) \subseteq Record
  BY <1>0, <1>3, TablesType
<1>7. pendingFull' = FALSE /\ lastProbe' = lastProbe /\ cache' \in {cache, {}}
  BY <1>2 DEF FreshStep, Finally, FullAdopted, FullPartial, FullKept, FreshSkipped, FreshApplied,
     FreshFallsBack
<1>8. /\ incrementalsSinceFull' \in Nat /\ BackstopHolds'
  <2>1. \/ incrementalsSinceFull' = 0
        \/ incrementalsSinceFull' = incrementalsSinceFull
        \/ /\ incrementalsSinceFull' = incrementalsSinceFull + 1
           /\ ~(incrementalsSinceFull >= MaxIncrementals)
    BY DEF FreshStep, FullAdopted, FullPartial, FullKept, FreshSkipped, FreshApplied, FreshFallsBack,
       ApplyInPlace, WantFull
  <2> QED
    BY <1>0, <2>1, Bounds DEF IInv, TypeOK, BackstopHolds
<1>9. /\ served' \in BOOLEAN /\ store' \in SUBSET Record /\ watermark' \in 0..MaxWrites
      /\ grade' \in {"nothing", "partial", "whole"} /\ asOf' \in 0..MaxWrites
  <2>1. CASE \E rs \in SUBSET Record, whole \in BOOLEAN : Build(rs, whole)
    BY <2>1, BuildType
  <2>2. CASE ApplyInPlace \/ ApplyFails \/ UNCHANGED cur
    BY <1>0, <1>3, <2>2 DEF ApplyInPlace, ApplyFails, cur, TypeOK
  <2> QED
    BY <1>3, <1>6, <2>1, <2>2 DEF FreshStep, FullAdopted, FullPartial, FullKept, FreshSkipped,
       FreshApplied, FreshFallsBack
<1>10. StoreTyped'
  BY <1>0, <1>1, <1>4, <1>7, <1>8, <1>9, FaultCounted DEF StoreTyped, TypeOK
<1> QED
  BY <1>4, <1>5, <1>8, <1>10, SessionSplit

\* The end of a call keeps the invariant.
LEMMA StampInv == ASSUME IInv, Stamp PROVE IInv'
<1>0. TypeOK /\ HistNumbered /\ FilesOfHist /\ DirsInUse
  BY DEF IInv
<1>1. /\ pc = "stamp" /\ NoFault /\ lastProbe' = Probe /\ Return /\ fullDue' = FALSE
      /\ UNCHANGED <<leveldb, cur, dirs, snapshotDir, cache, incrementalsSinceFull, pendingFull>>
  BY DEF Stamp, files, Return
<1>2. RunInv' /\ pc' = "idle"
  BY <1>0, <1>1, CallReturns DEF DirsInUse
<1>3. Probe \in SUBSET (File \X (0..MaxWrites))
  <2>1. \A f \in Logs : f \in DOMAIN live /\ f \in File
    BY <1>0 DEF Logs, TypeOK, IsFileMap
  <2>2. \A f \in Logs : Cardinality(live[f]) \in 0..MaxWrites
    BY <1>0, <2>1, FileCounts
  <2> QED
    BY <2>1, <2>2 DEF Probe
<1>4. StoreTyped'
  BY <1>0, <1>1, <1>3, FaultCounted DEF StoreTyped, TypeOK, cur
<1> QED
  BY <1>1, <1>2, <1>4, SessionSplit
  DEF IInv, ReuseIsAllowed, AsFreshAsTheListing, BackstopHolds

-----------------------------------------------------------------------------
(* The invariant, and what it is for.                                      *)

\* The invariant holds at first.
LEMMA InitInv == Init => IInv
<1> SUFFICES ASSUME Init PROVE IInv
  OBVIOUS
<1> DEFINE table == <<"ldb", 1>>
           log == <<"log", 2>>
<1>1. PICK k \in Key : hist = {[key |-> k, seq |-> 1, put |-> TRUE]}
  BY DEF Init
<1>2. PICK r \in Record : hist = {r} /\ r.seq = 1
  <2>1. 1 \in 1..MaxWrites
    BY Bounds
  <2>2. [key |-> k, seq |-> 1, put |-> TRUE] \in Record
    BY <2>1 DEF Record
  <2> QED
    BY <1>1, <2>2
<1>3. Writes = 1 /\ IsFiniteSet(hist)
  BY <1>2, FS_Singleton DEF Writes
<1>4. /\ DOMAIN live = {table, log} /\ live[table] = hist /\ live[log] = {}
      /\ table \in File /\ log \in File /\ IsTable(table) /\ ~IsTable(log)
      /\ table[2] = 1 /\ log[2] = 2
  BY Bounds DEF Init, File, IsTable
<1> HIDE DEF table, log
<1>5. /\ obsolete = {} /\ nextFile = 3
      /\ served = FALSE /\ store = {} /\ watermark = 0 /\ grade = "nothing" /\ asOf = 0
      /\ lastProbe = {} /\ fullDue = FALSE
      /\ incrementalsSinceFull = 0 /\ pendingFull = FALSE
      /\ DOMAIN dirs = {} /\ snapshotDir = NoDir /\ cache = {}
      /\ pc = "idle" /\ reuse = FALSE /\ force = FALSE /\ dest = NoDir
      /\ todo = {} /\ lossy = FALSE /\ began = 0
      /\ faults = 0
  BY DEF Init
<1>6. TypeOK
  <2>0. 0 \in 0..MaxWrites /\ 0 \in 0..MaxFaults
    BY Bounds
  <2>1. RunTyped /\ StoreTyped
    BY <1>5, <2>0 DEF RunTyped, StoreTyped
  <2>2. hist \in SUBSET Record /\ IsFileMap(live) /\ obsolete \in SUBSET DOMAIN live
        /\ nextFile \in 2..(MaxFile + 1)
    BY <1>2, <1>4, <1>5, Bounds DEF IsFileMap
  <2> QED
    BY <2>1, <2>2 DEF TypeOK, RunTyped, StoreTyped
<1>7. HistNumbered /\ FilesOfHist /\ NewestIsLive
  BY <1>2, <1>3, <1>4, <1>5, Bounds DEF HistNumbered, FilesOfHist, NewestIsLive, Logs
<1>8. /\ CopiesLag /\ DirsInUse /\ ReuseIsAllowed /\ BackstopHolds /\ NewestIsCopied
      /\ AsFreshAsTheListing
  BY <1>5, Bounds DEF CopiesLag, DirsInUse, ReuseIsAllowed, BackstopHolds, NewestIsCopied,
     AsFreshAsTheListing
<1> QED
  BY <1>6, <1>7, <1>8 DEF IInv

\* A step that changes nothing keeps it.
LEMMA StutterInv == IInv /\ UNCHANGED vars => IInv'
<1> SUFFICES ASSUME IInv, UNCHANGED vars PROVE IInv'
  OBVIOUS
<1>1. UNCHANGED <<leveldb, cur, policy, files, run, faults>>
  BY DEF vars
<1>2. RunInv' /\ StoreTyped'
  BY <1>1 DEF IInv, TypeOK, RunInv, RunTyped, StoreTyped, CopiesLag, DirsInUse, NewestIsCopied,
     leveldb, cur, policy, files, run, IsFileMap, IsTable
<1>3. ReuseIsAllowed' /\ BackstopHolds' /\ AsFreshAsTheListing'
  BY <1>1 DEF IInv, ReuseIsAllowed, BackstopHolds, AsFreshAsTheListing, cur, policy, run
<1> QED
  BY <1>1, <1>2, <1>3, SessionSplit

\* Every step keeps it.
LEMMA StepInv == IInv /\ [Next]_vars => IInv'
<1>1. IInv /\ TeamsStep => IInv'
  BY TeamsStepInv
<1>2. IInv /\ SessionStep => IInv'
  BY CopyStepInv, BeginInv, CopyThrowsInv, ReuseStepInv, FreshStepInv, StampInv DEF SessionStep
<1> QED
  BY <1>1, <1>2, StutterInv DEF Next

\* The invariant holds in every state the session and LevelDB can reach, in
\* whatever order files are removed (session.ts:150-330, snapshot.ts:60-175).
THEOREM Inductive == Spec => []IInv
  BY InitInv, StepInv, PTL DEF Spec

\* Every variable of the session stays of its type.
THEOREM TypeCorrect == Spec => []TypeOK
  BY Inductive, PTL DEF IInv

\* Between refreshes no directory of an earlier one is left behind, whatever it
\* failed on (snapshot, and the finally of refresh).
THEOREM NoTempLeakCorrect == Spec => []NoTempLeak
<1>1. IInv => NoTempLeak
  BY DEF IInv, DirsInUse, NoTempLeak
<1> QED
  BY <1>1, Inductive, PTL

\* The backstop on the incrementals in a row is never exceeded.
THEOREM BackstopCorrect == Spec => []BackstopHolds
  BY Inductive, PTL DEF IInv

\* A refresh that counts as caught up shows every write from before its
\* listing, though Teams goes on writing, flushing, compacting and removing
\* files between any two copies.
THEOREM FreshnessCorrect == Spec => []AsFreshAsTheListing
  BY Inductive, PTL DEF IInv

-----------------------------------------------------------------------------
(* Session implements ServedState: if LevelDB removes its obsolete files   *)
(* in the order it made them, every store served whole is one state that   *)
(* the source went through, and never an older one than the store before.  *)
(* MCSessionUnlink shows what happens if it does not.                      *)

-----------------------------------------------------------------------------
(* Why a copy of the live files is one state: the invariant of LevelDB's   *)
(* files.                                                                  *)

\* Record s is newer than r and of the same key.
Overrules(s, r) == s.key = r.key /\ s.seq > r.seq

\* One log is written to, and the others were made before it.
OneLog ==
    /\ Logs \ obsolete = {CurrentLog}
    /\ \A f \in Logs \cap obsolete : f[2] < CurrentLog[2]

NumbersAreUnique == \A f, g \in DOMAIN live : f[2] = g[2] => f = g

\* A log holds newer records than the files made before it, and the current
\* one newer records than all others.
LogsAreNewer ==
    \A f \in Logs, g \in DOMAIN live :
        (f # g /\ (f \notin obsolete \/ g[2] < f[2])) =>
            \A r \in live[f], s \in live[g] : s.seq < r.seq

\* Of two tables, the later is the last to become obsolete and, if it knows a
\* key at all, knows as new a record of it.
LiveTables == {f \in DOMAIN live : IsTable(f)}
TablesAreOrdered ==
    \A f, g \in LiveTables : f[2] < g[2] =>
        /\ g \in obsolete => f \in obsolete
        /\ \A r \in live[f], s \in live[g] : s.key = r.key =>
              \E t \in live[g] : t.key = r.key /\ t.seq >= r.seq

\* As long as f is there, so is g.
Outlives(g, f) == g \notin obsolete \/ (f \in obsolete /\ f[2] <= g[2])

\* While a file holds a record that was overwritten or deleted, another holds
\* one that overrules it.
StaleIsOverruled ==
    \A f \in DOMAIN live : \A r \in live[f] :
        (\E h \in hist : Overrules(h, r)) =>
            \E g \in DOMAIN live : Outlives(g, f) /\ \E s \in live[g] : Overrules(s, r)

\* What is live now is in a file that stays.
PutsAreLive ==
    \A h \in Promise!StateAt(hist, Writes) : \E f \in DOMAIN live \ obsolete : h \in live[f]

FilesInv ==
    /\ OneLog
    /\ NumbersAreUnique
    /\ LogsAreNewer
    /\ TablesAreOrdered
    /\ StaleIsOverruled
    /\ PutsAreLive

-----------------------------------------------------------------------------
(* The invariant of the copies and the store.                              *)

\* The records rs show the state after the first n writes.
IsStateOf(rs, n) ==
    /\ \A r \in rs : r.seq <= n
    /\ \E r \in rs : r.seq = n
    /\ Puts(Newest(rs)) = Promise!StateAt(hist, n)

\* What a copy holds in the end if its remaining files are copied as they are.
InTheEnd == Contents(dirs[dest]) \cup UNION {live[f] : f \in todo}

\* That is the state at some write after the listing, and moves with the writes
\* until the current log is copied.
CopyIsOneState ==
    (pc = "copy" /\ ~lossy /\ todo \subseteq DOMAIN live) =>
        \E n \in began..Writes :
            /\ IsStateOf(InTheEnd, n)
            /\ CurrentLog \in todo => n = Writes

\* The store is as of a write that was made and, unless it is partial, the state
\* after that write.
StoreIsOneState ==
    /\ watermark <= asOf /\ asOf <= Writes
    /\ IF served THEN grade \in {"partial", "whole"} ELSE grade = "nothing" /\ asOf = 0
    /\ grade = "whole" => store = Promise!StateAt(hist, asOf)
    /\ store \subseteq Puts(hist)

CopyIsNotOlder == pc = "copy" => asOf <= began

PInv == IInv /\ FilesInv /\ CopyIsOneState /\ CopyIsNotOlder /\ StoreIsOneState

-----------------------------------------------------------------------------
(* Facts.                                                                  *)

\* ServedState counts the writes as Session does.
LEMMA CountsAgree == Promise!Cardinality(hist) = Writes
  BY DEF Promise!Cardinality, Cardinality, Writes

\* What a record must satisfy to be part of a state of the source,
LEMMA StateMember ==
    \A h, n, r : r \in Promise!StateAt(h, n) <=>
        /\ r \in h /\ r.seq <= n /\ r.put
        /\ \A s \in h : (s.seq <= n /\ s.key = r.key) => s.seq <= r.seq
  BY DEF Promise!StateAt, Promise!Newest, Promise!Puts

\* and to be part of what a set of records shows.
LEMMA LivePutMember ==
    \A rs, r : r \in Puts(Newest(rs)) <=>
        r \in rs /\ r.put /\ \A s \in rs : s.key = r.key => s.seq <= r.seq
  BY DEF Newest, Puts, Promise!Newest, Promise!Puts

\* Numbers are numbers, and within those given out so far.
LEMMA Numbers ==
    ASSUME IInv
    PROVE  /\ \A f \in DOMAIN live : f[2] \in Nat /\ f[2] < nextFile /\ live[f] \subseteq hist
           /\ \A r \in hist : r.seq \in Nat /\ r.seq >= 1 /\ r.seq <= Writes
           /\ Writes \in Nat /\ nextFile \in Nat /\ hist \subseteq Record
  BY Bounds DEF IInv, TypeOK, IsFileMap, File, Record, HistNumbered, FilesOfHist

\* The one log that is not obsolete is the current one.
LEMMA CurrentLogIs ==
    ASSUME NEW f, (Logs \ obsolete)' = {f}
    PROVE  CurrentLog' = f
  BY DEF CurrentLog

\* The files that are live show the state as of now.
LEMMA LiveIsState ==
    ASSUME IInv, FilesInv
    PROVE  IsStateOf(Contents(live), Writes)
<1> DEFINE all == Contents(live)
<1>1. all \subseteq hist /\ \A r \in hist : r.seq \in Nat /\ r.seq <= Writes
  BY Numbers DEF Contents
<1>2. \E r \in all : r.seq = Writes
  BY DEF IInv, NewestIsLive, Contents
<1>3. ASSUME NEW r \in Puts(Newest(all))
      PROVE  r \in Promise!StateAt(hist, Writes)
  <2>1. r \in all /\ r.put /\ \A s \in all : s.key = r.key => s.seq <= r.seq
    BY <1>3, LivePutMember
  <2>2. ASSUME NEW h \in hist, h.key = r.key, ~(h.seq <= r.seq)
        PROVE  FALSE
    <3>1. Overrules(h, r)
      BY <1>1, <2>1, <2>2 DEF Overrules
    <3>2. PICK f \in DOMAIN live : r \in live[f]
      BY <2>1 DEF Contents
    <3>3. PICK g \in DOMAIN live : \E s \in live[g] : Overrules(s, r)
      BY <3>1, <3>2 DEF FilesInv, StaleIsOverruled
    <3>4. \E s \in all : Overrules(s, r)
      BY <3>3 DEF Contents
    <3> QED
      BY <1>1, <2>1, <3>4 DEF Overrules
  <2> QED
    BY <1>1, <2>1, <2>2, StateMember
<1>4. ASSUME NEW r \in Promise!StateAt(hist, Writes)
      PROVE  r \in Puts(Newest(all))
  <2>1. r \in all
    BY <1>4 DEF FilesInv, PutsAreLive, Contents
  <2>2. r.put /\ \A s \in hist : s.key = r.key => s.seq <= r.seq
    BY <1>1, <1>4, StateMember
  <2> QED
    BY <1>1, <2>1, <2>2, LivePutMember
<1> QED
  BY <1>1, <1>2, <1>3, <1>4 DEF IsStateOf

-----------------------------------------------------------------------------
(* LevelDB keeps the invariant of its files.                               *)

\* A write keeps the invariant of the files.
LEMMA WriteKeepsFiles ==
    ASSUME IInv, FilesInv, NEW k \in Key, NEW p \in BOOLEAN, Write(k, p)
    PROVE  FilesInv'
<1> DEFINE r == [key |-> k, seq |-> Writes + 1, put |-> p]
<1>0. /\ OneLog /\ NumbersAreUnique /\ LogsAreNewer /\ TablesAreOrdered
      /\ StaleIsOverruled /\ PutsAreLive /\ TypeOK /\ HistNumbered /\ FilesOfHist
  BY DEF FilesInv, IInv
<1>1. /\ hist' = hist \cup {r} /\ live' = [live EXCEPT ![CurrentLog] = @ \cup {r}]
      /\ Writes' = Writes + 1 /\ r.seq = Writes + 1
  <2> HIDE DEF r
  <2>1. r = [key |-> k, seq |-> Writes + 1, put |-> p]
    BY DEF r
  <2> QED BY <1>0, <2>1, WriteIsNewest
<1> HIDE DEF r
<1>2. /\ CurrentLog \in DOMAIN live /\ ~IsTable(CurrentLog) /\ CurrentLog \notin obsolete
      /\ obsolete' = obsolete
  BY <1>0, CurrentLogIsLive DEF Write
<1>3. /\ DOMAIN live' = DOMAIN live
      /\ \A f \in DOMAIN live : live'[f] = IF f = CurrentLog THEN live[f] \cup {r} ELSE live[f]
  BY <1>1, <1>2
<1>4. /\ Logs' = Logs /\ CurrentLog' = CurrentLog /\ LiveTables' = LiveTables
  BY <1>2, <1>3 DEF Logs, CurrentLog, LiveTables
<1>5. /\ \A f \in DOMAIN live : f[2] \in Nat /\ live[f] \subseteq hist
      /\ \A s \in hist : s.seq \in Nat /\ s.seq <= Writes
      /\ Writes \in Nat
  BY Numbers
<1>6. OneLog' /\ NumbersAreUnique'
  BY <1>0, <1>2, <1>3, <1>4 DEF OneLog, NumbersAreUnique
<1>7. LogsAreNewer'
  <2> SUFFICES ASSUME NEW f \in Logs, NEW g \in DOMAIN live, f # g,
                      f \notin obsolete \/ g[2] < f[2],
                      NEW q \in live'[f], NEW s \in live'[g]
               PROVE  s.seq < q.seq
    BY <1>2, <1>3, <1>4 DEF LogsAreNewer
  <2>1. g # CurrentLog
    BY <1>0, <1>5 DEF OneLog, Logs
  <2>2. s \in live[g] /\ s.seq \in Nat /\ s.seq <= Writes
    BY <1>3, <1>5, <2>1
  <2>3. q = r \/ q \in live[f]
    BY <1>3 DEF Logs
  <2> QED
    BY <1>0, <1>1, <1>5, <2>2, <2>3 DEF LogsAreNewer
<1>8. TablesAreOrdered'
  <2>1. \A f \in LiveTables : f \in DOMAIN live /\ live'[f] = live[f]
    BY <1>2, <1>3 DEF LiveTables
  <2> QED
    BY <1>0, <1>2, <1>4, <2>1 DEF TablesAreOrdered
<1>9. StaleIsOverruled'
  <2> SUFFICES ASSUME NEW f \in DOMAIN live, NEW q \in live'[f], NEW h \in hist', Overrules(h, q)
               PROVE  \E g \in DOMAIN live' : Outlives(g, f)' /\ \E s \in live'[g] : Overrules(s, q)
    BY <1>3 DEF StaleIsOverruled, Overrules
  <2>1. CASE h = r
    BY <1>2, <1>3, <2>1 DEF Outlives
  <2>2. CASE h # r
    <3>1. h \in hist /\ h.seq <= Writes /\ h.seq \in Nat
      BY <1>1, <1>5, <2>2
    <3>2. q \in live[f]
      BY <1>1, <1>3, <1>5, <3>1 DEF Overrules
    <3>3. PICK g \in DOMAIN live : Outlives(g, f) /\ \E s \in live[g] : Overrules(s, q)
      BY <1>0, <3>1, <3>2 DEF StaleIsOverruled
    <3> QED
      BY <1>2, <1>3, <3>3 DEF Outlives
  <2> QED
    BY <2>1, <2>2
<1>10. PutsAreLive'
  <2> SUFFICES ASSUME NEW h \in Promise!StateAt(hist', Writes')
               PROVE  \E f \in DOMAIN live' \ obsolete' : h \in live'[f]
    BY DEF PutsAreLive
  <2>1. CASE h = r
    BY <1>2, <1>3, <2>1
  <2>2. CASE h # r
    <3>1. h \in hist /\ h.seq <= Writes /\ h.put
          /\ \A s \in hist : s.key = h.key => s.seq <= h.seq
      BY <1>1, <1>5, <2>2, StateMember
    <3>2. h \in Promise!StateAt(hist, Writes)
      BY <3>1, StateMember
    <3> QED
      BY <1>0, <1>2, <1>3, <3>2 DEF PutsAreLive
  <2> QED
    BY <2>1, <2>2
<1> QED
  BY <1>6, <1>7, <1>8, <1>9, <1>10 DEF FilesInv
\* So does turning a log into a table.
LEMMA FlushKeepsFiles == ASSUME IInv, FilesInv, Flush PROVE FilesInv'
<1> DEFINE table == <<"ldb", nextFile>>
           log == <<"log", nextFile + 1>>
<1>0. /\ OneLog /\ NumbersAreUnique /\ LogsAreNewer /\ TablesAreOrdered
      /\ StaleIsOverruled /\ PutsAreLive /\ TypeOK /\ FilesOfHist
  BY DEF FilesInv, IInv
<1>1. /\ CurrentLog \in DOMAIN live /\ ~IsTable(CurrentLog) /\ CurrentLog \notin obsolete
      /\ obsolete \subseteq DOMAIN live
  BY <1>0, CurrentLogIsLive DEF TypeOK
<1>2. /\ \A f \in DOMAIN live : f[2] \in Nat /\ f[2] < nextFile /\ live[f] \subseteq hist
      /\ \A s \in hist : s.seq \in Nat /\ s.seq <= Writes
      /\ nextFile \in Nat
  BY Numbers
<1>3. /\ IsTable(table) /\ ~IsTable(log) /\ table # log
      /\ table[2] = nextFile /\ log[2] = nextFile + 1
      /\ table \notin DOMAIN live /\ log \notin DOMAIN live
  BY <1>2 DEF IsTable
<1>4. /\ live' = With(With(live, table, live[CurrentLog]), log, {})
      /\ obsolete' = obsolete \cup {CurrentLog} /\ hist' = hist
  BY DEF Flush
<1> HIDE DEF table, log
<1>5. /\ DOMAIN live' = DOMAIN live \cup {table, log}
      /\ live'[table] = live[CurrentLog] /\ live'[log] = {}
      /\ \A f \in DOMAIN live : live'[f] = live[f]
  BY <1>3, <1>4 DEF With
<1>6. Logs' = Logs \cup {log} /\ Logs \subseteq DOMAIN live /\ log \notin obsolete' /\ table \notin obsolete'
  BY <1>1, <1>3, <1>4, <1>5 DEF Logs
<1>7. CurrentLog' = log /\ (Logs \ obsolete)' = {log}
  <2>1. (Logs \ obsolete)' = {log}
    BY <1>0, <1>4, <1>6 DEF OneLog
  <2> QED
    BY <2>1, CurrentLogIs
<1>8. OneLog'
  <2>1. \A f \in Logs' \cap obsolete' : f[2] < log[2]
    BY <1>2, <1>3, <1>6
  <2> QED
    BY <1>7, <2>1 DEF OneLog
<1>9. NumbersAreUnique'
  BY <1>0, <1>2, <1>3, <1>5 DEF NumbersAreUnique
<1>10. LogsAreNewer'
  <2> SUFFICES ASSUME NEW f \in Logs', NEW g \in DOMAIN live', f # g,
                      f \notin obsolete' \/ g[2] < f[2],
                      NEW q \in live'[f], NEW s \in live'[g]
               PROVE  s.seq < q.seq
    BY DEF LogsAreNewer
  <2>1. f # log
    BY <1>5
  <2>2. f \in Logs /\ f \in DOMAIN live /\ f \in obsolete'
    BY <1>0, <1>4, <1>6, <2>1 DEF OneLog
  <2>3. g[2] < f[2] /\ g \in DOMAIN live
    BY <1>2, <1>3, <1>5, <2>2
  <2> QED
    BY <1>0, <1>5, <2>2, <2>3 DEF LogsAreNewer
<1>11. TablesAreOrdered'
  <2> SUFFICES ASSUME NEW f \in LiveTables', NEW g \in LiveTables', f[2] < g[2]
               PROVE  /\ g \in obsolete' => f \in obsolete'
                      /\ \A r \in live'[f], s \in live'[g] : s.key = r.key =>
                            \E t \in live'[g] : t.key = r.key /\ t.seq >= r.seq
    BY DEF TablesAreOrdered
  <2>1. f \in LiveTables /\ (g = table \/ g \in LiveTables)
    BY <1>2, <1>3, <1>5 DEF LiveTables, IsTable
  <2>2. CASE g = table
    <3>1. \A r \in live[f], s \in live[CurrentLog] : r.seq < s.seq
      BY <1>0, <1>1, <2>1 DEF LogsAreNewer, Logs, LiveTables
    <3>2. \A r \in live'[f], s \in live'[g] : r.seq \in Nat /\ s.seq \in Nat /\ r.seq < s.seq
      BY <1>1, <1>2, <1>5, <2>1, <2>2, <3>1 DEF LiveTables
    <3> QED
      BY <1>6, <2>2, <3>2
  <2>3. CASE g \in LiveTables
    BY <1>0, <1>1, <1>4, <1>5, <2>1, <2>3 DEF TablesAreOrdered, LiveTables
  <2> QED
    BY <2>1, <2>2, <2>3
<1>12. StaleIsOverruled'
  <2> SUFFICES ASSUME NEW f \in DOMAIN live', NEW q \in live'[f], NEW h \in hist, Overrules(h, q)
               PROVE  \E g \in DOMAIN live' : Outlives(g, f)' /\ \E s \in live'[g] : Overrules(s, q)
    BY <1>4 DEF StaleIsOverruled, Overrules
  <2>1. PICK e \in DOMAIN live : e = (IF f = table THEN CurrentLog ELSE f) /\ q \in live[e]
    BY <1>1, <1>5
  <2>2. PICK g \in DOMAIN live : Outlives(g, e) /\ \E s \in live[g] : Overrules(s, q)
    BY <1>0, <2>1 DEF StaleIsOverruled
  <2>3. CASE g = CurrentLog
    BY <1>5, <1>6, <2>2, <2>3 DEF Outlives
  <2>4. CASE g # CurrentLog
    <3>1. Outlives(g, f)'
      BY <1>1, <1>4, <2>1, <2>2, <2>4 DEF Outlives
    <3> QED
      BY <1>5, <2>2, <3>1
  <2> QED
    BY <2>3, <2>4
<1>13. PutsAreLive'
  <2>1. Promise!StateAt(hist', Writes') = Promise!StateAt(hist, Writes)
    BY <1>4 DEF Writes
  <2> SUFFICES ASSUME NEW h \in Promise!StateAt(hist, Writes)
               PROVE  \E f \in DOMAIN live' \ obsolete' : h \in live'[f]
    BY <2>1 DEF PutsAreLive
  <2>2. PICK f \in DOMAIN live \ obsolete : h \in live[f]
    BY <1>0 DEF PutsAreLive
  <2> QED
    BY <1>4, <1>5, <1>6, <2>2
<1> QED
  BY <1>8, <1>9, <1>10, <1>11, <1>12, <1>13 DEF FilesInv

\* So does a compaction.
LEMMA CompactKeepsFiles == ASSUME IInv, FilesInv, Compact PROVE FilesInv'
<1> DEFINE table == <<"ldb", nextFile>>
           all == UNION {live[f] : f \in CurrentTables}
           merged == Newest(all)
           kept == {r \in merged : r.put \/ r.seq = Writes}
<1>0. /\ OneLog /\ NumbersAreUnique /\ LogsAreNewer /\ TablesAreOrdered
      /\ StaleIsOverruled /\ PutsAreLive /\ TypeOK /\ FilesOfHist
  BY DEF FilesInv, IInv
<1>1. /\ live' = IF kept = {} THEN live ELSE With(live, table, kept)
      /\ obsolete' = obsolete \cup CurrentTables /\ hist' = hist
  BY DEF Compact
<1>2. /\ \A f \in DOMAIN live : f[2] \in Nat /\ f[2] < nextFile /\ live[f] \subseteq hist
      /\ \A s \in hist : s.seq \in Nat /\ s.seq <= Writes
      /\ nextFile \in Nat /\ obsolete \subseteq DOMAIN live
  BY Numbers, <1>0 DEF TypeOK
<1>3. IsTable(table) /\ table[2] = nextFile /\ table \notin DOMAIN live
  BY <1>2 DEF IsTable
<1>4. /\ \A r \in kept : r \in all /\ \A s \in all : s.key = r.key => s.seq <= r.seq
      /\ \A r \in all : (r.put /\ \A s \in all : s.key = r.key => s.seq <= r.seq) => r \in kept
  BY DEF Newest, Promise!Newest
<1>5. /\ CurrentTables = LiveTables \ obsolete /\ LiveTables \subseteq DOMAIN live
      /\ \A r \in all : \E c \in CurrentTables : r \in live[c]
      /\ \A c \in CurrentTables : live[c] \subseteq all
  BY DEF CurrentTables, LiveTables
<1> HIDE DEF table, kept, all
<1>6. /\ DOMAIN live' = DOMAIN live \cup (IF kept = {} THEN {} ELSE {table})
      /\ kept # {} => live'[table] = kept
      /\ \A f \in DOMAIN live : live'[f] = live[f]
      /\ \A f \in DOMAIN live' : f \in DOMAIN live \/ (f = table /\ live'[f] = kept)
  BY <1>1, <1>3 DEF With
<1>7. /\ Logs' = Logs /\ Logs \subseteq DOMAIN live
      /\ (Logs \ obsolete)' = Logs \ obsolete /\ table \notin obsolete'
      /\ Logs \cap CurrentTables = {}
  BY <1>1, <1>2, <1>3, <1>5, <1>6 DEF Logs, LiveTables
<1>8. OneLog'
  <2>1. CurrentLog' = CurrentLog
    BY <1>0, <1>7, CurrentLogIs DEF OneLog
  <2> QED
    BY <1>0, <1>1, <1>7, <2>1 DEF OneLog
<1>9. NumbersAreUnique'
  BY <1>0, <1>2, <1>3, <1>6 DEF NumbersAreUnique
<1>10. LogsAreNewer'
  <2> SUFFICES ASSUME NEW f \in Logs, NEW g \in DOMAIN live', f # g,
                      f \notin obsolete' \/ g[2] < f[2],
                      NEW q \in live[f], NEW s \in live'[g]
               PROVE  s.seq < q.seq
    BY <1>6, <1>7 DEF LogsAreNewer
  <2>1. CASE g \in DOMAIN live
    BY <1>0, <1>1, <1>6, <2>1 DEF LogsAreNewer
  <2>2. CASE g = table /\ live'[g] = kept
    <3>1. PICK c \in CurrentTables : s \in live[c]
      BY <1>4, <1>5, <2>2
    <3>2. f \notin obsolete /\ f # c /\ c \in DOMAIN live
      BY <1>1, <1>2, <1>3, <1>5, <1>7, <2>2
    <3> QED
      BY <1>0, <3>1, <3>2 DEF LogsAreNewer
  <2> QED
    BY <1>6, <2>1, <2>2
<1>11. TablesAreOrdered'
  <2> SUFFICES ASSUME NEW f \in LiveTables', NEW g \in LiveTables', f[2] < g[2]
               PROVE  /\ g \in obsolete' => f \in obsolete'
                      /\ \A r \in live'[f], s \in live'[g] : s.key = r.key =>
                            \E t \in live'[g] : t.key = r.key /\ t.seq >= r.seq
    BY DEF TablesAreOrdered
  <2>1. f \in LiveTables /\ f \in DOMAIN live /\ f \in obsolete' /\ live'[f] = live[f]
    BY <1>1, <1>2, <1>3, <1>5, <1>6 DEF LiveTables
  <2>2. CASE g \in DOMAIN live
    BY <1>0, <1>6, <2>1, <2>2 DEF TablesAreOrdered, LiveTables, IsTable
  <2>3. CASE g = table /\ live'[g] = kept
    <3> SUFFICES ASSUME NEW r \in live[f], NEW s \in kept, s.key = r.key
                 PROVE  s.seq >= r.seq
      BY <2>1, <2>3
    <3>1. r.seq \in Nat /\ s.seq \in Nat /\ s \in all
      BY <1>2, <1>4, <1>5, <2>1
    <3>2. CASE f \in CurrentTables
      BY <1>4, <1>5, <3>1, <3>2
    <3>3. CASE f \in obsolete
      <4>1. PICK c \in CurrentTables : s \in live[c]
        BY <1>5, <3>1
      <4>2. c \in LiveTables /\ c # f /\ c \notin obsolete /\ c[2] \in Nat /\ f[2] \in Nat
        BY <1>2, <1>5, <2>1, <3>3
      <4>3. f[2] < c[2]
        BY <1>0, <1>5, <2>1, <3>3, <4>2 DEF TablesAreOrdered, NumbersAreUnique
      <4>4. PICK t \in live[c] : t.key = r.key /\ t.seq >= r.seq
        BY <1>0, <2>1, <4>1, <4>2, <4>3 DEF TablesAreOrdered
      <4>5. t \in all /\ t.seq <= s.seq /\ t.seq \in Nat
        BY <1>2, <1>4, <1>5, <4>2, <4>4
      <4> QED
        BY <3>1, <4>4, <4>5
    <3> QED
      BY <1>5, <2>1, <3>2, <3>3
  <2> QED
    BY <1>6, <1>7, <2>1, <2>2, <2>3 DEF LiveTables
<1>12. StaleIsOverruled'
  <2> SUFFICES ASSUME NEW f \in DOMAIN live', NEW q \in live'[f], NEW h \in hist, Overrules(h, q)
               PROVE  \E g \in DOMAIN live' : Outlives(g, f)' /\ \E s \in live'[g] : Overrules(s, q)
    BY <1>1 DEF StaleIsOverruled, Overrules
  <2>1. CASE f \in DOMAIN live
    <3>1. q \in live[f] /\ q.seq \in Nat
      BY <1>2, <1>6, <2>1
    <3>2. PICK g \in DOMAIN live, s \in hist : Outlives(g, f) /\ s \in live[g] /\ Overrules(s, q)
      BY <1>0, <1>2, <2>1, <3>1 DEF StaleIsOverruled
    <3>3. CASE g \notin CurrentTables
      BY <1>1, <1>6, <3>2, <3>3 DEF Outlives
    <3>4. CASE g \in CurrentTables /\ f \in Logs
      <4>1. f # g /\ ~(f \notin obsolete \/ g[2] < f[2])
        BY <1>0, <1>7, <1>2, <3>1, <3>2, <3>4 DEF LogsAreNewer, Overrules
      <4>2. f \in obsolete' /\ f[2] <= g[2]
        BY <1>1, <1>2, <2>1, <4>1
      <4> QED
        BY <1>6, <3>2, <4>2 DEF Outlives
    <3>5. CASE g \in CurrentTables /\ f \in LiveTables
      <4>1. f \in obsolete' /\ g \in LiveTables
        BY <1>1, <1>5, <3>5
      <4>2. CASE f[2] <= g[2]
        BY <1>6, <3>2, <4>1, <4>2 DEF Outlives
      <4>3. CASE ~(f[2] <= g[2])
        <5>1. g[2] < f[2] /\ f[2] <= f[2]
          BY <1>2, <2>1, <4>3
        <5>2. PICK t \in live[f] : t.key = s.key /\ t.seq >= s.seq
          BY <1>0, <3>1, <3>2, <3>5, <4>1, <5>1 DEF TablesAreOrdered, Overrules
        <5>3. Overrules(t, q)
          BY <1>2, <2>1, <3>1, <3>2, <5>2 DEF Overrules
        <5> QED
          BY <1>6, <2>1, <4>1, <5>1, <5>2, <5>3 DEF Outlives
      <4> QED
        BY <4>2, <4>3
    <3> QED
      BY <2>1, <3>3, <3>4, <3>5 DEF Logs, LiveTables
  <2>2. CASE f = table /\ live'[f] = kept
    <3>1. PICK c \in CurrentTables : q \in live[c]
      BY <1>4, <1>5, <2>2
    <3>2. c \in DOMAIN live /\ c \notin obsolete
      BY <1>5
    <3>3. PICK g \in DOMAIN live, s \in hist : Outlives(g, c) /\ s \in live[g] /\ Overrules(s, q)
      BY <1>0, <1>2, <3>1, <3>2 DEF StaleIsOverruled
    <3>4. g \notin CurrentTables
      BY <1>2, <1>4, <1>5, <2>2, <3>1, <3>2, <3>3 DEF Overrules
    <3> QED
      BY <1>1, <1>6, <3>2, <3>3, <3>4 DEF Outlives
  <2> QED
    BY <1>6, <2>1, <2>2
<1>13. PutsAreLive'
  <2>1. Promise!StateAt(hist', Writes') = Promise!StateAt(hist, Writes)
    BY <1>1 DEF Writes
  <2> SUFFICES ASSUME NEW h \in Promise!StateAt(hist, Writes)
               PROVE  \E f \in DOMAIN live' \ obsolete' : h \in live'[f]
    BY <2>1 DEF PutsAreLive
  <2>2. PICK f \in DOMAIN live \ obsolete : h \in live[f]
    BY <1>0 DEF PutsAreLive
  <2>3. CASE f \in CurrentTables
    <3>1. h.put /\ h \in all /\ \A s \in all : s.key = h.key => s.seq <= h.seq
      BY <1>2, <1>5, <2>2, <2>3, StateMember
    <3>2. h \in kept
      BY <1>4, <3>1
    <3> QED
      BY <1>6, <1>7, <3>2
  <2>4. CASE f \notin CurrentTables
    BY <1>1, <1>6, <2>2, <2>4
  <2> QED
    BY <2>3, <2>4
<1> QED
  BY <1>8, <1>9, <1>10, <1>11, <1>12, <1>13 DEF FilesInv

\* This is where the order of removal is needed.
LEMMA UnlinkKeepsFiles ==
    ASSUME IInv, FilesInv, OldestFirst, NEW x \in File, Unlink(x)
    PROVE  FilesInv'
<1>0. /\ OneLog /\ NumbersAreUnique /\ LogsAreNewer /\ TablesAreOrdered
      /\ StaleIsOverruled /\ PutsAreLive /\ TypeOK
  BY DEF FilesInv, IInv
<1>1. /\ x \in obsolete /\ obsolete' = obsolete \ {x} /\ hist' = hist
      /\ DOMAIN live' = DOMAIN live \ {x}
      /\ \A f \in DOMAIN live' : live'[f] = live[f]
      /\ \A f \in obsolete : x[2] <= f[2]
  BY DEF Unlink, Without
<1>2. /\ Logs' \subseteq Logs /\ (Logs \ obsolete)' = Logs \ obsolete
      /\ LiveTables' \subseteq LiveTables /\ Logs' \subseteq DOMAIN live'
      /\ LiveTables' \subseteq DOMAIN live'
  BY <1>1 DEF Logs, LiveTables
<1>3. \A f \in DOMAIN live : f[2] \in Nat
  BY Numbers
<1>4. OneLog'
  <2>1. CurrentLog' = CurrentLog
    BY <1>0, <1>2, CurrentLogIs DEF OneLog
  <2> QED
    BY <1>0, <1>1, <1>2, <2>1 DEF OneLog
<1>5. NumbersAreUnique' /\ LogsAreNewer' /\ TablesAreOrdered'
  <2>1. NumbersAreUnique'
    BY <1>0, <1>1 DEF NumbersAreUnique
  <2>2. LogsAreNewer'
    BY <1>0, <1>1, <1>2 DEF LogsAreNewer
  <2>3. TablesAreOrdered'
    BY <1>0, <1>1, <1>2 DEF TablesAreOrdered
  <2> QED
    BY <2>1, <2>2, <2>3
<1>6. StaleIsOverruled'
  <2> SUFFICES ASSUME NEW f \in DOMAIN live', NEW q \in live'[f], NEW h \in hist, Overrules(h, q)
               PROVE  \E g \in DOMAIN live' : Outlives(g, f)' /\ \E s \in live'[g] : Overrules(s, q)
    BY <1>1 DEF StaleIsOverruled, Overrules
  <2>1. f \in DOMAIN live /\ f # x /\ q \in live[f]
    BY <1>1
  <2>2. PICK g \in DOMAIN live : Outlives(g, f) /\ \E s \in live[g] : Overrules(s, q)
    BY <1>0, <2>1 DEF StaleIsOverruled
  <2>3. g # x
    BY <1>0, <1>1, <1>3, <2>1, <2>2 DEF Outlives, NumbersAreUnique, TypeOK
  <2> QED
    BY <1>1, <2>1, <2>2, <2>3 DEF Outlives
<1>7. PutsAreLive'
  <2>1. Promise!StateAt(hist', Writes') = Promise!StateAt(hist, Writes)
    BY <1>1 DEF Writes
  <2> QED
    BY <1>0, <1>1, <2>1 DEF PutsAreLive
<1> QED
  BY <1>4, <1>5, <1>6, <1>7 DEF FilesInv

\* So does every step of Teams, if the oldest files go first.
LEMMA TeamsKeepsFiles == ASSUME IInv, FilesInv, OldestFirst, TeamsStep PROVE FilesInv'
  BY WriteKeepsFiles, FlushKeepsFiles, CompactKeepsFiles, UnlinkKeepsFiles DEF TeamsStep
-----------------------------------------------------------------------------
(* What Teams does while files are copied.                                 *)

\* What was written stays, and so do the states it went through.
LEMMA PastStays ==
    ASSUME IInv, TeamsStep
    PROVE  /\ hist \subseteq hist' /\ Writes' \in Nat /\ Writes <= Writes'
           /\ \A n \in Nat : n <= Writes => Promise!StateAt(hist', n) = Promise!StateAt(hist, n)
<1>1. CASE hist' = hist
  BY <1>1, Numbers DEF Writes
<1>2. CASE \E k \in Key, p \in BOOLEAN : Write(k, p)
  <2>1. PICK k \in Key, p \in BOOLEAN : Write(k, p)
    BY <1>2
  <2>2. PICK r : /\ r = [key |-> k, seq |-> Writes + 1, put |-> p]
                 /\ hist' = hist \cup {r} /\ Writes' = Writes + 1
    BY <2>1, WriteIsNewest DEF IInv
  <2>3. r.seq = Writes + 1 /\ Writes \in Nat
    BY <2>2, Numbers
  <2>4. ASSUME NEW n \in Nat, n <= Writes
        PROVE  Promise!StateAt(hist', n) = Promise!StateAt(hist, n)
    <3>1. ~(r.seq <= n)
      BY <2>3, <2>4
    <3>2. {q \in hist' : q.seq <= n} = {q \in hist : q.seq <= n}
      BY <2>2, <3>1
    <3> QED
      BY <3>2 DEF Promise!StateAt
  <2> QED
    BY <2>2, <2>3, <2>4
<1>3. CASE Flush \/ Compact \/ \E f \in File : Unlink(f)
  BY <1>1, <1>3 DEF Flush, Compact, Unlink
<1> QED
  BY <1>2, <1>3 DEF TeamsStep

\* A new record goes to the current log: the copy moves on with it if that log
\* is still to be copied, and stays where it is if not.
LEMMA WriteKeepsCopy ==
    ASSUME PInv, NEW k \in Key, NEW p \in BOOLEAN, Write(k, p)
    PROVE  CopyIsOneState'
<1>0. IInv /\ FilesInv /\ TypeOK /\ HistNumbered /\ FilesOfHist /\ CopiesLag /\ DirsInUse
  BY DEF PInv, IInv
<1>1. PICK r : /\ r = [key |-> k, seq |-> Writes + 1, put |-> p] /\ r \notin hist
               /\ hist' = hist \cup {r} /\ live' = [live EXCEPT ![CurrentLog] = @ \cup {r}]
               /\ Writes' = Writes + 1
  BY <1>0, WriteIsNewest
<1>2. r.seq = Writes + 1
  BY <1>1
<1>3. UNCHANGED <<obsolete, pc, lossy, todo, began, dest, dirs>>
  BY DEF Write, sessionVars, files, run
<1>4. CurrentLog \in DOMAIN live
  BY <1>0, CurrentLogIsLive
<1>5. /\ DOMAIN live' = DOMAIN live
      /\ \A f \in DOMAIN live : live'[f] = IF f = CurrentLog THEN live[f] \cup {r} ELSE live[f]
  BY <1>1, <1>4
<1>6. CurrentLog' = CurrentLog
  BY <1>3, <1>5 DEF CurrentLog, Logs
<1> SUFFICES ASSUME pc = "copy", ~lossy, todo \subseteq DOMAIN live
             PROVE  \E n \in began..Writes' :
                       IsStateOf(InTheEnd, n)' /\ (CurrentLog \in todo => n = Writes')
  BY <1>3, <1>5, <1>6 DEF CopyIsOneState
<1>7. PICK n \in began..Writes : IsStateOf(InTheEnd, n) /\ (CurrentLog \in todo => n = Writes)
  BY DEF PInv, CopyIsOneState
<1>8. /\ Writes \in Nat /\ began \in Nat
      /\ \A s \in hist : s.seq \in Nat /\ s.seq <= Writes
  BY <1>0, Numbers, Bounds DEF TypeOK
<1>9. InTheEnd \subseteq hist
  <2>1. dest \in DOMAIN dirs
    BY <1>0 DEF DirsInUse, TypeOK
  <2>2. Contents(dirs[dest]) \subseteq hist
    BY <1>0, <2>1 DEF CopiesLag, Contents
  <2>3. \A f \in todo : live[f] \subseteq hist
    BY <1>0 DEF FilesOfHist
  <2> QED
    BY <2>2, <2>3 DEF InTheEnd
<1>10. CASE CurrentLog \in todo
  <2>1. InTheEnd' = InTheEnd \cup {r}
    BY <1>3, <1>5, <1>10 DEF InTheEnd
  <2>2. \A q : q \in Puts(Newest(InTheEnd \cup {r})) <=> q \in Promise!StateAt(hist', Writes + 1)
    <3> TAKE q
    <3>1. q \in Puts(Newest(InTheEnd)) <=> q \in Promise!StateAt(hist, Writes)
      BY <1>7, <1>10 DEF IsStateOf
    <3>2. q \in Puts(Newest(InTheEnd \cup {r})) <=>
             /\ q \in InTheEnd \cup {r} /\ q.put
             /\ \A s \in InTheEnd \cup {r} : s.key = q.key => s.seq <= q.seq
      BY LivePutMember
    <3>3. q \in Promise!StateAt(hist', Writes + 1) <=>
             /\ q \in hist' /\ q.put
             /\ \A s \in hist' : s.key = q.key => s.seq <= q.seq
      <4>1. \A s \in hist' : s.seq <= Writes + 1
        BY <1>1, <1>2, <1>8
      <4> QED
        BY <4>1, StateMember
    <3>4. CASE q = r
      <4>1. \A s \in hist' : s.seq <= q.seq
        BY <1>1, <1>2, <1>8, <3>4
      <4>2. q \in hist' /\ InTheEnd \cup {r} \subseteq hist'
        BY <1>1, <1>9, <3>4
      <4> QED
        BY <3>4, <3>2, <3>3, <4>1, <4>2
    <3>5. CASE q # r /\ q.key = r.key
      <4>1. q \in hist => ~(r.seq <= q.seq)
        BY <1>2, <1>8
      <4>2. r \in hist' /\ (q \in hist' <=> q \in hist)
        BY <1>1, <3>5
      <4> QED
        BY <1>9, <3>5, <3>2, <3>3, <4>1, <4>2
    <3>6. CASE q # r /\ q.key # r.key
      <4>1. q \in Puts(Newest(InTheEnd \cup {r})) <=> q \in Puts(Newest(InTheEnd))
        BY <3>6, LivePutMember
      <4>2. q \in Promise!StateAt(hist', Writes + 1) <=> q \in Promise!StateAt(hist, Writes)
        BY <1>1, <1>8, <3>6, StateMember
      <4> QED
        BY <3>1, <4>1, <4>2
    <3> QED
      BY <3>4, <3>5, <3>6
  <2>3. /\ \A q \in InTheEnd \cup {r} : q.seq <= Writes + 1
        /\ \E q \in InTheEnd \cup {r} : q.seq = Writes + 1
    BY <1>2, <1>8, <1>9
  <2>4. PICK m \in Nat : m = Writes + 1
    BY <1>8
  <2>5. IsStateOf(InTheEnd, m)'
    BY <1>1, <2>1, <2>2, <2>3, <2>4 DEF IsStateOf, Puts, Newest, Promise!Puts, Promise!Newest
  <2> QED
    BY <1>1, <1>7, <1>8, <2>4, <2>5
<1>11. CASE CurrentLog \notin todo
  <2>1. InTheEnd' = InTheEnd
    BY <1>3, <1>5, <1>11 DEF InTheEnd
  <2>2. Promise!StateAt(hist', n) = Promise!StateAt(hist, n)
    <3>1. TeamsStep
      BY DEF TeamsStep
    <3> QED
      BY <1>0, <1>7, <1>8, <3>1, PastStays
  <2>3. IsStateOf(InTheEnd, n)'
    BY <1>7, <2>1, <2>2 DEF IsStateOf, Puts, Newest, Promise!Puts, Promise!Newest
  <2> QED
    BY <1>1, <1>7, <1>8, <1>11, <2>3
<1> QED
  BY <1>10, <1>11

\* Whatever else LevelDB does, a listed file stays as it is or goes, and a new
\* log is not listed.
LEMMA UpkeepKeepsCopy ==
    ASSUME PInv, FilesInv', Flush \/ Compact \/ \E f \in File : Unlink(f)
    PROVE  CopyIsOneState'
<1>0. IInv /\ FilesInv /\ CopiesLag
  BY DEF PInv, IInv
<1>1. UNCHANGED <<hist, pc, lossy, todo, began, dest, dirs>>
  BY DEF Flush, Compact, Unlink, sessionVars, files, run
<1>2. FilesGrowOrGo
  BY <1>0, FlushInv, CompactInv, UnlinkInv DEF LevelDBInv
<1>3. \A f \in todo : f \in DOMAIN live' => f \in DOMAIN live
  BY <1>0, <1>2 DEF CopiesLag, FilesGrowOrGo
<1>4. \A f \in DOMAIN live : f \in DOMAIN live' => live'[f] = live[f]
  <2>1. \A f \in DOMAIN live : f # <<"ldb", nextFile>> /\ f # <<"log", nextFile + 1>>
    BY <1>0, Numbers
  <2>2. CASE Flush
    BY <2>1, <2>2 DEF Flush, With
  <2>3. CASE Compact
    BY <2>1, <2>3 DEF Compact, With
  <2>4. CASE \E f \in File : Unlink(f)
    BY <2>4 DEF Unlink, Without
  <2> QED
    BY <2>2, <2>3, <2>4
<1>5. CurrentLog' \in todo => CurrentLog' = CurrentLog
  <2> SUFFICES ASSUME CurrentLog' \in todo
               PROVE  CurrentLog' = CurrentLog
    OBVIOUS
  <2>1. CurrentLog' \in (Logs \ obsolete)'
    BY DEF FilesInv, OneLog
  <2>2. CurrentLog' \in Logs
    BY <1>3, <2>1 DEF Logs
  <2>3. CurrentLog' \notin obsolete
    <3>1. CASE Flush \/ Compact
      BY <2>1, <3>1 DEF Flush, Compact
    <3>2. CASE \E f \in File : Unlink(f)
      BY <2>1, <3>2 DEF Unlink, Without, Logs
    <3> QED
      BY <3>1, <3>2
  <2> QED
    BY <1>0, <2>2, <2>3 DEF FilesInv, OneLog
<1> SUFFICES ASSUME pc = "copy", ~lossy, todo \subseteq DOMAIN live'
             PROVE  \E n \in began..Writes' :
                       IsStateOf(InTheEnd, n)' /\ (CurrentLog' \in todo => n = Writes')
  BY <1>1 DEF CopyIsOneState
<1>6. PICK n \in began..Writes : IsStateOf(InTheEnd, n) /\ (CurrentLog \in todo => n = Writes)
  BY <1>3 DEF PInv, CopyIsOneState
<1>7. InTheEnd' = InTheEnd /\ Writes' = Writes
  BY <1>1, <1>3, <1>4 DEF InTheEnd, Writes
<1>8. IsStateOf(InTheEnd, n)'
  BY <1>1, <1>6, <1>7 DEF IsStateOf, Puts, Newest, Promise!Puts, Promise!Newest
<1> QED
  BY <1>5, <1>6, <1>7, <1>8

\* A step of Teams keeps the whole invariant.
LEMMA TeamsStepKeepsPInv ==
    ASSUME PInv, OldestFirst, TeamsStep
    PROVE  PInv'
<1>0. IInv /\ FilesInv /\ StoreIsOneState /\ TypeOK
  BY DEF PInv, IInv
<1>1. IInv' /\ FilesInv'
  BY <1>0, TeamsStepInv, TeamsKeepsFiles
<1>2. CopyIsOneState'
  BY <1>1, WriteKeepsCopy, UpkeepKeepsCopy DEF TeamsStep
<1>3. StoreIsOneState'
  <2>1. UNCHANGED <<watermark, asOf, pc, began, served, grade, store>>
    BY DEF TeamsStep, Write, Flush, Compact, Unlink, sessionVars, cur, run
  <2>2. /\ asOf \in Nat /\ asOf <= Writes /\ Writes \in Nat
        /\ hist \subseteq hist' /\ Writes' \in Nat /\ Writes <= Writes'
        /\ Promise!StateAt(hist', asOf) = Promise!StateAt(hist, asOf)
    BY <1>0, PastStays, Numbers, Bounds DEF StoreIsOneState, TypeOK
  <2>3. Puts(hist) \subseteq Puts(hist)'
    BY <2>2 DEF Puts, Promise!Puts
  <2> QED
    BY <1>0, <2>1, <2>2, <2>3 DEF StoreIsOneState
<1>4. CopyIsNotOlder'
  BY DEF PInv, CopyIsNotOlder, TeamsStep, Write, Flush, Compact, Unlink, sessionVars, cur, run
<1> QED
  BY <1>1, <1>2, <1>3, <1>4 DEF PInv
-----------------------------------------------------------------------------
(* What the session does with it.                                          *)

\* A step of the session as ServedState sees it.
PromisedStep ==
    UNCHANGED <<hist, grade, asOf, store>> \/ Promise!Refresh \/ Promise!RefreshPartially

\* What such a step establishes.
Promised == StoreIsOneState' /\ PromisedStep

\* The session does not touch the files of Teams.
LEMMA SessionKeepsFiles == ASSUME FilesInv, UNCHANGED leveldb PROVE FilesInv'
<1>1. UNCHANGED <<hist, live, obsolete>>
  BY DEF leveldb
<1>2. UNCHANGED <<Logs, LiveTables, CurrentLog, Writes>>
  BY <1>1 DEF Logs, LiveTables, CurrentLog, Writes
<1>3. OneLog' /\ NumbersAreUnique' /\ LogsAreNewer' /\ TablesAreOrdered'
  BY <1>1, <1>2 DEF FilesInv, OneLog, NumbersAreUnique, LogsAreNewer, TablesAreOrdered
<1>4. StaleIsOverruled' /\ PutsAreLive'
  BY <1>1, <1>2 DEF FilesInv, StaleIsOverruled, PutsAreLive, Outlives
<1> QED
  BY <1>3, <1>4 DEF FilesInv

\* A step that keeps the store keeps the promise.
LEMMA StoreKept ==
    ASSUME PInv, UNCHANGED leveldb, UNCHANGED cur
    PROVE  Promised
<1>1. UNCHANGED <<hist, served, store, watermark, grade, asOf>>
  BY DEF leveldb, cur
<1>2. StoreIsOneState'
  BY <1>1 DEF PInv, StoreIsOneState, Writes, Puts, Promise!Puts
<1> QED
  BY <1>1, <1>2 DEF Promised, PromisedStep

\* A listing is a state: the one now.
LEMMA ListingIsOneState ==
    ASSUME PInv, UNCHANGED leveldb,
           \/ (pc = "copy" => reuse) /\ \E b \in BOOLEAN : StartSnapshot(b)
           \/ pc = "idle" /\ snapshotDir # NoDir /\ StartMirror
    PROVE  CopyIsOneState' /\ began' = Writes
<1>0. IInv /\ FilesInv
  BY DEF PInv
<1>1. /\ UNCHANGED <<hist, live, nextFile, Writes>>
      /\ todo' = DOMAIN live /\ began' = Writes
  BY DEF leveldb, Writes, StartSnapshot, StartMirror
<1>2. \A f \in DOMAIN dirs'[dest'] : f \in DOMAIN live /\ dirs'[dest'][f] \subseteq live[f]
  <2>1. CASE \E b \in BOOLEAN : StartSnapshot(b)
    BY <2>1 DEF StartSnapshot, With
  <2>2. CASE pc = "idle" /\ snapshotDir # NoDir /\ StartMirror
    <3>1. CopiesLag'
      BY <1>0, <2>2, MirrorStarts DEF RunInv
    <3>2. DOMAIN dirs = {snapshotDir}
      BY <1>0, <2>2 DEF IInv, DirsInUse
    <3>3. dest' \in DOMAIN dirs' /\ DOMAIN dirs'[dest'] \subseteq DOMAIN live
      BY <2>2, <3>2 DEF StartMirror, Without
    <3> QED
      BY <1>1, <3>1, <3>3 DEF CopiesLag
  <2> QED
    BY <2>1, <2>2
<1>3. InTheEnd' = Contents(live)
  <2>1. Contents(dirs'[dest']) \subseteq Contents(live)
    BY <1>2 DEF Contents
  <2> QED
    BY <1>1, <2>1 DEF InTheEnd, Contents
<1>4. PICK n \in Nat : n = Writes
  BY <1>0, Numbers
<1>5. IsStateOf(InTheEnd, n)'
  <2>1. IsStateOf(Contents(live), n)
    BY <1>0, <1>4, LiveIsState
  <2> QED
    BY <1>1, <1>3, <2>1 DEF IsStateOf, Puts, Newest, Promise!Puts, Promise!Newest
<1> QED
  BY <1>1, <1>4, <1>5 DEF CopyIsOneState

\* Copying a file, or failing to, keeps what is known of the copy.
LEMMA CopyKeepsCopy ==
    ASSUME PInv, NEW f \in File, Copy(f) \/ CopyLost(f)
    PROVE  CopyIsOneState' /\ CopyIsNotOlder'
<1>0. IInv /\ FilesInv /\ CopiesLag /\ DirsInUse /\ TypeOK
  BY DEF PInv, IInv
<1>1. /\ pc = "copy" /\ f \in todo /\ todo' = todo \ {f}
      /\ UNCHANGED <<hist, live, obsolete, asOf, pc, dest, began>>
  BY DEF Copy, CopyLost, IsNext, leveldb, cur
<1>2. CopyIsNotOlder'
  BY <1>1 DEF PInv, CopyIsNotOlder
<1>3. dest \in DOMAIN dirs
  BY <1>0, <1>1 DEF DirsInUse, TypeOK
<1>4. CASE CopyLost(f)
  BY <1>2, <1>4 DEF CopyLost, CopyIsOneState
<1>5. CASE Copy(f)
  <2>1. f \in DOMAIN live /\ lossy' = lossy
    BY <1>5 DEF Copy
  <2>2. /\ DOMAIN dirs'[dest] = DOMAIN dirs[dest] \cup {f}
        /\ dirs'[dest][f] = live[f]
        /\ \A g \in DOMAIN dirs[dest] : g # f => dirs'[dest][g] = dirs[dest][g]
        /\ f \in DOMAIN dirs[dest] => dirs[dest][f] \subseteq live[f]
    <3>1. CASE Present(f)
      BY <1>0, <1>3, <1>5, <2>1, <3>1 DEF Copy, Present, CopiesLag
    <3>2. CASE ~Present(f)
      BY <1>0, <1>3, <1>5, <2>1, <3>2 DEF Copy, With, CopiesLag
    <3> QED
      BY <3>1, <3>2
  <2>3. InTheEnd' = InTheEnd
    <3>1. Contents(dirs'[dest]) \cup UNION {live[g] : g \in todo \ {f}}
            = Contents(dirs[dest]) \cup UNION {live[g] : g \in todo}
      <4>1. \A r : r \in Contents(dirs'[dest]) => r \in Contents(dirs[dest]) \/ r \in live[f]
        BY <2>2 DEF Contents
      <4>2. \A r : r \in Contents(dirs[dest]) => r \in Contents(dirs'[dest])
        <5> TAKE r
        <5> HAVE r \in Contents(dirs[dest])
        <5>1. PICK g \in DOMAIN dirs[dest] : r \in dirs[dest][g]
          BY DEF Contents
        <5>2. g \in DOMAIN dirs'[dest] /\ r \in dirs'[dest][g]
          BY <2>2, <5>1
        <5> QED
          BY <5>2 DEF Contents
      <4>3. \A r \in live[f] : r \in Contents(dirs'[dest])
        BY <2>2 DEF Contents
      <4> QED
        BY <1>1, <4>1, <4>2, <4>3
    <3> QED
      BY <1>1, <3>1 DEF InTheEnd
  <2>4. CurrentLog' = CurrentLog /\ Writes' = Writes
    BY <1>1 DEF CurrentLog, Logs, Writes
  <2> SUFFICES ASSUME ~lossy, todo' \subseteq DOMAIN live
               PROVE  \E n \in began..Writes :
                         IsStateOf(InTheEnd, n)' /\ (CurrentLog \in todo' => n = Writes)
    BY <1>1, <1>2, <2>1, <2>4 DEF CopyIsOneState
  <2>5. PICK n \in began..Writes : IsStateOf(InTheEnd, n) /\ (CurrentLog \in todo => n = Writes)
    BY <1>1, <2>1 DEF PInv, CopyIsOneState
  <2>6. IsStateOf(InTheEnd, n)'
    BY <1>1, <2>3, <2>5 DEF IsStateOf, Puts, Newest, Promise!Puts, Promise!Newest
  <2> QED
    BY <1>1, <2>5, <2>6
<1> QED
  BY <1>4, <1>5

\* What was copied without loss is one state, and an apply makes the store it.
LEMMA SeenIsOneState ==
    ASSUME PInv, Copied, ~lossy
    PROVE  /\ MaxSeq(Seen) \in Nat /\ asOf \in Nat /\ watermark \in Nat
           /\ asOf <= MaxSeq(Seen) /\ MaxSeq(Seen) <= Writes
           /\ Puts(Newest(Seen)) = Promise!StateAt(hist, MaxSeq(Seen))
           /\ grade = "whole" => Applied = Promise!StateAt(hist, MaxSeq(Seen))
<1>0. IInv /\ TypeOK /\ CopyIsOneState /\ CopyIsNotOlder /\ StoreIsOneState
  BY DEF PInv, IInv
<1>1. InTheEnd = Seen /\ todo \subseteq DOMAIN live /\ pc = "copy"
  BY DEF Copied, InTheEnd, Seen
<1>2. PICK n \in began..Writes : IsStateOf(Seen, n)
  BY <1>0, <1>1 DEF CopyIsOneState
<1>3. /\ asOf \in Nat /\ watermark \in Nat /\ began \in Nat /\ Writes \in Nat /\ n \in Nat
      /\ asOf <= began /\ watermark <= asOf
      /\ \A r \in hist : r.seq \in Nat
  BY <1>0, <1>1, <1>2, Numbers, Bounds DEF TypeOK, CopyIsNotOlder, StoreIsOneState
<1>4. MaxSeq(Seen) = n
  <2>1. /\ Seen \in SUBSET Record /\ MaxSeq(Seen) \in 0..MaxWrites
    BY <1>0, SeenIsFresh
  <2>2. /\ \A r \in Seen : r.seq <= MaxSeq(Seen)
        /\ Seen # {} => \E r \in Seen : r.seq = MaxSeq(Seen)
    BY <2>1, MaxSeqIsMax
  <2>3. PICK r \in Seen : r.seq = n
    BY <1>2 DEF IsStateOf
  <2>4. PICK q \in Seen : q.seq = MaxSeq(Seen)
    BY <2>2, <2>3
  <2>5. n <= MaxSeq(Seen) /\ MaxSeq(Seen) <= n
    BY <1>2, <2>2, <2>3, <2>4 DEF IsStateOf
  <2> QED
    BY <1>3, <2>1, <2>5, Bounds
<1>5. Puts(Newest(Seen)) = Promise!StateAt(hist, n)
  BY <1>2 DEF IsStateOf
<1>6. ASSUME grade = "whole"
      PROVE  Applied = Promise!StateAt(hist, n)
  <2>1. store = Promise!StateAt(hist, asOf)
    BY <1>0, <1>6 DEF StoreIsOneState
  <2>2. CASE n = watermark
    <3>1. asOf = n
      BY <1>2, <1>3, <2>2
    <3> QED
      BY <1>4, <2>1, <2>2, <3>1 DEF Applied
  <2>3. CASE n # watermark
    <3>1. Applied = (store \cap Promise!StateAt(hist, n))
                      \cup {r \in Promise!StateAt(hist, n) : r.seq > watermark}
      BY <1>4, <1>5, <2>3 DEF Applied
    <3>2. ASSUME NEW r \in Promise!StateAt(hist, n), ~(r.seq > watermark)
          PROVE  r \in store
      <4>1. /\ r \in hist /\ r.put
            /\ \A s \in hist : (s.seq <= n /\ s.key = r.key) => s.seq <= r.seq
        BY <3>2, StateMember
      <4>2. r.seq <= asOf /\ \A s \in hist : s.seq <= asOf => s.seq <= n
        BY <1>2, <1>3, <3>2, <4>1
      <4> QED
        BY <2>1, <4>1, <4>2, StateMember
    <3> QED
      BY <3>1, <3>2
  <2> QED
    BY <2>2, <2>3
<1> QED
  BY <1>2, <1>3, <1>4, <1>5, <1>6

\* The store after an apply, torn or not, or after a full build.
LEMMA AppliedIsPromised ==
    ASSUME PInv, Copied, ~lossy, UNCHANGED leveldb,
           \/ Build(Seen, TRUE)
           \/ served /\ (ApplyInPlace \/ ApplyFails)
    PROVE  Promised /\ asOf' <= Writes
<1> DEFINE n == MaxSeq(Seen)
<1>0. IInv /\ TypeOK /\ CopiesLag /\ StoreIsOneState
  BY DEF PInv, IInv
<1>1. /\ n \in Nat /\ asOf \in Nat /\ watermark \in Nat /\ Writes \in Nat
      /\ asOf <= n /\ n <= Writes
      /\ Puts(Newest(Seen)) = Promise!StateAt(hist, n)
      /\ grade = "whole" => Applied = Promise!StateAt(hist, n)
  BY <1>0, SeenIsOneState, Numbers
<1>2. hist' = hist /\ Writes' = Writes /\ Puts(hist)' = Puts(hist)
  BY DEF leveldb, Writes, Puts, Promise!Puts
<1>3. Promise!StateAt(hist, n) \subseteq Puts(hist)
  BY StateMember DEF Puts, Promise!Puts
<1>4. Applied \subseteq Puts(hist)
  BY <1>0, <1>1, <1>3 DEF Applied, StoreIsOneState
<1> HIDE DEF n
<1>5. CASE UNCHANGED cur
  BY <1>0, <1>5, StoreKept, Numbers DEF cur, StoreIsOneState
<1>6. CASE Build(Seen, TRUE)
  <2>1. /\ served' = TRUE /\ store' = Promise!StateAt(hist, n)
        /\ watermark' = n /\ asOf' = n /\ grade' = "whole"
    BY <1>1, <1>6 DEF Build, n
  <2>2. StoreIsOneState'
    BY <1>1, <1>2, <1>3, <2>1 DEF StoreIsOneState
  <2>3. Promise!Refresh
    BY <1>1, <1>2, <2>1, CountsAgree DEF Promise!Refresh
  <2> QED
    BY <1>1, <2>1, <2>2, <2>3 DEF Promised, PromisedStep
<1>7. CASE /\ served /\ served' = served /\ grade' = grade
           /\ store' = Applied /\ asOf' = n /\ watermark' \in {watermark, n}
  <2>1. StoreIsOneState'
    <3>1. watermark' <= asOf' /\ asOf' <= Writes'
      BY <1>0, <1>1, <1>2, <1>7 DEF StoreIsOneState
    <3>2. served' /\ grade' \in {"partial", "whole"} /\ store' \subseteq Puts(hist)'
      BY <1>0, <1>2, <1>4, <1>7 DEF StoreIsOneState
    <3>3. grade' = "whole" => store' = Promise!StateAt(hist', asOf')
      BY <1>1, <1>2, <1>7
    <3> QED
      BY <3>1, <3>2, <3>3 DEF StoreIsOneState
  <2>2. grade = "whole" => Promise!Refresh
    BY <1>1, <1>2, <1>7, CountsAgree DEF Promise!Refresh
  <2>3. grade = "partial" => Promise!RefreshPartially
    BY <1>1, <1>2, <1>4, <1>7, CountsAgree DEF Promise!RefreshPartially, Puts
  <2> QED
    BY <1>0, <1>1, <1>7, <2>1, <2>2, <2>3 DEF Promised, PromisedStep, StoreIsOneState
<1> QED
  BY <1>5, <1>6, <1>7 DEF ApplyInPlace, ApplyFails, cur, n

\* A cold build may be of some records only.
LEMMA PartialIsPromised ==
    ASSUME PInv, UNCHANGED leveldb, ~served, NEW rs \in SUBSET hist, Build(rs, FALSE)
    PROVE  Promised
<1>0. IInv /\ StoreIsOneState /\ rs \in SUBSET Record
  BY Numbers DEF PInv
<1>1. MaxSeq(rs) \in 0..Writes
  <2>1. /\ MaxSeq(rs) \in 0..MaxWrites
        /\ rs # {} => \E r \in rs : r.seq = MaxSeq(rs)
    BY <1>0, MaxSeqIsMax
  <2>2. rs = {} => MaxSeq(rs) = 0
    BY DEF MaxSeq
  <2> QED
    BY <1>0, <2>1, <2>2, Numbers
<1>2. /\ served' = TRUE /\ store' = Puts(Newest(rs))
      /\ watermark' = MaxSeq(rs) /\ asOf' = MaxSeq(rs) /\ grade' = "partial"
  BY DEF Build
<1>3. Puts(Newest(rs)) \subseteq Puts(hist)
  BY LivePutMember DEF Puts, Promise!Puts
<1>4. grade = "nothing" /\ asOf = 0 /\ Writes \in Nat
  BY <1>0, Numbers DEF StoreIsOneState
<1>5. hist' = hist /\ Writes' = Writes /\ Puts(hist)' = Puts(hist)
  BY DEF leveldb, Writes, Puts, Promise!Puts
<1>6. StoreIsOneState'
  <2>1. watermark' <= asOf' /\ asOf' <= Writes'
    BY <1>1, <1>2, <1>4, <1>5
  <2>2. served' /\ grade' = "partial" /\ store' \subseteq Puts(hist)'
    BY <1>2, <1>3, <1>5
  <2> QED
    BY <2>1, <2>2 DEF StoreIsOneState
<1>7. Promise!RefreshPartially
  BY <1>1, <1>2, <1>3, <1>4, <1>5, CountsAgree DEF Promise!RefreshPartially, Puts
<1> QED
  BY <1>6, <1>7 DEF Promised, PromisedStep

\* Every step of the session is one that ServedState allows.
LEMMA SessionStepIsPromised ==
    ASSUME PInv, SessionStep
    PROVE  CopyIsOneState' /\ CopyIsNotOlder' /\ Promised
<1>0. IInv /\ StoreIsOneState /\ TypeOK /\ DirsInUse /\ CopiesLag
  BY DEF PInv, IInv
<1>1. ASSUME NEW f \in File, Copy(f) \/ CopyLost(f)
      PROVE  CopyIsOneState' /\ CopyIsNotOlder' /\ Promised
  <2>1. UNCHANGED leveldb /\ UNCHANGED cur
    BY <1>1 DEF Copy, CopyLost
  <2> QED
    BY <1>1, <2>1, CopyKeepsCopy, StoreKept
<1>2. CASE ColdGet \/ \E due \in BOOLEAN : Get(due)
  <2>1. /\ pc = "idle" /\ UNCHANGED leveldb /\ UNCHANGED cur
        /\ \/ \E b \in BOOLEAN : StartSnapshot(b)
           \/ snapshotDir # NoDir /\ StartMirror
    BY <1>2 DEF ColdGet, Get, CanReuse
  <2>2. CopyIsOneState' /\ began' = Writes
    BY <2>1, ListingIsOneState
  <2>3. CopyIsNotOlder'
    BY <1>0, <2>1, <2>2 DEF CopyIsNotOlder, StoreIsOneState, cur
  <2> QED
    BY <2>1, <2>2, <2>3, StoreKept
<1>3. CASE CopyThrows \/ ReuseDefers
  <2>1. UNCHANGED leveldb /\ UNCHANGED cur
    BY <1>3 DEF CopyThrows, ReuseDefers
  <2>2. pc' = "idle" \/ (reuse /\ StartSnapshot(FALSE))
    BY <1>3 DEF CopyThrows, ReuseDefers, Return
  <2>3. CASE pc' = "idle"
    BY <2>1, <2>3, StoreKept DEF CopyIsOneState, CopyIsNotOlder
  <2>4. CASE reuse /\ StartSnapshot(FALSE)
    <3>1. CopyIsOneState' /\ began' = Writes
      BY <2>1, <2>4, ListingIsOneState
    <3>2. CopyIsNotOlder'
      BY <1>0, <2>1, <3>1 DEF CopyIsNotOlder, StoreIsOneState, cur
    <3> QED
      BY <2>1, <3>1, <3>2, StoreKept
  <2> QED
    BY <2>2, <2>3, <2>4
<1>4. CASE ReuseLossy \/ ReuseSkipped \/ Stamp
  <2>1. UNCHANGED leveldb /\ UNCHANGED cur /\ pc' = "idle"
    BY <1>4 DEF ReuseLossy, ReuseSkipped, Stamp, Return
  <2> QED
    BY <2>1, StoreKept DEF CopyIsOneState, CopyIsNotOlder
<1>5. CASE ReuseApplies
  <2>1. /\ Copied /\ ~lossy /\ UNCHANGED leveldb /\ ApplyInPlace /\ pc' = "stamp" /\ served
    BY <1>0, <1>5 DEF ReuseApplies, GoStamp, IInv, ReuseIsAllowed, Copied
  <2> QED
    BY <2>1, AppliedIsPromised DEF CopyIsOneState, CopyIsNotOlder
<1>6. CASE ReuseFails
  <2>1. /\ Copied /\ reuse /\ ~lossy /\ UNCHANGED leveldb /\ ApplyFails /\ served
        /\ StartSnapshot(FALSE)
    BY <1>0, <1>6 DEF ReuseFails, IInv, ReuseIsAllowed, Copied
  <2>2. Promised /\ asOf' <= Writes
    BY <2>1, AppliedIsPromised
  <2>3. CopyIsOneState' /\ began' = Writes
    BY <2>1, ListingIsOneState
  <2> QED
    BY <2>2, <2>3 DEF CopyIsNotOlder
<1>7. CASE FreshStep
  <2>1. /\ Copied /\ ~reuse /\ UNCHANGED leveldb /\ pc' # "copy"
    BY <1>7 DEF FreshStep, FullAdopted, FullPartial, FullKept, FreshSkipped, FreshApplied,
       FreshFallsBack, Finally, GoStamp, Return
  <2>2. CopyIsOneState' /\ CopyIsNotOlder'
    BY <2>1 DEF CopyIsOneState, CopyIsNotOlder
  <2>3. CASE FullKept \/ FreshSkipped
    BY <2>1, <2>2, <2>3, StoreKept DEF FullKept, FreshSkipped
  <2>4. CASE FullAdopted \/ FreshApplied \/ FreshFallsBack
    <3>1. ~lossy /\ (Build(Seen, TRUE) \/ (served /\ (ApplyInPlace \/ ApplyFails)))
      BY <2>4 DEF FullAdopted, FreshApplied, FreshFallsBack, WantFull
    <3> QED
      BY <2>1, <2>2, <3>1, AppliedIsPromised
  <2>5. CASE FullPartial
    <3>1. dest \in DOMAIN dirs
      BY <1>0, <2>1, SeenIsFresh
    <3>2. Seen \subseteq hist /\ \A f : Contents(Without(dirs[dest], {f})) \subseteq Seen
      BY <1>0, <3>1, SeenType, TablesType
    <3>3. \E rs \in SUBSET hist : ~served /\ Build(rs, FALSE)
      BY <2>5, <3>2 DEF FullPartial
    <3> QED
      BY <2>1, <2>2, <3>3, PartialIsPromised
  <2> QED
    BY <1>7, <2>3, <2>4, <2>5 DEF FreshStep
<1> QED
  BY <1>1, <1>2, <1>3, <1>4, <1>5, <1>6, <1>7 DEF SessionStep, ReuseStep

-----------------------------------------------------------------------------
(* The refinement.                                                         *)

\* A first state is one of ServedState.
LEMMA InitIsPromised == Init => PInv /\ Promise!Init
<1> SUFFICES ASSUME Init PROVE PInv /\ Promise!Init
  OBVIOUS
<1> DEFINE table == <<"ldb", 1>>
           log == <<"log", 2>>
<1>1. IInv
  BY InitInv
<1>2. PICK k \in Key : hist = {[key |-> k, seq |-> 1, put |-> TRUE]}
  BY DEF Init
<1>3. Promise!Init
  BY <1>2 DEF Init, Promise!Init
<1>4. PICK r \in hist : hist = {r} /\ r.seq = 1 /\ r.put
  BY <1>2
<1>5. /\ DOMAIN live = {table, log} /\ live[table] = hist /\ live[log] = {}
      /\ IsTable(table) /\ ~IsTable(log) /\ table[2] = 1 /\ log[2] = 2 /\ obsolete = {}
  BY DEF Init, IsTable
<1> HIDE DEF table, log
<1>6. Logs \ obsolete = {log} /\ Logs = {log} /\ LiveTables = {table}
  BY <1>5 DEF Logs, LiveTables
<1>7. OneLog /\ NumbersAreUnique /\ LogsAreNewer /\ TablesAreOrdered
  BY <1>5, <1>6 DEF OneLog, NumbersAreUnique, LogsAreNewer, TablesAreOrdered, CurrentLog
<1>8. StaleIsOverruled /\ PutsAreLive
  <2>1. StaleIsOverruled
    BY <1>4, <1>5 DEF StaleIsOverruled, Overrules
  <2>2. PutsAreLive
    BY <1>4, <1>5, StateMember DEF PutsAreLive
  <2> QED
    BY <2>1, <2>2
<1>9. CopyIsOneState /\ CopyIsNotOlder
  BY DEF Init, CopyIsOneState, CopyIsNotOlder
<1>10. StoreIsOneState
  <2>1. Writes \in Nat
    BY <1>1, Numbers
  <2> QED
    BY <2>1 DEF Init, StoreIsOneState
<1> QED
  BY <1>1, <1>3, <1>7, <1>8, <1>9, <1>10 DEF PInv, FilesInv

\* A step is one of ServedState or changes nothing there.
LEMMA StepIsPromised ==
    ASSUME PInv, OldestFirst, [Next]_vars
    PROVE  PInv' /\ [Promise!Next]_(Promise!vars)
<1>1. CASE TeamsStep
  <2>1. PInv'
    BY <1>1, TeamsStepKeepsPInv
  <2>2. UNCHANGED <<grade, asOf, store>>
    BY <1>1 DEF TeamsStep, Write, Flush, Compact, Unlink, sessionVars, cur
  <2>3. hist' = hist \/ Promise!Write
    BY <1>1, <2>2, CountsAgree DEF TeamsStep, Write, Flush, Compact, Unlink, Promise!Write
  <2> QED
    BY <2>1, <2>2, <2>3 DEF Promise!Next, Promise!vars
<1>2. CASE SessionStep
  <2>1. CopyIsOneState' /\ CopyIsNotOlder' /\ Promised
    BY <1>2, SessionStepIsPromised
  <2>2. IInv'
    BY <1>2, StepInv DEF PInv, Next
  <2>3. UNCHANGED leveldb
    BY <1>2 DEF SessionStep, ColdGet, Get, Copy, CopyLost, CopyThrows, ReuseStep, ReuseLossy,
       ReuseSkipped, ReuseDefers, ReuseApplies, ReuseFails, FreshStep, FullAdopted, FullPartial,
       FullKept, FreshSkipped, FreshApplied, FreshFallsBack, Finally, Stamp
  <2>4. FilesInv'
    BY <2>3, SessionKeepsFiles DEF PInv
  <2> QED
    BY <2>1, <2>2, <2>4 DEF PInv, Promised, PromisedStep, Promise!Next, Promise!vars
<1>3. CASE UNCHANGED vars
  <2>1. UNCHANGED <<leveldb, cur, files, run>>
    BY <1>3 DEF vars
  <2>2. IInv' /\ FilesInv'
    BY <1>3, <2>1, StutterInv, SessionKeepsFiles DEF PInv
  <2>3. Promised
    BY <2>1, StoreKept
  <2>4. CopyIsOneState' /\ CopyIsNotOlder'
    BY <2>1 DEF PInv, CopyIsOneState, CopyIsNotOlder, InTheEnd, IsStateOf, CurrentLog, Logs, Writes,
       Puts, Newest, Promise!Puts, Promise!Newest, leveldb, cur, files, run, IsTable
  <2> QED
    BY <2>1, <2>2, <2>3, <2>4
    DEF PInv, Promised, PromisedStep, Promise!Next, Promise!vars, leveldb, cur
<1> QED
  BY <1>1, <1>2, <1>3 DEF Next

\* A session over a LevelDB that removes files in order answers from one state
\* of the source at a time, and never goes back.
THEOREM PromiseKept == ASSUME OldestFirst PROVE Spec => KeepsPromise
<1>1. PInv /\ [Next]_vars => PInv' /\ [Promise!Next]_(Promise!vars)
  BY StepIsPromised
<1> QED
  BY InitIsPromised, <1>1, PTL DEF Spec, KeepsPromise, Promise!Spec

\* What was deleted or overwritten in a state the store claims to know is not
\* in it: deletions are never resurrected.
THEOREM DeletionsStay == ASSUME OldestFirst PROVE Spec => []DeletedStaysDeleted
<1>1. PInv => DeletedStaysDeleted
  <2> SUFFICES ASSUME PInv, grade = "whole", NEW r \in store, NEW h \in hist,
                      h.key = r.key, h.seq > r.seq, ~(h.seq > asOf)
               PROVE  FALSE
    BY DEF DeletedStaysDeleted
  <2>1. IInv /\ TypeOK /\ store = Promise!StateAt(hist, asOf)
    BY DEF PInv, IInv, StoreIsOneState
  <2>2. r \in hist /\ \A s \in hist : (s.seq <= asOf /\ s.key = r.key) => s.seq <= r.seq
    BY <2>1, StateMember
  <2>3. h.seq \in Nat /\ r.seq \in Nat /\ asOf \in Nat
    BY <2>1, <2>2, Numbers, Bounds DEF TypeOK
  <2> QED
    BY <2>2, <2>3
<1>2. PInv /\ [Next]_vars => PInv'
  BY StepIsPromised
<1> QED
  BY InitIsPromised, <1>1, <1>2, PTL DEF Spec
=============================================================================
