---------------------------- MODULE NativeStore ----------------------------
(***************************************************************************)
(* The native engine end to end: Rust builds a store file from a snapshot  *)
(* (store/mod.rs), refreshes it by copying it and applying what is new     *)
(* (store/refresh.rs), with what it must know next time written into the   *)
(* file itself; the shim (shim/native.ts) finds it a directory; the        *)
(* session opens the file read-only and swaps.                             *)
(*                                                                         *)
(* A chain record holds one message or none; how several share one id is   *)
(* the business of module Ingest, and how snapshots are taken and read, of *)
(* Session and MirroredStore.                                              *)
(***************************************************************************)
EXTENDS Naturals, FiniteSets, Functions, FiniteSetsExt

CONSTANTS
    Chain,       \* reply-chain records
    Conv,        \* conversation records
    Plain,       \* the records of each store replaced whole: profile, event, call
    ConvOf,      \* the conversation of each chain's message
    Opening,     \* the records there are at first
    Writes,      \* what Teams may write: pairs of a record key and a value
    Targets,     \* what the mapping's stores can resolve to; 0: no mapping fits
    MaxWrites,   \* bound: writes Teams makes
    MaxDirs,     \* bound: directories mkdtemp makes
    MaxFaults    \* bound: loads that are lossy, calls that throw

ASSUME Bounds == MaxWrites \in Nat /\ MaxDirs \in Nat /\ MaxFaults \in Nat
ASSUME Conversations == ConvOf \in [Chain -> Conv]
ASSUME FiniteStores == \A s \in DOMAIN Plain : IsFiniteSet(Plain[s])
ASSUME OpeningNumbered ==
    IsFiniteSet(DOMAIN Opening) /\ \A k \in DOMAIN Opening : Opening[k].seq \in Nat

Stores == DOMAIN Plain
Key == Chain \union Conv \union UNION Range(Plain)

VARIABLES
    rec,      \* the newest record of every key, as far as compactions left it
    writes,   \* the last sequence number
    gen,      \* compactions so far
    target,   \* what the mapping's stores resolve to
    disk,     \* the shim's directories, each with its store file or none
    cur,      \* the store served: its directory, and whether the schema matched
    cache,    \* the copy-reuse cache: the compactions its tables were current at
    due,      \* the session wants a full rebuild before anything else
    faults

vars == <<rec, writes, gen, target, disk, cur, cache, due, faults>>
source == <<rec, writes, gen, target>>

None == "none"
Tombstone == "tombstone"
NoRow == [text |-> None, mine |-> FALSE]
NoFile == [kind |-> "none"]
Torn == [kind |-> "torn"]

-----------------------------------------------------------------------------
(* Teams.                                                                  *)

IsLive(r) == r.value \notin {None, Tombstone}
Absent == [seq |-> 0, value |-> None]

Write(k, v) ==
    /\ writes < MaxWrites
    /\ IsLive(rec[k]) \/ v # Tombstone
    /\ writes' = writes + 1
    /\ rec' = [rec EXCEPT ![k] = [seq |-> writes + 1, value |-> v]]
    /\ UNCHANGED <<gen, target, disk, cur, cache, due, faults>>

\* A compaction: tombstones that hide nothing any more are dropped.
Compact ==
    /\ gen < writes
    /\ gen' = writes
    /\ rec' = [k \in Key |-> IF rec[k].value = Tombstone THEN Absent ELSE rec[k]]
    /\ UNCHANGED <<writes, target, disk, cur, cache, due, faults>>

\* An update of Teams moves the mapped stores, which are empty at first.
Migrate(t) ==
    /\ writes < MaxWrites
    /\ target # 0 /\ (t = 0 \/ t > target)
    /\ target' = t /\ writes' = writes + 1
    /\ rec' = [k \in Key |-> IF k \in Chain \union Conv THEN Absent ELSE rec[k]]
    /\ UNCHANGED <<gen, disk, cur, cache, due, faults>>

-----------------------------------------------------------------------------
(* The snapshot a load returns; `lost` could not be read.                  *)

Snapshot(lost) ==
    LET found == [k \in Key |-> IF k \in lost THEN Absent ELSE rec[k]]
    IN [rec |-> found, lossy |-> lost # {}, target |-> target,
        maxSeq |-> Max({0} \union {found[k].seq : k \in Key}),
        sourceSig |-> <<writes, gen>>]

Live(snap, keys) == {k \in keys : IsLive(snap.rec[k])}

\* Mutant: only the newest sequence number counts.
EntitySigOfMax(snap, s) ==
    [maxSeq |-> Max({0} \union {snap.rec[k].seq : k \in Live(snap, Plain[s])}), count |-> 0]

\* entity_sig
EntitySig(snap, s) ==
    [maxSeq |-> Max({0} \union {snap.rec[k].seq : k \in Live(snap, Plain[s])}),
     count |-> Cardinality(Live(snap, Plain[s]))]

StoreSigs(snap) == [s \in Stores |-> EntitySig(snap, s)]

\* vote_self_mri: one signed-in user, whom any message flagged as sent names.
VoteSelf(snap) == \E k \in Live(snap, Chain) : snap.rec[k].value = "sent"

\* compute_state
ComputeState(snap) ==
    [self |-> VoteSelf(snap), maxSeq |-> snap.maxSeq, target |-> snap.target, sigs |-> StoreSigs(snap)]

-----------------------------------------------------------------------------
(* The tables of a file, and what the statements do to them.               *)

NoTables ==
    [messages |-> [k \in Chain |-> NoRow],
     convs |-> [c \in Conv |-> None],
     plain |-> [s \in Stores |-> [k \in Plain[s] |-> None]],
     derived |-> [k \in Chain |-> NoRow],
     fts |-> {}]

\* The message in a chain, if any; the user's own are marked if he is known.
RowOf(value, self) == [text |-> value, mine |-> value = "sent" \/ (value = "own" /\ self)]

HasRow(snap, k) == IsLive(snap.rec[k]) /\ snap.rec[k].value # "empty"

\* apply_messages, of the chains cs.
ApplyMessages(t, snap, cs, self) ==
    [t EXCEPT !.messages = [k \in Chain |->
        IF k \in cs /\ HasRow(snap, k) THEN RowOf(snap.rec[k].value, self) ELSE @[k]]]

\* replace_profiles, replace_events, replace_calls
ReplaceStore(t, snap, s) ==
    [t EXCEPT !.plain[s] = [k \in Plain[s] |->
        IF IsLive(snap.rec[k]) THEN snap.rec[k].value ELSE None]]

ReplaceStores(t, snap, ss) ==
    [t EXCEPT !.plain = [s \in Stores |->
        IF s \in ss THEN ReplaceStore(t, snap, s).plain[s] ELSE @[s]]]

\* apply_conversation_meta
ApplyConversationMeta(t, snap) ==
    [t EXCEPT !.convs = [c \in Conv |-> IF IsLive(snap.rec[c]) THEN snap.rec[c].value ELSE @[c]]]

Mentioned(t) == {ConvOf[k] : k \in {j \in Chain : t.messages[j] # NoRow}}

\* Mutant: conversations that lost their last message stay.
ReconcileKeepingOrphans(t, snap) ==
    ApplyConversationMeta([t EXCEPT !.convs = [c \in Conv |-> IF @[c] = None THEN None ELSE "untitled"]], snap)

\* reconcile_conversations: titles are reset and applied again, then rows that
\* neither a record nor a message calls for are dropped.
ReconcileConversations(t, snap) ==
    LET reset == [t EXCEPT !.convs = [c \in Conv |-> IF @[c] = None THEN None ELSE "untitled"]]
        applied == ApplyConversationMeta(reset, snap)
    IN [applied EXCEPT !.convs = [c \in Conv |->
           IF c \in Live(snap, Conv) \union Mentioned(t) THEN @[c] ELSE None]]

\* recompute_derived: conversations known from messages only get a row; people,
\* counts and participants are computed from all messages.
RecomputeDerived(t) ==
    [t EXCEPT !.convs = [c \in Conv |-> IF @[c] = None /\ c \in Mentioned(t) THEN "untitled" ELSE @[c]],
              !.derived = t.messages]

IndexOf(t, ks) == {<<k, t.messages[k].text>> : k \in {j \in ks : t.messages[j] # NoRow}}

\* refresh_fts, refresh_fts_delta
RefreshFts(t) == [t EXCEPT !.fts = IndexOf(t, Chain)]
RefreshFtsDelta(t, ks) == [t EXCEPT !.fts = {f \in @ : f[1] \notin ks} \union IndexOf(t, ks)]

\* populate
Populate(snap) ==
    LET self == VoteSelf(snap)
        meta == ApplyConversationMeta(NoTables, snap)
        applied == ApplyMessages(meta, snap, Chain, self)
    IN RefreshFts(RecomputeDerived(ReplaceStores(applied, snap, Stores)))

-----------------------------------------------------------------------------
(* Files: the tables and the row of _meta.  `basis` is no part of a file:  *)
(* it is the snapshot the tables were last brought up to, and `whole` says *)
(* that no lossy load and no exit on an equal maxSeq hid a change since    *)
(* the build, `steady` that the vote has come out the same all along.      *)

\* ingest_to_file: with no mapping for the schema the store is empty.
IngestToFile(snap) ==
    LET known == snap.target # 0
    IN [tables |-> IF known THEN Populate(snap) ELSE NoTables,
        meta |-> [state |-> ComputeState(snap), known |-> known,
                  lossy |-> snap.lossy, sourceSig |-> snap.sourceSig],
        basis |-> snap, whole |-> ~snap.lossy, steady |-> TRUE]

\* The live chains past the floor.
Changed(snap, floor) == {k \in Live(snap, Chain) : snap.rec[k].seq > floor}

\* refresh_store, once something is new: the chains that are gone or changed
\* go, the changed ones are extracted again; a plain store is replaced unless
\* its signature is the one of the last time.
RefreshStore(t, snap, state) ==
    LET changed == Changed(snap, state.maxSeq)
        gone == {k \in Chain : t.messages[k] # NoRow} \ (Live(snap, Chain) \ changed)
        kept == [t EXCEPT !.messages = [k \in Chain |-> IF k \in gone THEN NoRow ELSE @[k]]]
        applied == ApplyMessages(kept, snap, changed, state.self)
        replaced == ReplaceStores(applied, snap, {s \in Stores : EntitySig(snap, s) # state.sigs[s]})
        reconciled == ReconcileConversations(replaced, snap)
    IN RefreshFtsDelta(RecomputeDerived(reconciled), gone \union {k \in changed : HasRow(snap, k)})

\* What a snapshot holds, sequence numbers and tombstones aside.
Holds(snap) == [k \in Key |-> IF IsLive(snap.rec[k]) THEN snap.rec[k].value ELSE None]

\* refresh_to_file past its checks: a copy of the file, brought up to snap, with
\* a new row of _meta.
Refreshed(f, snap) ==
    LET state == f.meta.state
        exit == snap.maxSeq = state.maxSeq
    IN [tables |-> IF exit THEN f.tables ELSE RefreshStore(f.tables, snap, state),
        meta |-> [state |-> ComputeState(snap), known |-> TRUE,
                  lossy |-> snap.lossy, sourceSig |-> snap.sourceSig],
        basis |-> snap,
        whole |-> f.whole /\ (exit => Holds(snap) = Holds(f.basis)),
        steady |-> f.steady /\ VoteSelf(snap) = state.self]

-----------------------------------------------------------------------------
(* The shim and the session.                                               *)

NoStore == [dir |-> 0, matched |-> FALSE]
Served == cur.dir # 0
File == disk[cur.dir]

\* mkdtemp
NextDir == Cardinality(DOMAIN disk) + 1
CanMakeDir == NextDir =< MaxDirs
With(d, f) == [e \in DOMAIN disk \union {d} |-> IF e = d THEN f ELSE disk[e]]

\* Mutant: the file is left behind.
ClosedWithFile(dk, d) == dk

\* ChatStore.close: the driver removes what was opened, the file.
Closed(dk, d) == IF d = 0 THEN dk ELSE [dk EXCEPT ![d] = NoFile]

Fault == faults < MaxFaults /\ faults' = faults + 1

\* What a load may lose: nothing, or by a fault one key's record.
Losses == {{}} \union {{k} : k \in {j \in Key : rec[j] # Absent}}

FaultIf(b) == IF b THEN Fault ELSE UNCHANGED faults

\* nativeFull and the session's doFull: a lossy build does not replace a store
\* that is good.
Full ==
    /\ CanMakeDir
    /\ \E lost \in Losses :
        LET snap == Snapshot(lost)
            keep == snap.lossy /\ cur.matched
            made == With(NextDir, IngestToFile(snap))
        IN /\ FaultIf(snap.lossy)
           /\ disk' = IF keep THEN Closed(made, NextDir) ELSE Closed(made, cur.dir)
           /\ cur' = IF keep THEN cur ELSE [dir |-> NextDir, matched |-> snap.target # 0]
           /\ cache' = IF keep THEN cache ELSE {}
    /\ due' = FALSE
    /\ UNCHANGED source

\* The addon throws out of a full build: its directory stays, and the session
\* serves what it served.
FullThrows ==
    /\ CanMakeDir /\ Fault
    /\ \E f \in {NoFile, Torn} : disk' = With(NextDir, f)
    /\ due' = FALSE
    /\ UNCHANGED <<source, cur, cache>>

CanRefresh == Served /\ ~due /\ CanMakeDir

\* The signature of the source is the one in the file: nothing is read.
SourceUnchanged == File.meta.sourceSig = <<writes, gen>>

\* No mapping made the file, or its targets moved.
NeedsFull(snap) == ~File.meta.known \/ snap.target # File.meta.state.target

\* Mutant: the file is brought up to date where it is.
SwapInPlace(f) ==
    /\ disk' = [disk EXCEPT ![cur.dir] = f]
    /\ UNCHANGED cur

\* Mutant: the store that is closed is the new one.
SwapClosingNew(f) ==
    /\ disk' = Closed(With(NextDir, f), NextDir)
    /\ cur' = [dir |-> NextDir, matched |-> TRUE]

\* swapped: the new file is served, the old one closed.
Swap(f) ==
    /\ disk' = Closed(With(NextDir, f), cur.dir)
    /\ cur' = [dir |-> NextDir, matched |-> TRUE]

\* The rest of a refresh: skipped, needFull, or swapped.
RefreshFrom(snap) ==
    IF File.meta.known /\ snap.lossy THEN UNCHANGED <<disk, cur, due>>
    ELSE IF NeedsFull(snap) THEN due' = TRUE /\ UNCHANGED <<disk, cur>>
    ELSE UNCHANGED due /\ Swap(Refreshed(File, snap))

\* nativeRefreshInto
Refresh ==
    /\ CanRefresh /\ ~SourceUnchanged
    /\ \E lost \in Losses : FaultIf(lost # {}) /\ RefreshFrom(Snapshot(lost))
    /\ UNCHANGED <<source, cache>>

\* nativeReuseRefreshInto; a file without a mapping is turned down before the
\* load.  When a covered table is gone it defers, and the session goes on with
\* Refresh; a lossy fold is not kept.
ReuseRefresh ==
    /\ CanRefresh /\ ~SourceUnchanged
    /\ \E lost \in Losses :
        LET snap == Snapshot(lost)
        IN /\ FaultIf(lost # {})
           /\ cache' = IF ~File.meta.known THEN cache ELSE IF snap.lossy THEN {} ELSE {gen}
           /\ IF File.meta.known /\ ~(cache \subseteq {gen})
              THEN UNCHANGED <<disk, cur, due>>
              ELSE RefreshFrom(snap)
    /\ UNCHANGED source

\* A refresh throws: its directory stays, a full rebuild follows.
RefreshThrows ==
    /\ CanRefresh /\ Fault
    /\ \E f \in {NoFile, Torn} : disk' = With(NextDir, f)
    /\ due' = TRUE
    /\ UNCHANGED <<source, cur, cache>>

Init ==
    /\ rec = [k \in Key |-> IF k \in DOMAIN Opening THEN Opening[k] ELSE Absent]
    /\ writes = Max({0} \union {rec[k].seq : k \in Key}) /\ gen = 0
    /\ target \in Targets \ {0}
    /\ disk = [d \in {} |-> NoFile] /\ cur = NoStore
    /\ cache = {} /\ due = FALSE /\ faults = 0

Next ==
    \/ \E w \in Writes : Write(w[1], w[2])
    \/ Compact
    \/ \E t \in Targets : Migrate(t)
    \/ Full
    \/ FullThrows
    \/ Refresh
    \/ ReuseRefresh
    \/ RefreshThrows

Spec == Init /\ [][Next]_vars

-----------------------------------------------------------------------------
(* Properties.                                                             *)

IsFile(f) == f \notin {NoFile, Torn}
Files == {d \in DOMAIN disk : IsFile(disk[d])}

\* What is served is a finished file that is not the output of a failed call,
\* and a finished file's state is of a snapshot Teams has had.
TypeOK ==
    /\ DOMAIN disk = 1..Cardinality(DOMAIN disk) /\ Cardinality(DOMAIN disk) =< MaxDirs
    /\ cur.dir = 0 \/ cur.dir \in Files
    /\ \A d \in Files : disk[d].meta.state.maxSeq \in 0..writes
    /\ cache \subseteq 0..gen /\ due \in BOOLEAN /\ faults \in 0..MaxFaults

Unmarked(t) ==
    [t EXCEPT !.messages = [k \in Chain |-> @[k].text], !.derived = [k \in Chain |-> @[k].text]]

\* After any number of refreshes a file holds what a full build of the snapshot
\* it was last brought up to would hold, search index and derived tables
\* included (refresh.rs:1-8, 140-262).  Which messages are the user's own is
\* right as long as the vote does not change: rows are marked when they are
\* applied, and the vote is taken anew for the next refresh.
FileIsRebuild ==
    \A d \in Files :
        LET f == disk[d]
            rebuilt == IF f.meta.known THEN Populate(f.basis) ELSE NoTables
        IN f.whole =>
            IF f.steady THEN f.tables = rebuilt ELSE Unmarked(f.tables) = Unmarked(rebuilt)

\* A store whose signature has not changed since the file was written holds what
\* it held then, so not replacing it is right (refresh.rs:66-90), whatever was
\* deleted, and whether or not its tombstone was compacted away.
SigsAreSound ==
    Served /\ File.meta.known /\ ~File.basis.lossy =>
        \A s \in Stores :
            EntitySig(Snapshot({}), s) = File.meta.state.sigs[s] =>
                \A k \in Plain[s] : Holds(Snapshot({}))[k] = Holds(File.basis)[k]

\* No store file is left but the one served and one for each call that threw
\* (native.ts:100-116, session.ts:232-237).
OneStoreFile ==
    Cardinality({d \in DOMAIN disk : disk[d] # NoFile} \ {cur.dir}) =< faults

\* A finished file is never written again: a reading that still holds it reads
\* the one build it was pinned to or, once it is closed, nothing
\* (refresh.rs:412-419, store-api.ts:57-70).
NeverMutated ==
    [][\A d \in Files : disk'[d] \in {disk[d], NoFile}]_vars
=============================================================================
