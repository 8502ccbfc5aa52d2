------------------------------- MODULE Ingest -------------------------------
(***************************************************************************)
(* The store of libzaungast and the two ways it is brought up to date: the *)
(* full build (ingest-core.ts: extractFromSnapshot, buildStore) and the    *)
(* incremental apply (ingest.ts: applyIncremental), run by the JS engine   *)
(* against snapshots of a LevelDB that Teams keeps writing.                *)
(*                                                                         *)
(* The source is abstracted to what the readers see of it: for every reply *)
(* chain its newest record (a put, a tombstone, or nothing once compaction *)
(* elided the tombstone) with its sequence number.  Snapshots are atomic   *)
(* here; taking them file by file is the business of other modules.        *)
(***************************************************************************)
EXTENDS Naturals

CONSTANTS
    Chain,       \* reply-chain record keys, numbered in snapshot order
    Conv,        \* conversation ids
    MsgId,       \* message ids; the primary key is (conversation, id)
    Content,     \* what one message entry of a chain record can hold
    Version,     \* Version[x]: the Teams version number of content x
    Searchable,  \* contents with is_system = 0 and a non-empty text
    Sent,        \* contents flagged isSentByCurrentUser
    Topic,       \* conversation topics
    Other,       \* states of the profile, calendar and call-history stores
    Target,      \* what the mapping's dbId:osId targets can resolve to
    None,        \* no row, no entry
    NoTopic,     \* a conversation row whose topic is null
    MaxWrites    \* bound: how many writes Teams makes

ASSUME ChainsNumbered == \E n \in Chain \cup {0} : n \in Nat /\ Chain \subseteq 0..n
ASSUME VersionsAreNumbers ==
    \E n \in {Version[x] : x \in Content} \cup {0} : n \in Nat /\ Version \in [Content -> 0..n]
ASSUME NoneIsNothing == None \notin Content /\ None \notin Topic
ASSUME NoTopicIsNoTopic == NoTopic \notin Topic /\ NoTopic # None
ASSUME Contents == Searchable \subseteq Content /\ Sent \subseteq Content

VARIABLES
    rec,        \* the newest record of every reply chain
    convRec,    \* the newest record of every conversation
    otherRec,   \* the newest record of the remaining stores
    target,     \* the object store the message mapping resolves to
    writes,     \* the last sequence number LevelDB handed out
    served,     \* a store has been built and is served
    messages,   \* table messages, by primary key
    convs,      \* table conversations: the topic column, by id
    others,     \* tables profiles, events and calls
    derived,    \* the messages the derived tables were last computed from
    fts,        \* table messages_fts: rows (key, content)
    meta,       \* the lossy flag of the store's meta
    state,      \* IngestState: maxSeq, selfMri known, targets
    needFull,   \* an incremental apply asked for a full rebuild
    taint       \* why this store is allowed to differ from a full rebuild

sourceVars == <<rec, convRec, otherRec, target, writes>>
tables == <<messages, convs, others, derived, fts>>
vars == <<rec, convRec, otherRec, target, writes, served, messages, convs,
          others, derived, fts, meta, state, needFull, taint>>

Key == Conv \X MsgId
Row == [chain : Chain, content : Content, self : BOOLEAN]
ASSUME NoneIsNoRow == None \notin Row

Entries == [Key -> Content \cup {None}]
NoEntries == [k \in Key |-> None]
ChainRecord == [kind : {"put", "tombstone", "absent"}, seq : Nat, entries : Entries]
Absent == [kind |-> "absent", seq |-> 0, entries |-> NoEntries]

TypeOK ==
    /\ rec \in [Chain -> ChainRecord]
    /\ convRec \in [Conv -> [topic : Topic \cup {None}, seq : Nat]]
    /\ otherRec \in [value : Other, seq : Nat]
    /\ target \in Target
    /\ writes \in Nat
    /\ served \in BOOLEAN
    /\ messages \in [Key -> Row \cup {None}]
    /\ convs \in [Conv -> Topic \cup {NoTopic, None}]
    /\ others \in Other \cup {None}
    /\ derived \in [Key -> Row \cup {None}]
    /\ fts \in SUBSET (Key \X Content)
    /\ meta \in [lossy : BOOLEAN]
    /\ state \in [maxSeq : Nat, self : BOOLEAN, target : Target]
    /\ needFull \in BOOLEAN
    /\ taint \in SUBSET {"lossy", "shared", "torn", "elided"}

-----------------------------------------------------------------------------
(* What a snapshot shows, and the store a full build makes of it.          *)

\* Chains of snapshot r whose live record holds an entry for k.
Holders(r, k) == {c \in DOMAIN r : r[c].entries[k] # None}

\* foldMessageWinners: the newest version wins, a tie goes to the later row.
Winner(r, cs, k) ==
    CHOOSE c \in cs : \A d \in cs :
        \/ Version[r[d].entries[k]] < Version[r[c].entries[k]]
        \/ Version[r[d].entries[k]] = Version[r[c].entries[k]] /\ d <= c

RowOf(r, c, k, self) == [chain |-> c, content |-> r[c].entries[k], self |-> self]

\* voteSelfMri, for a cache of one signed-in user: any row flagged as sent by
\* the current user names him; without one the vote is null.
VoteSelf(r) == \E c \in DOMAIN r, k \in Key : r[c].entries[k] \in Sent

FullMessages(r, self) ==
    [k \in Key |-> IF Holders(r, k) = {} THEN None
                   ELSE RowOf(r, Winner(r, Holders(r, k), k), k, self)]

HasMessages(m, v) == \E k \in Key : k[1] = v /\ m[k] # None

\* Rows with a conversation record carry its topic; rows that exist only
\* through their messages carry none.
FullConvs(cr, m) ==
    [v \in Conv |-> CASE cr[v].topic # None -> cr[v].topic
                      [] cr[v].topic = None /\ HasMessages(m, v) -> NoTopic
                      [] OTHER -> None]

IndexOf(m, ks) == {<<k, m[k].content>> : k \in {j \in ks : m[j] # None /\ m[j].content \in Searchable}}

\* Every sequence number a snapshot shows (collectSnapshot counts tombstones).
Seqs(r, cr, o) == {0, o.seq} \cup {r[c].seq : c \in DOMAIN r} \cup {cr[v].seq : v \in DOMAIN cr}
IsMaxSeq(n, r, cr, o) == n \in Seqs(r, cr, o) /\ \A s \in Seqs(r, cr, o) : s <= n

\* No message is listed by two live chains of snapshot r.
OneChainPerMessage(r) ==
    \A k \in Key : \A c, d \in Holders(r, k) : c = d

\* What a snapshot shows when the records of chains cs and conversations vs
\* could not be read.
WithoutChains(cs) == [c \in Chain |-> IF c \in cs THEN Absent ELSE rec[c]]
WithoutConvs(vs) == [v \in Conv |-> IF v \in vs THEN [topic |-> None, seq |-> 0] ELSE convRec[v]]

-----------------------------------------------------------------------------
(* Teams and LevelDB: the writer of the source.                            *)

\* Every write gets the next sequence number.
NextSeq == writes + 1
CanWrite == writes < MaxWrites
Written == writes' = NextSeq
KeepStore == UNCHANGED <<served, tables, meta, state, needFull>>

PutChain(c, e) ==
    /\ CanWrite /\ Written
    /\ rec' = [rec EXCEPT ![c] = [kind |-> "put", seq |-> NextSeq, entries |-> e]]
    /\ UNCHANGED <<convRec, otherRec, target, taint>> /\ KeepStore

DeleteChain(c) ==
    /\ CanWrite /\ Written
    /\ rec[c].kind = "put"
    /\ rec' = [rec EXCEPT ![c] = [kind |-> "tombstone", seq |-> NextSeq, entries |-> NoEntries]]
    /\ UNCHANGED <<convRec, otherRec, target, taint>> /\ KeepStore

\* A compaction drops a tombstone that hides nothing any more.  When it takes
\* the only trace of a deletion the store has not seen, and what is left shows
\* the watermark as the newest record, nothing tells the deletion happened.
ElideTombstone(c) ==
    /\ rec[c].kind = "tombstone"
    /\ rec' = [rec EXCEPT ![c] = Absent]
    /\ taint' = IF /\ served /\ rec[c].seq > state.maxSeq
                   /\ IsMaxSeq(state.maxSeq, rec', convRec, otherRec)
                THEN taint \cup {"elided"} ELSE taint
    /\ UNCHANGED <<convRec, otherRec, target, writes>> /\ KeepStore

\* A conversation record is written (or, with None, deleted).
PutConv(v, t) ==
    /\ CanWrite /\ Written
    /\ convRec[v].topic # t
    /\ convRec' = [convRec EXCEPT ![v] = [topic |-> t, seq |-> NextSeq]]
    /\ UNCHANGED <<rec, otherRec, target, taint>> /\ KeepStore

PutOther(o) ==
    /\ CanWrite /\ Written
    /\ otherRec' = [value |-> o, seq |-> NextSeq]
    /\ UNCHANGED <<rec, convRec, target, taint>> /\ KeepStore

\* Teams moves the reply chains to a new, still empty object store.
Migrate(t) ==
    /\ CanWrite /\ Written
    /\ t # target
    /\ target' = t
    /\ rec' = [c \in Chain |-> Absent]
    /\ otherRec' = [otherRec EXCEPT !.seq = NextSeq]
    /\ UNCHANGED <<convRec, taint>> /\ KeepStore

-----------------------------------------------------------------------------
(* The full build: extractFromSnapshot, then buildStore on a fresh store.  *)

\* A snapshot is whole, lacks files that could not be copied, or lacks what
\* could not be read from its files.  Only the reader's loss reaches the meta.
Loss == {"none", "copy", "read"}

\* What makes the store built from r differ from a full rebuild later on.
FullTaint(r, loss) ==
    (IF loss = "none" THEN {} ELSE {"lossy"}) \cup (IF OneChainPerMessage(r) THEN {} ELSE {"shared"})

\* Mutant: a lossy rebuild is adopted like any other.
MayAdoptAlways(loss) == loss \in Loss

\* doFull: a lossy build never replaces a store already served.
MayAdopt(loss) == ~(loss # "none" /\ served)

\* A full rebuild is adopted, of a snapshot that lost the chains cs and the
\* conversations vs.
FullAdopt(cs, vs, loss) ==
    /\ loss = "none" => cs = {} /\ vs = {}
    /\ MayAdopt(loss)
    /\ LET r == WithoutChains(cs)
           cr == WithoutConvs(vs)
           built == FullMessages(r, VoteSelf(r))
       IN /\ messages' = built
          /\ derived' = built
          /\ fts' = IndexOf(built, Key)
          /\ convs' = FullConvs(cr, built)
          /\ others' = otherRec.value
          /\ \E n \in Seqs(r, cr, otherRec) :
                /\ IsMaxSeq(n, r, cr, otherRec)
                /\ state' = [maxSeq |-> n, self |-> VoteSelf(r), target |-> target]
          /\ meta' = [lossy |-> loss = "read"]
          /\ taint' = FullTaint(r, loss)
    /\ served' = TRUE
    /\ needFull' = FALSE
    /\ UNCHANGED sourceVars

\* The derived tables, the index or the message-only conversations lag behind.
Torn ==
    \/ derived # messages
    \/ fts # IndexOf(messages, Key)
    \/ \E v \in Conv : convs[v] = None /\ HasMessages(messages, v)

\* A full rebuild that was lossy, or that threw: the store in place stays, and
\* the demand for a full rebuild is forgotten with it.
FullKept ==
    /\ served
    /\ needFull' = FALSE
    /\ taint' = IF Torn THEN taint \cup {"torn"} ELSE taint
    /\ UNCHANGED <<sourceVars, served, tables, meta, state>>

-----------------------------------------------------------------------------
(* The incremental apply: applyIncremental and applyAndAdvance.  A lossy   *)
(* snapshot is skipped before anything is read from it: no step here.      *)

\* The chains found in the buckets of the targets resolved at the full build.
Source == IF target = state.target THEN rec ELSE [c \in Chain |-> Absent]
Live == {c \in Chain : Source[c].kind = "put"}

\* Mutant: the comparison with the watermark is off by one.
ChangedOffByOne == {c \in Live : Source[c].seq > state.maxSeq + 1}

Changed == {c \in Live : Source[c].seq > state.maxSeq}

CanRefresh == served /\ ~needFull

\* Mutant: no schema tripwire.
SchemaNeverMoves == FALSE

SchemaMoved == target # state.target

\* The schema tripwire.
TripFull ==
    /\ CanRefresh /\ SchemaMoved
    /\ needFull' = TRUE
    /\ UNCHANGED <<sourceVars, served, tables, meta, state, taint>>

\* Nothing newer than the watermark: the apply exits, the caller stamps meta.
NoOpExit ==
    /\ CanRefresh /\ ~SchemaMoved
    /\ IsMaxSeq(state.maxSeq, Source, convRec, otherRec)
    /\ meta' = [lossy |-> FALSE]
    /\ UNCHANGED <<sourceVars, served, tables, state, needFull, taint>>

\* Rows left after deleteMessagesForMissingChains and deleteMessagesByChain.
Survives(k) == messages[k] # None /\ messages[k].chain \in Live \ Changed

\* Table messages after applyMessages upserted the changed chains' rows.
Upserted(k) ==
    LET old == IF Survives(k) THEN messages[k] ELSE None
        hs == Holders(Source, k) \cap Changed
        new == RowOf(Source, Winner(Source, hs, k), k, state.self)
    IN IF hs = {} THEN old
       ELSE IF old = None THEN new
       ELSE IF Version[old.content] <= Version[new.content] THEN new ELSE old

AppliedMessages == [k \in Key |-> Upserted(k)]

\* The ids of the messages deleted, and of those upserted.
DeletedIds == {k[2] : k \in {j \in Key : messages[j] # None /\ ~Survives(j)}}
AppliedIds == {k[2] : k \in {j \in Key : Holders(Source, j) \cap Changed # {}}}
\* Mutant: only the upserted ids are refreshed.
FtsIdsOfUpserts == AppliedIds

FtsIds == DeletedIds \cup AppliedIds

\* Conversations at COMMIT: topics reset and re-applied, orphans dropped.
AppliedConvs ==
    [v \in Conv |-> IF convs[v] = None /\ convRec[v].topic = None THEN None
                    ELSE FullConvs(convRec, AppliedMessages)[v]]

\* Mutant: the rows are not re-derived from messages that exist.
RefreshedFtsUnjoined(m, ids) ==
    {f \in fts : f[1][2] \notin ids} \cup
    {<<k, IF m[k] = None THEN None ELSE m[k].content>> : k \in {j \in Key : j[2] \in ids}}

\* refreshFts: rows of the ids are dropped and re-derived from messages.
RefreshedFts(m, ids) ==
    {f \in fts : f[1][2] \notin ids} \cup IndexOf(m, {k \in Key : k[2] \in ids})

Transaction ==
    /\ messages' = AppliedMessages
    /\ others' = otherRec.value

\* The incremental apply of a snapshot that shows something new.
Apply ==
    /\ CanRefresh /\ ~SchemaMoved
    /\ \E n \in Seqs(Source, convRec, otherRec) :
          /\ IsMaxSeq(n, Source, convRec, otherRec)
          /\ n # state.maxSeq
          /\ state' = [state EXCEPT !.maxSeq = n]
    /\ Transaction
    /\ convs' = FullConvs(convRec, AppliedMessages)
    /\ derived' = AppliedMessages
    /\ fts' = RefreshedFts(AppliedMessages, FtsIds)
    /\ meta' = [lossy |-> FALSE]
    /\ taint' = (taint \ {"elided"}) \cup (IF OneChainPerMessage(rec) THEN {} ELSE {"shared"})
    /\ UNCHANGED <<sourceVars, served, needFull>>

\* The apply throws inside the transaction: ROLLBACK, a full rebuild is due.
ApplyRolledBack ==
    /\ CanRefresh /\ ~SchemaMoved
    /\ ~IsMaxSeq(state.maxSeq, Source, convRec, otherRec)
    /\ needFull' = TRUE
    /\ UNCHANGED <<sourceVars, served, tables, meta, state, taint>>

\* The apply throws after COMMIT: in recomputeDerived (at most the message-only
\* conversations are added), or in refreshFts (the derived tables are done, the
\* index is untouched or only deleted from).
ApplyTorn ==
    /\ CanRefresh /\ ~SchemaMoved
    /\ ~IsMaxSeq(state.maxSeq, Source, convRec, otherRec)
    /\ Transaction
    /\ \/ /\ convs' \in {AppliedConvs, FullConvs(convRec, AppliedMessages)}
          /\ UNCHANGED <<derived, fts>>
       \/ /\ convs' = FullConvs(convRec, AppliedMessages)
          /\ derived' = AppliedMessages
          /\ fts' \in {fts, {f \in fts : f[1][2] \notin FtsIds}}
    /\ needFull' = TRUE
    /\ taint' = IF OneChainPerMessage(rec) THEN taint ELSE taint \cup {"shared"}
    /\ UNCHANGED <<sourceVars, served, meta, state>>

-----------------------------------------------------------------------------
Init ==
    /\ rec = [c \in Chain |-> Absent]
    /\ convRec = [v \in Conv |-> [topic |-> None, seq |-> 0]]
    /\ otherRec \in [value : Other, seq : {0}]
    /\ target \in Target
    /\ writes = 0
    /\ served = FALSE
    /\ messages = [k \in Key |-> None]
    /\ convs = [v \in Conv |-> None]
    /\ others = None
    /\ derived = messages
    /\ fts = {}
    /\ meta = [lossy |-> FALSE]
    /\ state = [maxSeq |-> 0, self |-> FALSE, target |-> target]
    /\ needFull = FALSE
    /\ taint = {}

SourceStep ==
    \/ \E c \in Chain : DeleteChain(c) \/ ElideTombstone(c) \/ \E e \in Entries : PutChain(c, e)
    \/ \E v \in Conv, t \in Topic \cup {None} : PutConv(v, t)
    \/ \E o \in Other : PutOther(o)
    \/ \E t \in Target : Migrate(t)

FullStep ==
    \/ \E cs \in SUBSET Chain, vs \in SUBSET Conv, loss \in Loss : FullAdopt(cs, vs, loss)
    \/ FullKept

IncrementalStep == TripFull \/ NoOpExit \/ Apply \/ ApplyRolledBack \/ ApplyTorn

Next == SourceStep \/ FullStep \/ IncrementalStep

Spec == Init /\ [][Next]_vars

-----------------------------------------------------------------------------
(* Properties.                                                             *)

\* The snapshot of the source as it stands shows nothing past the watermark.
CaughtUp == served /\ ~needFull /\ IsMaxSeq(state.maxSeq, rec, convRec, otherRec)

\* The equivalence invariant of docs/development.md: once caught up, a store
\* that incremental applies maintained equals the full rebuild of the same
\* source.  It may differ only for the reasons taint names, and in the columns
\* that depend on the user's MRI when the vote has moved since the full build.
EquivalentToFull ==
    (CaughtUp /\ taint = {} /\ state.self = VoteSelf(rec)) =>
        LET full == FullMessages(rec, VoteSelf(rec))
        IN /\ messages = full
           /\ convs = FullConvs(convRec, full)
           /\ others = otherRec.value
           /\ derived = full
           /\ fts = IndexOf(full, Key)

\* The watermark never runs ahead of the store: every chain at or below it is
\* in the store exactly as the source has it, whatever applies failed, were
\* retried or exited early in between.
WatermarkCoversStore ==
    (served /\ state.target = target /\ taint \cap {"lossy", "shared"} = {}) =>
        \A c \in Chain, k \in Key :
            (rec[c].kind # "absent" /\ rec[c].seq <= state.maxSeq) =>
                /\ rec[c].entries[k] # None => messages[k] = RowOf(rec, c, k, state.self)
                /\ (messages[k] # None /\ messages[k].chain = c) => rec[c].entries[k] # None

\* The derived tables and the index follow the messages, unless a full rebuild
\* is due or one that was due failed: no delta refresh leaves a row behind.
DerivedFollowsMessages ==
    (served /\ ~needFull /\ "torn" \notin taint) =>
        derived = messages /\ fts = IndexOf(messages, Key)

\* No refresh of any kind drops a message its source still holds.
NeverDropsALiveMessage ==
    [][(served /\ taint = {} /\ rec' = rec) =>
          \A k \in Key : (messages[k] # None /\ Holders(rec, k) # {}) => messages'[k] # None]_vars

\* The store lacks a message of the source it is caught up with.
Incomplete ==
    CaughtUp /\ taint = {"lossy"} /\ \E k \in Key : Holders(rec, k) # {} /\ messages[k] = None

\* A cold start from a lossy read is flagged and "keeps retrying and the meta stays
\* lossy" (session.ts, doFull): only a store that lacks nothing clears the flag.
FlagClearedOnlyWhenWhole == [][(meta.lossy /\ ~meta'.lossy) => ~Incomplete']_vars
=============================================================================
