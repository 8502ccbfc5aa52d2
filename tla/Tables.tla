------------------------------- MODULE Tables -------------------------------
(***************************************************************************)
(* From rows to the tables of a ChatStore: util/handles.ts, the fold and   *)
(* deriveTables of ingest/ingest-core.ts, the statements of                *)
(* ingest/store.ts, and applyIncremental of ingest/ingest.ts.              *)
(*                                                                         *)
(* A store is a record: handles (the allocator), conversations, people,    *)
(* profiles, events, calls (rows by primary key), messages (a set of rows, *)
(* one per (convId, id)), fts (the keys indexed), and self.                *)
(***************************************************************************)
EXTENDS Extract

CONSTANTS
    Hash,        \* the hexadecimal digits of the SHA-1 of an id
    ShortLen     \* the digits a handle has unless it is extended

Key(m) == <<m.convId, m.id>>
Real(messages) == {m \in messages : m.isSystem = 0}
Earlier(m, n) == m.ts < n.ts \/ (m.ts = n.ts /\ Before(m.id, n.id))
InOrder(S, Less(_, _)) ==       \* the elements of S, Less being total on S
  LET placed == {<<x, 1 + Cardinality({y \in S : Less(y, x)})>> : x \in S}
  IN  Eager([i \in 1..Cardinality(S) |-> (CHOOSE p \in placed : p[2] = i)[1]])
Sorted(ids) == InOrder(ids, Before)
MaxTs(messages) == IF messages = {} THEN 0 ELSE Max({m.ts : m \in messages})

-----------------------------------------------------------------------------
(* Handles: as many digits of the hash as it takes to be new.              *)

(* Mutant: a handle in use is not avoided. *)
AlwaysShort(handles, prefix, id) ==
  IF id \in DOMAIN handles THEN handles
  ELSE (id :> <<prefix, SubSeq(Hash[id], 1, ShortLen)>>) @@ handles

(* Mutant: an id that has a handle is given another one. *)
NewHandleFor(handles, prefix, id) ==
  LET used == {handles[x] : x \in DOMAIN handles}
      long(n) == <<prefix, SubSeq(Hash[id], 1, n)>>
      free == {n \in ShortLen..Len(Hash[id]) : long(n) \notin used}
  IN  (id :> long(IF free = {} THEN Len(Hash[id]) ELSE Min(free))) @@ handles

HandleFor(handles, prefix, id) ==
  IF id \in DOMAIN handles THEN handles
  ELSE LET used == {handles[x] : x \in DOMAIN handles}
           long(n) == <<prefix, SubSeq(Hash[id], 1, n)>>
           free == {n \in ShortLen..Len(Hash[id]) : long(n) \notin used}
       IN  (id :> long(Min(free))) @@ handles
HandlesFor(handles, prefix, ids) ==
  FoldLeft(LAMBDA h, id : HandleFor(h, prefix, id), handles, ids)

-----------------------------------------------------------------------------
(* The messages: winners of the fold, and the version-guarded upsert. *)

FoldMessageWinners(rows) ==
  FoldLeft(LAMBDA winners, row :
             IF \E w \in winners : Key(w) = Key(row) /\ w.version > row.version
             THEN winners
             ELSE {w \in winners : Key(w) # Key(row)} \cup {row},
           {}, rows)

(* insert .. on conflict(conv_id,id) do update .. where excluded.version >= version *)
InsertMessage(messages, m) ==
  LET old == {o \in messages : Key(o) = Key(m)}
  IN  IF \E o \in old : ~(m.version >= o.version) THEN messages
      ELSE (messages \ old) \cup {m}
ApplyMessages(messages, rows) == FoldLeft(InsertMessage, messages, rows)

-----------------------------------------------------------------------------
(* The conversations' own records *)

NewConversation(id, kind) ==
  [id |-> id, kind |-> kind, topic |-> Null, teamId |-> Null, threadType |-> Null,
   metaLastTs |-> 0, msgCount |-> 0, activityTs |-> 0, participantCount |-> 0,
   lastTs |-> 0, participantNames |-> <<>>]

WithMeta(row, c) ==
  [row EXCEPT !.kind = c.kind, !.topic = c.topic, !.teamId = c.teamId,
              !.threadType = c.threadType, !.metaLastTs = c.metaLastTs]

UpsertConversationMeta(db, c) ==
  LET old == IF c.id \in DOMAIN db.conversations THEN db.conversations[c.id]
             ELSE NewConversation(c.id, c.kind)
  IN  [db EXCEPT !.handles = HandleFor(@, "c", c.id),
                 !.conversations = (c.id :> WithMeta(old, c)) @@ @]

-----------------------------------------------------------------------------
(* recomputeDerived: the derived columns as the SQL computes them. *)

NameOf(messages, mri) ==
  LET own == {m \in Real(messages) : m.senderMri = mri}
  IN  (CHOOSE m \in own : \A n \in own : n = m \/ ~Earlier(m, n)).senderName

Posted(messages, conv) == {m \in Real(messages) : m.convId = conv}
Senders(messages) == {m.senderMri : m \in messages}

PeopleOf(messages) ==
  Eager([mri \in Senders(Real(messages)) |->
     LET own == {m \in Real(messages) : m.senderMri = mri}
     IN  [name |-> NameOf(messages, mri), msgCount |-> Cardinality(own), lastTs |-> MaxTs(own)]])

TopNames == 5
ParticipantNames(messages, people, conv, self) ==
  LET posted == Posted(messages, conv)
      last(mri) == MaxTs({m \in posted : m.senderMri = mri})
      others == {mri \in Senders(posted) : Str(mri) # self /\ people[mri].name # ""}
      ranked == InOrder(others, LAMBDA a, b : \/ last(a) > last(b)
                                              \/ last(a) = last(b) /\ Before(a, b))
  IN  Eager([i \in 1..Min({TopNames, Len(ranked)}) |-> people[ranked[i]].name])

Aggregated(row, messages, people, self) ==
  LET posted == Posted(messages, row.id)
  IN  [row EXCEPT !.msgCount = Cardinality(posted), !.activityTs = MaxTs(posted),
                  !.participantCount = Cardinality(Senders(posted)),
                  !.lastTs = Max({row.metaLastTs, MaxTs(posted)}),
                  !.participantNames = ParticipantNames(messages, people, row.id, self)]

RecomputeDerived(db) ==
  LET missing == {m.convId : m \in db.messages} \ DOMAIN db.conversations
      kindOf(id) == (CHOOSE m \in db.messages : m.convId = id).kind
      convs == [id \in missing |-> NewConversation(id, kindOf(id))] @@ db.conversations
      people == PeopleOf(db.messages)
      withConvs == HandlesFor(db.handles, "c", Sorted(missing))
  IN  [db EXCEPT !.people = people,
                 !.handles = HandlesFor(withConvs, "p", Sorted(DOMAIN people)),
                 !.conversations = Eager([id \in DOMAIN convs |->
                    Aggregated(convs[id], db.messages, people, db.self)])]

-----------------------------------------------------------------------------
(* deriveTables: the same, computed in JavaScript in one pass over base    *)
(* tables, for engines without this SQL.                                   *)

(* Mutant: the display name is that of the message met last. *)
TalliedLast(stats, m) ==
  LET p == IF m.senderMri \in DOMAIN stats THEN stats[m.senderMri]
           ELSE [count |-> 0, last |-> 0, nameTs |-> -1, nameId |-> "", name |-> ""]
  IN  (m.senderMri :> [p EXCEPT !.count = @ + 1, !.last = Max({@, m.ts}),
                                !.name = m.senderName]) @@ stats

Tallied(stats, m) ==
  LET p == IF m.senderMri \in DOMAIN stats THEN stats[m.senderMri]
           ELSE [count |-> 0, last |-> 0, nameTs |-> -1, nameId |-> "", name |-> ""]
      newer == m.ts > p.nameTs \/ (m.ts = p.nameTs /\ Before(p.nameId, m.id))
  IN  (m.senderMri :>
        [count |-> p.count + 1, last |-> Max({p.last, m.ts}),
         nameTs |-> IF newer THEN m.ts ELSE p.nameTs,
         nameId |-> IF newer THEN m.id ELSE p.nameId,
         name |-> IF newer THEN m.senderName ELSE p.name]) @@ stats

Gathered(agg, m) ==
  LET a == IF m.convId \in DOMAIN agg THEN agg[m.convId]
           ELSE [count |-> 0, activity |-> 0, parts |-> <<>>]
      seen == IF m.senderMri \in DOMAIN a.parts THEN a.parts[m.senderMri] ELSE m.ts
  IN  (m.convId :> [count |-> a.count + 1, activity |-> Max({a.activity, m.ts}),
                    parts |-> (m.senderMri :> Max({seen, m.ts})) @@ a.parts]) @@ agg

(* Base tables: [conversations, messages, self], the messages in the order *)
(* in which their keys are first met.                                      *)
ShapeBaseTables(rows) ==
  LET winners == FoldMessageWinners(rows.message)
      first == {i \in DOMAIN rows.message :
                  \A j \in 1..(i - 1) : Key(rows.message[j]) # Key(rows.message[i])}
      winner(i) == CHOOSE w \in winners : Key(w) = Key(rows.message[i])
  IN  [conversations |-> rows.conversation, self |-> rows.self,
       messages |-> LET is == InOrder(first, LAMBDA i, j : i < j)
                    IN  [k \in DOMAIN is |-> winner(is[k])]]

DeriveTables(base) ==
  LET posted == SelectSeq(base.messages, LAMBDA m : m.isSystem = 0)
      acc(t, c) == IF c.id \in DOMAIN t.convs
                   THEN [t EXCEPT !.convs[c.id] = WithMeta(@, c)]
                   ELSE [handles |-> HandleFor(t.handles, "c", c.id),
                         convs |-> (c.id :> WithMeta(NewConversation(c.id, c.kind), c)) @@ t.convs]
      meta == FoldLeft(acc, [handles |-> <<>>, convs |-> <<>>], base.conversations)
      missing == {base.messages[i].convId : i \in DOMAIN base.messages} \ DOMAIN meta.convs
      convs == [id \in missing |-> NewConversation(id, ConvKind(id))] @@ meta.convs
      stats == FoldLeft(Tallied, <<>>, posted)
      agg == FoldLeft(Gathered, <<>>, posted)
      names(a) ==
        LET others == {mri \in DOMAIN a.parts : Str(mri) # base.self /\ stats[mri].name # ""}
            top == InOrder(others, LAMBDA x, y : \/ a.parts[x] > a.parts[y]
                                                 \/ a.parts[x] = a.parts[y] /\ Before(x, y))
        IN  Eager([i \in 1..Min({TopNames, Len(top)}) |-> stats[top[i]].name])
      derived(c) ==
        IF c.id \notin DOMAIN agg THEN [c EXCEPT !.lastTs = c.metaLastTs]
        ELSE [c EXCEPT !.msgCount = agg[c.id].count, !.activityTs = agg[c.id].activity,
                       !.participantCount = Cardinality(DOMAIN agg[c.id].parts),
                       !.lastTs = Max({c.metaLastTs, agg[c.id].activity}),
                       !.participantNames = names(agg[c.id])]
  IN  [conversations |-> Eager([id \in DOMAIN convs |-> derived(convs[id])]),
       people |-> Eager([mri \in DOMAIN stats |->
                     [name |-> stats[mri].name, msgCount |-> stats[mri].count,
                      lastTs |-> stats[mri].last]]),
       handles |-> HandlesFor(HandlesFor(meta.handles, "c", Sorted(missing)),
                              "p", Sorted(DOMAIN stats))]

-----------------------------------------------------------------------------
(* The whole-store replacements, and the index *)

ById(rows) ==      \* insert or replace: the last row of an id stays
  FoldLeft(LAMBDA t, r : (r.id :> r) @@ t, <<>>, rows)

(* Mutant: the profiles are not deleted first. *)
ReplaceProfilesMerging(db, rows) ==
  LET kept == SelectSeq(rows, LAMBDA r : r.mri # "" /\ r.name # "")
  IN  [db EXCEPT !.profiles = FoldLeft(LAMBDA t, r : (r.mri :> r) @@ t, @, kept)]

ReplaceProfiles(db, rows) ==
  LET kept == SelectSeq(rows, LAMBDA r : r.mri # "" /\ r.name # "")
  IN  [db EXCEPT !.profiles = FoldLeft(LAMBDA t, r : (r.mri :> r) @@ t, <<>>, kept)]
ReplaceEvents(db, rows) == [db EXCEPT !.events = ById(rows)]
ReplaceCalls(db, rows) == [db EXCEPT !.calls = ById(rows)]

Indexed(messages) == {Key(m) : m \in {n \in Real(messages) : n.content # <<>>}}

(* Mutant: what was deleted stays indexed. *)
RefreshFtsAdding(db, ids) ==
  [db EXCEPT !.fts = @ \cup Indexed({m \in db.messages : m.id \in ids})]

RefreshFts(db, ids) ==
  [db EXCEPT !.fts = {k \in @ : k[2] \notin ids} \cup
                     Indexed({m \in db.messages : m.id \in ids})]

-----------------------------------------------------------------------------
(* rows: the shaped rows of one snapshot, per entity, and self.            *)

EmptyStore ==
  [handles |-> <<>>, conversations |-> <<>>, messages |-> {}, people |-> <<>>,
   profiles |-> <<>>, events |-> <<>>, calls |-> <<>>, fts |-> {}, self |-> Null]

BuildStore(rows) ==
  LET withConvs == FoldLeft(UpsertConversationMeta, EmptyStore, rows.conversation)
      applied == [withConvs EXCEPT !.messages = FoldMessageWinners(rows.message),
                                   !.self = rows.self]
      replaced == ReplaceCalls(ReplaceEvents(ReplaceProfiles(applied, rows.profile),
                                             rows.event), rows.call)
      derived == RecomputeDerived(replaced)
  IN  [derived EXCEPT !.fts = Indexed(derived.messages)]

(* live: the chain keys of the snapshot; rows.message: those of the chains *)
(* in changed, shaped with the self of the last full build.                *)
ApplyIncremental(db, live, changed, rows) ==
  LET gone == {m \in db.messages : m.chainKey \notin live \/ m.chainKey \in changed}
      messages == ApplyMessages(db.messages \ gone, rows.message)
      reset == Eager([id \in DOMAIN db.conversations |->
                  WithMeta(db.conversations[id],
                           NewConversation(id, db.conversations[id].kind))])
      replaced == ReplaceCalls(ReplaceEvents(ReplaceProfiles(
                    [db EXCEPT !.messages = messages, !.conversations = reset],
                    rows.profile), rows.event), rows.call)
      withConvs == FoldLeft(UpsertConversationMeta, replaced, rows.conversation)
      known == {rows.conversation[i].id : i \in DOMAIN rows.conversation}
                 \cup {m.convId : m \in messages}
      swept == [withConvs EXCEPT !.conversations =
                  Eager([id \in DOMAIN withConvs.conversations \cap known |->
                     withConvs.conversations[id]])]
      ids == {m.id : m \in gone} \cup {rows.message[i].id : i \in DOMAIN rows.message}
  IN  RefreshFts(RecomputeDerived(swept), ids)
=============================================================================
