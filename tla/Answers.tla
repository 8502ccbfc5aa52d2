------------------------------ MODULE Answers ------------------------------
(***************************************************************************)
(* From the bytes of a profile to the answers of the MCP server: records   *)
(* are decoded, extracted, shaped, stored and derived, the store follows   *)
(* the profile by incremental refreshes and rebuilds, and a client lists,  *)
(* searches, ranks topics, and reads conversations and threads page by     *)
(* page, each call on the reading current at that moment.                  *)
(*                                                                         *)
(* A profile gives every key the number of the value stored under it, 0    *)
(* for none.                                                               *)
(***************************************************************************)
EXTENDS Tools, NativeExtract

CONSTANTS
    KeyOrder,     \* the keys, in the order of a snapshot's records
    EntityOf,     \* the entity of each key
    Corpus,       \* per key, the values that may be written under it
    Profiles,     \* the profiles to begin with
    Engines,      \* "js": live; "static": read once, indexed late; "plain": read
                  \* once, without an index; "native"
    MaxWrites,    \* bound on the writes
    Limits,       \* the page sizes asked for
    Windows,      \* the time bounds of a reading
    Asks,         \* the arguments the tools are called with
    Now           \* the time of the calls

ASSUME BoundsAssumption == MaxWrites \in Nat /\ Limits \subseteq Nat \ {0}

D == INSTANCE Clone
N == INSTANCE NativeClone

VARIABLES
    source,       \* the profile
    dirty,        \* the keys written since the store was last brought up to it
    writes,       \* the writes so far
    engine,       \* which engine built the store
    built,        \* ChatStore.ftsBuilt
    store,        \* its tables
    told,         \* the handles a client has been given, by id
    phrases,      \* its phrase cache
    pager,        \* a client's reading in progress
    found         \* the last search and its result, until the store changes
vars == <<source, dirty, writes, engine, built, store, told, phrases, pager, found>>

Keys == Range(KeyOrder)

-----------------------------------------------------------------------------
(* What a store is built from *)

Decoded(Deserialize(_)) ==
  Eager([k \in Keys |-> Eager([i \in DOMAIN Corpus[k] |-> Deserialize(Stream(Corpus[k][i]))])])
Js == Decoded(D!Deserialize)
Rust == Decoded(N!NativeDeserialize)

Records(values, s, entity, keys) ==
  LET held == SelectSeq(KeyOrder, LAMBDA k : k \in keys /\ s[k] # 0 /\ EntityOf[k] = entity)
  IN  [i \in DOMAIN held |-> [key |-> held[i], value |-> values[held[i]][s[held[i]]]]]

(* The rows of a profile as the mapping makes them; messages of the given  *)
(* keys only.                                                              *)
MappedEntities == {"message", "conversation", "profile", "event", "call"}
Mapped(s, keys) ==
  [entity \in MappedEntities |->
     RecordsToRows(Records(Js, s, entity, IF entity = "message" THEN keys ELSE Keys), entity)]

(* They are shaped for self, whom a full build votes for. *)
RowsFor(rows, self) ==
  [message |-> ShapeMessageRows(rows.message, self),
   conversation |-> ShapeConversationMetaRows(rows.conversation),
   profile |-> ShapeProfileRows(rows.profile), event |-> ShapeEventRows(rows.event),
   call |-> ShapeCallRows(rows.call), self |-> self]
FullRowsFor(rows) == RowsFor(rows, VoteSelfMri(rows.message))

NativeRowsOf(rows) ==
  LET self == NVoteSelfMri(rows.message)
  IN  [message |-> MessageRows(rows.message, self),
       conversation |-> ConversationRows(rows.conversation),
       profile |-> ProfileRows(rows.profile), event |-> EventRows(rows.event),
       call |-> CallRows(rows.call), self |-> self]

(* Per profile within reach. *)
Reachable ==
  LET written(S) == UNION {{[s EXCEPT ![k] = i] : i \in 0..Len(Corpus[k])} : s \in S, k \in Keys}
      after[n \in 0..MaxWrites] == IF n = 0 THEN Profiles ELSE written(after[n - 1])
  IN  after[MaxWrites]
AllRows == Eager([s \in Reachable |-> FullRowsFor(Mapped(s, Keys))])
NativeRows == Eager([s \in Reachable |->
                NativeRowsOf([e \in MappedEntities |-> ExtractRows(Records(Rust, s, e, Keys), e)])])
Rebuilt == Eager([s \in Reachable |-> BuildStore(AllRows[s])])
Derived == Eager([s \in Reachable |-> DeriveTables(ShapeBaseTables(AllRows[s]))])

LiveChains(s) == {k \in Keys : EntityOf[k] = "message" /\ s[k] # 0}

-----------------------------------------------------------------------------
(* A client reading page by page *)

NoPager == [kind |-> "none"]
NothingFound == [res |-> [miss |-> "nothing asked"]]
Unbounded == [since |-> 0, until |-> 0]

(* What there is to read, each with the time it is ordered by.             *)
Flat(d, p) == {<<m.id, m.ts>> : m \in {n \in Posted(d.messages, p.conv) : InTime(p.opts, n.ts)}}
Chain(d, p) == {<<m.id, m.ts>> : m \in Range(QueryThread(d, p.conv, p.root))}
Threads(d, p) == {<<s.rootId, s.lastTs>> : s \in QueryThreadSummaries(d, p.conv, p.opts)}
Readable(p, d) ==
  CASE p.kind = "thread" -> Chain(d, p)
    [] p.kind = "pages"  ->
         IF p.conv \notin DOMAIN d.conversations THEN {}
         ELSE IF d.conversations[p.conv].kind = "channel" THEN Threads(d, p)
         ELSE Flat(d, p)

Turned(p, page) ==
  [p EXCEPT !.seen = @ \o page.shown, !.cursor = page.next, !.done = page.next = NoCursor]

(* The store has changed: only what both stores hold can be asked for.     *)
Followed(p, d) ==
  IF p.kind = "none" THEN p ELSE [p EXCEPT !.steady = @ \cap Readable(p, d)]

Start(kind, conv, root, window, limit) ==
  LET p == [kind |-> kind, conv |-> conv, handle |-> told[conv], root |-> root,
            opts |-> [limit |-> limit] @@ window, cursor |-> NoCursor, seen |-> <<>>,
            done |-> FALSE]
  IN  p @@ [steady |-> Readable(p, store)]

Page(p) ==
  LET conv == ResolveConversationArg(store, [handle |-> p.handle])
  IN  IF Missed(conv) THEN [shown |-> <<>>, next |-> NoCursor]
      ELSE IF p.kind = "thread" THEN ReadThread(store, conv.id, p.root, p.cursor, p.opts.limit)
      ELSE ReadConversation(store, conv.id, p.cursor, p.opts)

-----------------------------------------------------------------------------
Init ==
  /\ source \in Profiles
  /\ engine \in Engines
  /\ built = (engine = "js")
  /\ store = [Rebuilt[source] EXCEPT !.fts = IF engine \in {"static", "plain"} THEN {} ELSE @]
  /\ dirty = {} /\ writes = 0
  /\ told = <<>> /\ phrases = NoPhrases /\ pager = NoPager /\ found = NothingFound

(* Teams writes or deletes a record, which a static store never sees.  The *)
(* result of a search is looked at before anything else happens.           *)
TeamsWrites(k) ==
  /\ writes < MaxWrites /\ found = NothingFound
  /\ engine \in {"js", "native"}
  /\ \E i \in 0..Len(Corpus[k]) \ {source[k]} : source' = [source EXCEPT ![k] = i]
  /\ dirty' = dirty \cup {k}
  /\ writes' = writes + 1
  /\ UNCHANGED <<engine, built, store, told, phrases, pager, found>>

(* A live store follows the profile, a static one does not.  The phrases   *)
(* that were extracted are kept.                                           *)
Refresh ==
  /\ engine = "js"
  /\ dirty # {}
  /\ store' = ApplyIncremental(store, LiveChains(source),
                            {k \in dirty : EntityOf[k] = "message"},
                            RowsFor(Mapped(source, dirty), store.self))
  /\ dirty' = {}
  /\ pager' = Followed(pager, store')
  /\ found' = NothingFound
  /\ UNCHANGED <<source, writes, engine, built, told, phrases>>

(* A rebuild gives handles anew: of two ids whose hashes collide either    *)
(* may now have the shorter one, so clients have to list again.            *)
Rebuild ==
  /\ engine = "js"
  /\ dirty # {}
  /\ store' = Rebuilt[source]
  /\ dirty' = {}
  /\ told' = <<>> /\ phrases' = NoPhrases /\ pager' = NoPager /\ found' = NothingFound
  /\ UNCHANGED <<source, writes, engine, built>>

(* Everything there is, which is more than a call gives at a time.         *)
Everything == [kind |-> "", query |-> "", participant |-> "", since |-> NoTime,
               until |-> NoTime, includeEmpty |-> FALSE, n |-> Uncapped]
Listed(rows, id(_)) == {id(rows[i]) : i \in DOMAIN rows}
List ==
  /\ told = <<>>
  /\ told' = [id \in Listed(ListConversations(store, Everything, Now).rows, LAMBDA r : r.id)
                     \cup Listed(FindPerson(store, {}, Uncapped).rows, LAMBDA r : r.mri)
                |-> store.handles[id]]
  /\ UNCHANGED <<source, dirty, writes, engine, built, store, phrases, pager, found>>

(* A client does one thing at a time.  A reading, a search and a ranking   *)
(* share no state, so that one of them at most is under way.               *)
Idle == pager = NoPager /\ found = NothingFound /\ phrases = NoPhrases

Open(conv, limit) ==
  /\ Idle
  /\ conv \in DOMAIN told \cap DOMAIN store.conversations
  /\ \/ \E window \in Windows : pager' = Start("pages", conv, "", window, limit)
     \/ /\ store.conversations[conv].kind = "channel"
        /\ \E s \in QueryThreadSummaries(store, conv, Unbounded) :
             pager' = Start("thread", conv, s.rootId, Unbounded, limit)
  /\ UNCHANGED <<source, dirty, writes, engine, built, store, told, phrases, found>>

NextPage ==
  /\ pager # NoPager /\ ~pager.done
  /\ pager' = Turned(pager, Page(pager))
  /\ UNCHANGED <<source, dirty, writes, engine, built, store, told, phrases, found>>

Close ==
  /\ pager # NoPager /\ pager.done
  /\ pager' = NoPager
  /\ UNCHANGED <<source, dirty, writes, engine, built, store, told, phrases, found>>

(* A question names an id by its handle, anything else as a part of a name. *)
Ided(xs) == xs \cap DOMAIN Hash
Selectors(xs) == {IF x \in DOMAIN Hash THEN [handle |-> told[x]] ELSE [text |-> x] : x \in xs}
Asked(ask) ==
  [ask EXCEPT !.in = Selectors(@), !.from = Selectors(@), !.exclude = Selectors(@)]
Askable(ask) == Ided(ask.in \cup ask.from \cup ask.exclude) \subseteq DOMAIN told

(* The index is built when it was not, which is a write.                   *)
FtsEnabled == engine # "plain"
EnsureFts(b, d) == IF b \/ ~FtsEnabled THEN d ELSE [d EXCEPT !.fts = Indexed(d.messages)]
ReadOnly == engine = "native"

(* Mutant: an index that was deferred is taken as it is. *)
SearchUnindexed(ask) ==
  /\ Idle
  /\ \E res \in SearchTool(store, FtsEnabled, Asked(ask), Now) : found' = [ask |-> ask, res |-> res]
  /\ UNCHANGED <<source, dirty, writes, engine, built, store, told, phrases, pager>>

Search(ask) ==
  /\ Idle
  /\ IF FtsEnabled /\ ~built /\ ReadOnly
     THEN /\ found' = [ask |-> ask, res |-> [error |-> "read-only"]]
          /\ UNCHANGED <<built, store>>
     ELSE /\ built' = FtsEnabled
          /\ store' = EnsureFts(built, store)
          /\ \E res \in SearchTool(store', FtsEnabled, Asked(ask), Now) :
               found' = [ask |-> ask, res |-> res]
  /\ UNCHANGED <<source, dirty, writes, engine, told, phrases, pager>>

(* The topics are printed; what stays is the cache. *)
RankPhrases(ask) ==
  /\ pager = NoPager /\ found = NothingFound
  /\ phrases' = RankTopics(store, phrases, Asked(ask), Now).cache
  /\ UNCHANGED <<source, dirty, writes, engine, built, store, told, pager, found>>

Next ==
  \/ \E k \in Keys : TeamsWrites(k)
  \/ Refresh \/ Rebuild
  \/ List
  \/ \E conv \in DOMAIN told, limit \in Limits : Open(conv, limit)
  \/ NextPage \/ Close
  \/ \E ask \in Asks.search : Askable(ask) /\ Search(ask)
  \/ \E ask \in Asks.topics : Askable(ask) /\ RankPhrases(ask)

Spec == Init /\ [][Next]_vars

-----------------------------------------------------------------------------
(* Both decoders (structured-clone.ts, value.rs) give back the value the   *)
(* application stored, shared objects and back-references included.        *)
RoundTrip ==
  \A k \in Keys : source[k] # 0 =>
    LET meant == Meant(Corpus[k][source[k]])
    IN  Js[k][source[k]] = meant /\ Rust[k][source[k]] = meant

(* The native engine shapes the rows the TypeScript engine shapes, entity  *)
(* by entity, whatever the records lack or carry in excess; profiles are   *)
(* compared as they are stored, those without an mri or a name left out.   *)
EnginesAgree ==
  LET js == AllRows[source]
      stored(p) == p.mri # "" /\ p.name # ""
  IN  NativeRows[source] = [js EXCEPT !.profile = SelectSeq(@, stored)]

(* deriveTables, in one pass of JavaScript, computes the conversations,    *)
(* people and handles that recomputeDerived computes in SQL.               *)
TablesAgree ==
  Derived[source] = Restrict(Rebuilt[source], {"conversations", "people", "handles"})

(* A store that is up to date holds, handles aside, what a rebuild of the  *)
(* profile would hold: rows, derived columns and the search index.         *)
FreshIsRebuilt ==
  dirty = {} /\ engine = "js" /\ store.self = AllRows[source].self =>
    [store EXCEPT !.handles = <<>>] = [Rebuilt[source] EXCEPT !.handles = <<>>]

(* A handle a tool shows leads back to what it was shown for, and to       *)
(* nothing else, though the hashes it is cut from collide: those of the    *)
(* lists, of the group in a call's label, of a recording's announcement    *)
(* and of a meeting's chat.  The thread get_message refers to is there.    *)
LeadsTo(handle, id) ==
  /\ ResolveConversationArg(store, [handle |-> handle]) = [id |-> id]
  /\ ConversationById(store, handle) = {id}
HandlesLeadBack ==
  Idle =>
    /\ \A id \in DOMAIN store.conversations : LeadsTo(store.handles[id], id)
    /\ \A mri \in DOMAIN store.people :
         Listed(FindPerson(store, {[handle |-> store.handles[mri]]}, 0).rows, LAMBDA r : r.mri) = {mri}
    /\ \A ask \in Asks.calls : \A row \in Range(ListCalls(store, ask, Now).rows) :
         LET call == store.calls[row.id]
         IN  /\ row.label.handle # <<>> => LeadsTo(row.label.handle, call.groupThreadId.str)
             /\ row.pivot # <<>> => LeadsTo(row.pivot[1], call.recordingLink[1])
    /\ \A ask \in Asks.events : \A line \in Range(ListEvents(store, ask, Now).lines) :
         "chat" \in DOMAIN line /\ line.chat # <<>> => LeadsTo(line.chat, store.events[line.id].cid.str)
    /\ \A m \in Real(store.messages) :
         LET thread == GetMessage(store, [handle |-> store.handles[m.convId]], m.id, 0).thread
         IN  thread # "" /\ m.kind = "channel" =>
               ReadThread(store, m.convId, thread, NoCursor, 1).shown # <<>>

(* An incremental refresh never takes a handle back or gives it anew, so   *)
(* that a client may go on using it.                                       *)
HandlesStick ==
  [][Refresh => \A x \in DOMAIN store.handles :
       x \in DOMAIN store'.handles /\ store'.handles[x] = store.handles[x]]_vars

(* Whoever turns the pages of a conversation, a digest or a thread to the  *)
(* end has been shown everything that was there all the time, and, but for *)
(* a thread's root, which heads each page, nothing of it twice -- through  *)
(* equal timestamps, missing roots, time bounds and refreshes between      *)
(* pages.  The pages of a body are the body; and the window around a       *)
(* message holds it, unless half a window follows it at its own time.      *)
Body(m) ==
  LET sel == [handle |-> store.handles[m.convId]]
      more(read, i) ==
        IF read.next = None THEN read
        ELSE LET page == GetMessage(store, sel, m.id, read.next)
             IN  [body |-> read.body \o page.body, next |-> page.next]
  IN  FoldLeft(more, [body |-> <<>>, next |-> 0], [i \in 1..(Len(m.content) + 1) |-> i])
Equals(m) == {n \in Posted(store.messages, m.convId) : n.ts = m.ts /\ Before(m.id, n.id)}
PagesPartition ==
  /\ pager # NoPager =>
       /\ pager.done => \A x \in pager.steady : x[1] \in Range(pager.seen)
       /\ pager.kind = "pages" => \A x \in pager.steady :
            Cardinality({i \in DOMAIN pager.seen : pager.seen[i] = x[1]}) <= 1
  /\ Idle => \A m \in store.messages :
       /\ Body(m) = [body |-> m.content, next |-> None]
       /\ \A limit \in Limits : m.isSystem = 0 /\ limit \div 2 > Cardinality(Equals(m)) =>
            m \in Range(AroundWindow(store, m.convId, m.id, limit).rows)

(* A search finds the messages of its scope that hold the text, all of     *)
(* them or as many as it may show, by the index or without it, and of      *)
(* those it finds by time no older one instead of a newer one.  It tells   *)
(* what is cached whenever there is no hit, and tells it truly.  What it   *)
(* prints can be opened as a message, and in a channel as a thread; and it *)
(* refuses a handle only for something that is gone.                       *)
Wanted(ask, order) ==
  LET by(m, xs, id) == xs = {} \/ id \in xs
      text(m) == IF order = "time" THEN ask.query = "" \/ HasText(m, ask.query)
                 ELSE \A i \in DOMAIN Words[ask.query] : HasText(m, Words[ask.query][i])
  IN  {m \in Real(store.messages) :
         /\ by(m, Ided(ask.in), m.convId) /\ by(m, Ided(ask.from), m.senderMri)
         /\ {m.convId, m.senderMri} \cap ask.exclude = {}
         /\ \A part \in ask.from \ DOMAIN Hash : TextIs(m.senderName, part)
         /\ ask.kind \in {"", m.kind}
         /\ ask.mentionsMe => m.mentionsMe = 1
         /\ ask.hasAttachment => m.hasAttach = 1
         /\ InTime(MessageTimed(ask, Now), m.ts) /\ text(m)}
SearchIsComplete ==
  LET res == found.res
      ask == found.ask
      wanted == Wanted(ask, res.order)
      missed == {m \in wanted : Key(m) \notin res.rows}
      hit == wanted \ missed
  IN  /\ found # NothingFound /\ Missed(res) =>
           ~(Ided(ask.in \cup ask.from \cup ask.exclude)
               \subseteq DOMAIN store.conversations \cup DOMAIN store.people)
      /\ "rows" \in DOMAIN res =>
           /\ res.rows = {Key(m) : m \in hit} /\ Cardinality(hit) = Min({ask.limit, Cardinality(wanted)})
           /\ res.order = "time" => \A m \in missed, n \in hit : m.ts <= n.ts
           /\ res.rows = {} => res.coverage # {}
           /\ \A span \in res.coverage, m \in wanted : m.ts > 0 => m.ts \in span.lo..span.hi
           /\ \A h \in res.hits : ~Missed(GetMessage(store, [handle |-> h[1]], h[2], 0))
           /\ \A k \in res.rows, win \in Limits :
                store.conversations[k[1]].kind = "channel" =>
                  k[2] \in Range(ReadThread(store, k[1], k[2], NoCursor, win).shown)

(* store.ts:466-470 builds the index "if it was deferred at ingest", and   *)
(* store.ts:65-68 opens a native store for "the query surface" only: a     *)
(* search is answered with rows or with a reason, never with an error.     *)
SearchIsAnswered == "error" \notin DOMAIN found.res

(* One number, wherever it is printed: what a list says a conversation or  *)
(* a person has posted is what reading and searching them gives, a digest  *)
(* prints as many messages as it says, and of reactions, attendees and the *)
(* occurrences of a series none is left out of the count.                  *)
Sum(s, n(_)) == FoldLeft(LAMBDA t, x : t + n(x), 0, s)
TalliesAreHonest ==
  Idle =>
    /\ \A row \in Range(ListConversations(store, Everything, Now).rows) :
         row.msgCount = ConvMessageStats(store, row.id).total
    /\ \A row \in Range(FindPerson(store, {}, Uncapped).rows) :
         row.msgCount = Cardinality(SenderFilter(store, [handle |-> row.handle]).kept
                                      \cap Real(store.messages))
    /\ \A conv \in DOMAIN store.conversations, limit \in Limits :
         store.conversations[conv].kind = "channel" =>
           LET digest == RenderChannelDigest(store, conv, NoCursor, [limit |-> limit] @@ Unbounded)
           IN  digest.budget = Sum(digest.shown, LAMBDA r : Len(RenderDigestThread(store, conv, r)))
    /\ \A m \in store.messages, full \in BOOLEAN :
         LET shown == RenderReactions(store, ToMessage(m).reactions, full)
         IN  /\ \A i \in DOMAIN shown.parts :
                  shown.parts[i].count = Len(shown.parts[i].names) + shown.parts[i].more
             /\ Sum(shown.parts, LAMBDA p : p.count) + shown.tail = Sum(m.reactions, LAMBDA g : Len(g.u))
    /\ \A ask \in Asks.events :
         LET res == ListEvents(store, ask, Now)
         IN  /\ Sum(res.lines, LAMBDA l : IF "id" \in DOMAIN l THEN 1 ELSE l.more) = res.count
             /\ \A l \in Range(res.lines) : "id" \in DOMAIN l =>
                  l.attendees.total = Len(l.attendees.shown) + l.attendees.more

(* rank_topics answers as if every phrase were extracted anew: the phrases *)
(* that were remembered, through refreshes and calls with other stopwords, *)
(* are those of the names that people have now.  But a change of names     *)
(* into as many words that are as long together goes unnoticed.            *)
Unnoticed(old, now) ==
  /\ old # now /\ Cardinality(old) = Cardinality(now)
  /\ MapThenSumSet(LAMBDA w : Letters[w], old) = MapThenSumSet(LAMBDA w : Letters[w], now)
TopicsAreFresh ==
  pager = NoPager /\ found = NothingFound /\ phrases # NoPhrases =>
    \A ask \in {a \in Asks.topics : Askable(a)} :
      \/ RankTopics(store, phrases, Asked(ask), Now).res
           = RankTopics(store, NoPhrases, Asked(ask), Now).res
      \/ \E old \in phrases.names : Unnoticed(old, NameTokens(store))
=============================================================================
