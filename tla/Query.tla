------------------------------- MODULE Query -------------------------------
(***************************************************************************)
(* What the tools ask about messages: query.ts, and the namespaces of      *)
(* store-facade.ts over it.                                                *)
(*                                                                         *)
(* A selector is [handle |-> h], or [text |-> s] for a part of a title or  *)
(* of a name.  A keyset cursor is [ts, id], or NoCursor.  A query that     *)
(* cannot resolve a selector answers [miss |-> the reason].  Time bounds   *)
(* are the fields since and until of a question, 0 for none.  Left out:    *)
(* snippets; the order of hits by relevance is any order.                  *)
(***************************************************************************)
EXTENDS Tables

CONSTANT Words    \* the words that each search text consists of

NoCursor == [ts |-> -1, id |-> ""]
Missed(x) == "miss" \in DOMAIN x
IsBotMri(mri) == Has(mri, "^28:")

TimeOrder(messages) ==
  InOrder(messages, LAMBDA m, n : \/ Earlier(m, n)
                                  \/ m.ts = n.ts /\ m.id = n.id /\ Before(m.convId, n.convId))
Newest(s, n) == SubSeq(s, Max({1, Len(s) - n + 1}), Len(s))
Ids(s) == [i \in DOMAIN s |-> s[i].id]
TextIs(s, part) == s = part \/ Has(s, part)      \* like '%part%'
Oldest(s, n) == SubSeq(s, 1, Min({n, Len(s)}))
InTime(opts, ts) == (opts.since = 0 \/ ts >= opts.since) /\ (opts.until = 0 \/ ts < opts.until)
Span(messages) ==
  LET dated == {m.ts : m \in {n \in messages : n.ts > 0}}
  IN  IF dated = {} THEN [lo |-> 0, hi |-> 0] ELSE [lo |-> Min(dated), hi |-> Max(dated)]

-----------------------------------------------------------------------------
(* Selectors *)

TitleLike(db, id, part) ==
  \/ Is(db.conversations[id].topic, "str") /\ TextIs(db.conversations[id].topic.str, part)
  \/ \E i \in DOMAIN db.conversations[id].participantNames :
       TextIs(db.conversations[id].participantNames[i], part)

ConvIdsFor(db, sel) ==
  IF "handle" \in DOMAIN sel
  THEN {id \in DOMAIN db.conversations : db.handles[id] = sel.handle}
  ELSE {id \in DOMAIN db.conversations : TitleLike(db, id, sel.text)}

WithHandle(db, handle) == {mri \in DOMAIN db.people : db.handles[mri] = handle}

(* The messages of a sender, or the miss. *)
SenderFilter(db, sel) ==
  IF "text" \in DOMAIN sel
  THEN [kept |-> {m \in db.messages : TextIs(m.senderName, sel.text)}]
  ELSE IF WithHandle(db, sel.handle) = {} THEN [miss |-> "no-such-sender"]
  ELSE [kept |-> {m \in db.messages : m.senderMri \in WithHandle(db, sel.handle)}]

ResolveExcludes(db, sels) ==
  LET handles == {s.handle : s \in {t \in sels : "handle" \in DOMAIN t}}
      convs == {id \in DOMAIN db.conversations : db.handles[id] \in handles}
      mris == UNION {WithHandle(db, h) : h \in handles}
      found == {db.handles[x] : x \in convs \cup mris}
  IN  IF \E h \in handles \ found : h[1] = "c" THEN [miss |-> "no-such-excluded-conversation"]
      ELSE IF handles # found THEN [miss |-> "no-such-excluded-person"]
      ELSE [convs |-> convs, mris |-> mris]

ConversationById(db, handle) ==
  {id \in DOMAIN db.conversations : db.handles[id] = handle}

(* Candidates, the one with the latest activity first. *)
ResolveConversations(db, sel) ==
  InOrder(ConvIdsFor(db, sel),
          LAMBDA a, b : LET la == db.conversations[a].lastTs
                            lb == db.conversations[b].lastTs
                        IN  la > lb \/ (la = lb /\ Before(a, b)))

-----------------------------------------------------------------------------
(* Search *)

(* opts: from, in: a set of at most one selector; exclude: selectors;      *)
(* query, kind: "" for any; mentionsMe, hasAttachment; since, until; limit.*)
Scope(db, opts) ==
  LET from == {SenderFilter(db, s) : s \in opts.from}
      in == {ConvIdsFor(db, s) : s \in opts.in}
      ex == ResolveExcludes(db, opts.exclude)
  IN  IF \E f \in from : Missed(f) THEN [miss |-> "no-such-sender"]
      ELSE IF {} \in in THEN [miss |-> "no-such-conversation"]
      ELSE IF Missed(ex) THEN ex
      ELSE [kept |-> {m \in Real(db.messages) :
                        /\ \A f \in from : m \in f.kept
                        /\ \A ids \in in : m.convId \in ids
                        /\ opts.kind \in {"", m.kind}
                        /\ opts.mentionsMe => m.mentionsMe = 1
                        /\ opts.hasAttachment => m.hasAttach = 1
                        /\ m.convId \notin ex.convs
                        /\ m.senderMri \notin ex.mris}]

HasText(m, text) == \E i \in DOMAIN m.content : m.content[i] = text
FtsMatch(db, m, words) ==
  Key(m) \in db.fts /\ \A i \in DOMAIN words : HasText(m, words[i])

(* What a search may answer with: the best hits of the index for a text    *)
(* with words in it, or the newest messages that contain the text.         *)
RunSearchQuery(db, ftsEnabled, window, opts) ==
  LET words == Words[opts.query]
      matched == {m \in window : FtsMatch(db, m, words)}
      listed == {m \in window : opts.query = "" \/ HasText(m, opts.query)}
  IN  IF words # <<>> /\ ftsEnabled
      THEN {[rows |-> best, order |-> "relevance"] :
              best \in kSubset(Min({opts.limit, Cardinality(matched)}), matched)}
      ELSE {[rows |-> Range(Newest(TimeOrder(listed), opts.limit)), order |-> "time"]}

(* The span of what is cached in the scope, told when there are no hits or *)
(* the window begins after all of it.                                      *)
ComputeCoverage(kept, rows, since) ==
  IF rows = {} \/ (since # 0 /\ since > MaxTs(kept)) THEN {Span(kept)} ELSE {}

QuerySearch(db, ftsEnabled, opts) ==
  LET scope == Scope(db, opts)
      window == {m \in scope.kept : InTime(opts, m.ts)}
  IN  IF Missed(scope) THEN {scope}
      ELSE {[rows |-> {Key(m) : m \in hits.rows}, order |-> hits.order,
             coverage |-> ComputeCoverage(scope.kept, hits.rows, opts.since)] :
              hits \in RunSearchQuery(db, ftsEnabled, window, opts)}

-----------------------------------------------------------------------------
(* Reading *)

(* Mutant: the cursor is the timestamp alone. *)
OlderTsOnly(m, cursor) == cursor = NoCursor \/ m.ts < cursor.ts

OlderThan(m, cursor) ==
  \/ cursor = NoCursor
  \/ m.ts < cursor.ts
  \/ m.ts = cursor.ts /\ Before(m.id, cursor.id)

QueryConversationMessages(db, conv, cursor, opts) ==
  LET window == {m \in Posted(db.messages, conv) : InTime(opts, m.ts) /\ OlderThan(m, cursor)}
  IN  Newest(TimeOrder(window), opts.limit)

(* A full page is taken for the sign that older rows remain. *)
InConversation(db, conv, cursor, opts) ==
  LET rows == QueryConversationMessages(db, conv, cursor, opts)
  IN  [rows |-> rows,
       next |-> IF Len(rows) >= opts.limit /\ rows # <<>>
                THEN [ts |-> rows[1].ts, id |-> rows[1].id] ELSE NoCursor]

QueryThread(db, conv, root) ==
  TimeOrder({m \in Posted(db.messages, conv) : m.rootId = root})

MessageById(db, conv, id) == {m \in db.messages : m.convId = conv /\ m.id = id}

ParseReactions(groups) ==
  [i \in DOMAIN groups |->
     [key |-> groups[i].k,
      users |-> [j \in DOMAIN groups[i].u |-> [mri |-> groups[i].u[j][1], time |-> groups[i].u[j][2]]]]]

(* A message as a caller of the library gets it. *)
ToMessage(m) ==
  [id |-> m.id, convId |-> m.convId, rootId |-> m.rootId, ts |-> m.ts, kind |-> m.kind,
   senderMri |-> m.senderMri, senderName |-> m.senderName, senderIsBot |-> IsBotMri(m.senderMri),
   isMine |-> m.isMine = 1, hasAttachment |-> m.hasAttach = 1, mentionsMe |-> m.mentionsMe = 1,
   content |-> m.content, reactions |-> ParseReactions(m.reactions)]

(* Half of the messages up to the time of the one named, half after it.    *)
AroundWindow(db, conv, id, limit) ==
  LET ts == (CHOOSE m \in MessageById(db, conv, id) : TRUE).ts
      half == limit \div 2
      before == {m \in Posted(db.messages, conv) : m.ts <= ts}
      after == {m \in Posted(db.messages, conv) : m.ts > ts}
  IN  IF MessageById(db, conv, id) = {} THEN [miss |-> "no-such-message"]
      ELSE [rows |-> Newest(TimeOrder(before), half) \o Oldest(TimeOrder(after), half)]

QueryThreadSummaries(db, conv, opts) ==
  LET posted == {m \in Posted(db.messages, conv) : InTime(opts, m.ts)}
      thread(root) == {m \in posted : m.rootId = root}
  IN  {[rootId |-> root, count |-> Cardinality(thread(root)), lastTs |-> MaxTs(thread(root))] :
         root \in {m.rootId : m \in posted}}

ConvMessageStats(db, conv) ==
  [total |-> Cardinality(Posted(db.messages, conv)), span |-> Span(Posted(db.messages, conv))]
=============================================================================
