------------------------------- MODULE Tools -------------------------------
(***************************************************************************)
(* The tools of the MCP server, zaungast/src/tools: what each of them      *)
(* prints, as far as it is told apart here, for the arguments it is given. *)
(*                                                                         *)
(* The readers of readConversation.ts give a page [shown, next]: what it   *)
(* prints, in order, and the cursor it offers for the page before it.  The *)
(* lists give rows, with the handles and counts that are printed.          *)
(***************************************************************************)
EXTENDS Topics

CONSTANTS
    ThreadInlineMax,    \* 40: a thread of at most this many messages is shown whole
    DigestWhole,        \* 5: so is one of this size in a digest
    Chunk,              \* 4000: the length of body that get_message prints at a time
    NamedGroups,        \* 3: the groups of reactions whose users are named
    CountedGroups,      \* 5: the groups that are shown by themselves
    NamesShown,         \* 3: the names of a group, or of the attendees of an event
    CollapseOver        \* 2: a series with more occurrences is collapsed

ASSUME DigestAssumption == DigestWhole >= 3      \* a thread that is cut shows four

-----------------------------------------------------------------------------
(* shared.ts: a time is NoTime, [at], [rel] to now, or text that is none.  *)

NoTime == [none |-> TRUE]
Unparsed == -2
ParseTime(t, now) ==
  CASE t = NoTime        -> None
    [] "at" \in DOMAIN t  -> t.at
    [] "rel" \in DOMAIN t -> now + t.rel
    [] OTHER              -> Unparsed
BadTime(args, now) == \E f \in {"since", "until"} : ParseTime(args[f], now) = Unparsed
Timed(args, now) ==
  [args EXCEPT !.since = ParseTime(@, now), !.until = ParseTime(@, now)]
(* For messages a bound of 0 is none. *)
MessageTimed(args, now) ==
  [args EXCEPT !.since = Max({0, ParseTime(@, now)}), !.until = Max({0, ParseTime(@, now)})]

Ambiguous(db, sels) ==
  \E s \in sels : "text" \in DOMAIN s /\ Len(ResolveConversations(db, s)) > 1

ResolveConversationArg(db, sel) ==
  LET cands == ResolveConversations(db, sel)
  IN  IF cands = <<>> THEN [miss |-> "no-such-conversation"]
      ELSE IF Ambiguous(db, {sel}) THEN [miss |-> "ambiguous"]
      ELSE [id |-> cands[1]]

-----------------------------------------------------------------------------
(* search *)

FromAmbiguityNote(db, from) ==
  \E s \in from : "text" \in DOMAIN s /\ QueryPeople(db, {s}, 0).total > 1

(* The hits are printed by the handle of their conversation and their id.  *)
Hits(db, rows) ==
  {<<IF k[1] \in DOMAIN db.conversations THEN db.handles[k[1]] ELSE <<"?">>, k[2]>> : k \in rows}

SearchTool(db, ftsEnabled, args, now) ==
  LET opts == [MessageTimed(args, now) EXCEPT !.limit = First(20, @, 60)]
  IN  IF BadTime(args, now) THEN {[rejected |-> "time"]}
      ELSE {IF Missed(res) THEN res
            ELSE [hits |-> Hits(db, res.rows),
                  narrow |-> FromAmbiguityNote(db, args.from) \/ Ambiguous(db, args.in)] @@ res :
              res \in QuerySearch(db, ftsEnabled, opts)}

-----------------------------------------------------------------------------
(* get_message: the body from an offset on, the offset to go on at, or     *)
(* None, and the thread the message is a reply in, "" for none.            *)

RankedReactions(reactions) ==
  LET first(g) == Min({Uncapped} \cup {g.users[i].time : i \in {j \in DOMAIN g.users : g.users[j].time # 0}})
  IN  SortSeq(reactions, LAMBDA a, b :
                \/ Len(a.users) > Len(b.users)
                \/ Len(a.users) = Len(b.users) /\ first(a) < first(b)
                \/ Len(a.users) = Len(b.users) /\ first(a) = first(b) /\ Before(a.key, b.key))

(* The users of a group: you first, then who reacted last. *)
OrderedNames(db, users) ==
  LET self(u) == Str(u.mri) = db.self
      sorted == SortSeq(users, LAMBDA a, b : \/ self(a) /\ ~self(b)
                                             \/ self(a) = self(b) /\ a.time > b.time)
      name(mri) == IF NameForMri(db, mri) = "" THEN "(unknown)" ELSE NameForMri(db, mri)
  IN  [i \in DOMAIN sorted |-> IF self(sorted[i]) THEN "you" ELSE name(sorted[i].mri)]

CountOf(ranked) == FoldLeft(LAMBDA n, g : n + Len(g.users), 0, ranked)

RenderReactions(db, reactions, full) ==
  LET ranked == RankedReactions(reactions)
      named(i) == IF full THEN Len(ranked[i].users)
                  ELSE IF i <= NamedGroups THEN NamesShown ELSE 0
      part(i) == [key |-> ranked[i].key, count |-> Len(ranked[i].users),
                  names |-> Oldest(OrderedNames(db, ranked[i].users), named(i)),
                  more |-> Max({0, Len(ranked[i].users) - named(i)})]
      apart == IF full THEN Len(ranked) ELSE Min({CountedGroups, Len(ranked)})
  IN  [parts |-> [i \in 1..apart |-> part(i)],
       tail |-> CountOf(SubSeq(ranked, apart + 1, Len(ranked)))]

GetMessage(db, sel, id, offset) ==
  LET conv == ResolveConversationArg(db, sel)
      m == ToMessage(CHOOSE n \in MessageById(db, conv.id, id) : TRUE)
      end == Min({offset + Chunk, Len(m.content)})
  IN  IF Missed(conv) THEN conv
      ELSE IF MessageById(db, conv.id, id) = {} THEN [miss |-> "no-such-message"]
      ELSE [body |-> SubSeq(m.content, offset + 1, end),
            next |-> IF end < Len(m.content) THEN end ELSE None,
            reactions |-> RenderReactions(db, m.reactions, TRUE),
            thread |-> IF m.rootId # id THEN m.rootId ELSE ""]

-----------------------------------------------------------------------------
(* The other lists *)

FindPerson(db, sel, n) ==
  LET res == QueryPeople(db, sel, n)
  IN  IF sel # {} /\ res.rows = <<>> THEN [miss |-> "no-such-person"] ELSE res

ListConversations(db, args, now) ==
  IF BadTime(args, now) THEN [rejected |-> "time"]
  ELSE [rows |-> QueryConversations(db, MessageTimed(args, now))]

(* A recording leads to the message that announced it, when its            *)
(* conversation is cached.                                                 *)
ListCalls(db, args, now) ==
  LET calls == QueryCalls(db, Timed(args, now))
      pivot(link) == IF link = <<>> \/ link[1] \notin DOMAIN db.conversations THEN <<>>
                     ELSE <<db.handles[link[1]], link[2]>>
  IN  IF BadTime(args, now) THEN [rejected |-> "time"]
      ELSE [rows |-> [i \in DOMAIN calls |-> [id |-> calls[i].call.id, label |-> calls[i].label,
                                              pivot |-> pivot(calls[i].link)]]]

RenderAttendees(attendees) ==
  LET names == SelectSeq([i \in DOMAIN attendees |-> attendees[i].n], LAMBDA n : n # "")
      shown == Oldest(names, NamesShown)
  IN  [total |-> Len(attendees), shown |-> shown, more |-> Len(attendees) - Len(shown),
       accepted |-> Cardinality({i \in DOMAIN attendees :
                                   attendees[i].r \in {"Accepted", "accepted"}})]

EventLine(db, e) ==
  [id |-> e.id, attendees |-> RenderAttendees(e.attendees),
   chat |-> IF e.kind = "meeting" /\ Truthy(e.cid) /\ e.cid.str \in DOMAIN db.conversations
            THEN db.handles[e.cid.str] ELSE <<>>]

(* A long series is one line and the number of its other occurrences.      *)
RenderEventGroups(db, rows) ==
  LET series(i) == rows[i].texts["seriesId"]
      group(i) == {j \in DOMAIN rows : series(j) = series(i)}
      lines(i) == IF ~Truthy(series(i)) \/ Cardinality(group(i)) <= CollapseOver
                  THEN <<EventLine(db, rows[i])>>
                  ELSE IF i # Min(group(i)) THEN <<>>
                  ELSE <<EventLine(db, rows[i]), [more |-> Cardinality(group(i)) - 1,
                                                  next |-> rows[Min(group(i) \ {i})].startTs]>>
  IN  FlattenSeq([i \in DOMAIN rows |-> lines(i)])

Week == 7
(* Without a window, the week that comes.  beyond: the window ends after   *)
(* all that is cached.  body: of a single event, unless confidential.      *)
ListEvents(db, args, now) ==
  LET given == Timed(args, now)
      opts == IF given.since = None /\ given.until = None
              THEN [given EXCEPT !.since = now, !.until = now + Week] ELSE given
      rows == QueryEvents(db, opts)
      open == args.includeBody /\ Len(rows) = 1 /\ rows[1].isConfidential = 0
      html == rows[1].texts["bodyContent"]
  IN  IF BadTime(args, now) THEN [rejected |-> "time"]
      ELSE [count |-> Len(rows), lines |-> RenderEventGroups(db, rows),
            beyond |-> opts.until # None /\ opts.until > MaxEventStart(db),
            body |-> IF open /\ Truthy(html) THEN HtmlToText(html.str) ELSE <<>>]

(* What is ranked, and the cache it leaves. *)
RankTopics(db, cache, args, now) ==
  IF BadTime(args, now) THEN [res |-> [rejected |-> "time"], cache |-> cache]
  ELSE ComputeTopics(db, cache, Timed(args, now))

-----------------------------------------------------------------------------
(* read_conversation: a flat page *)

FlatPage(db, conv, cursor, opts) ==
  LET res == InConversation(db, conv, cursor, opts)
  IN  [shown |-> Ids(res.rows), next |-> res.next]

(* The root of a chain, the first message when the root is not cached.     *)
SplitThread(rows, root) ==
  LET first == IF root \in Range(Ids(rows)) THEN root ELSE rows[1].id
  IN  [root |-> first, replies |-> SelectSeq(rows, LAMBDA m : m.id # first)]

-----------------------------------------------------------------------------
(* The digest: whole threads by last activity, up to a budget of messages. *)

LaterActive(s, t) == s.lastTs > t.lastTs \/ (s.lastTs = t.lastTs /\ Before(t.rootId, s.rootId))

(* Mutant: the replies that are shown, without the root. *)
ShownRepliesPer(n) == IF n <= DigestWhole THEN n ELSE 3

ShownPer(n) == IF n <= DigestWhole THEN n ELSE 4

Picked(summaries, limit) ==
  FoldLeft(LAMBDA p, s :
             IF p.full \/ (p.picked # <<>> /\ p.budget + ShownPer(s.count) > limit)
             THEN [p EXCEPT !.full = TRUE]
             ELSE [picked |-> Append(p.picked, s), budget |-> p.budget + ShownPer(s.count),
                   full |-> p.budget + ShownPer(s.count) >= limit],
           [picked |-> <<>>, budget |-> 0, full |-> FALSE], summaries)

(* A thread in it: the root and every reply, or the last three. *)
RenderDigestThread(db, conv, root) ==
  LET rows == QueryThread(db, conv, root)
      split == SplitThread(rows, root)
  IN  <<split.root>> \o Ids(IF Len(rows) <= DigestWhole THEN split.replies
                            ELSE Newest(split.replies, 3))

RenderChannelDigest(db, conv, cursor, opts) ==
  LET older(s) == \/ cursor = NoCursor
                  \/ s.lastTs < cursor.ts
                  \/ s.lastTs = cursor.ts /\ Before(s.rootId, cursor.id)
      summaries == InOrder({s \in QueryThreadSummaries(db, conv, opts) : older(s)}, LaterActive)
      res == Picked(summaries, opts.limit)
      picked == res.picked
      last == picked[Len(picked)]
  IN  [shown |-> Reverse([i \in DOMAIN picked |-> picked[i].rootId]), budget |-> res.budget,
       next |-> IF Len(summaries) > Len(picked) /\ picked # <<>>
                THEN [ts |-> last.lastTs, id |-> last.rootId] ELSE NoCursor]

ReadConversation(db, conv, cursor, opts) ==
  IF db.conversations[conv].kind = "channel"
  THEN RenderChannelDigest(db, conv, cursor, opts)
  ELSE FlatPage(db, conv, cursor, opts)

-----------------------------------------------------------------------------
(* One thread.  The cursor "before m:<id>" names a message; when it is no  *)
(* longer there, reading starts over at the newest reply.  hit: the reply  *)
(* the caller named, "" for the root.                                      *)

BeforeMessage(replies, id) ==
  LET cut == SelectSeq(replies, LAMBDA m : m.id = id)
  IN  IF cut = <<>> THEN replies
      ELSE SelectSeq(replies, LAMBDA m : Earlier(m, cut[1]))

Around(replies, hit, win) ==
  LET idx == SelectInSeq(replies, LAMBDA m : m.id = hit) - 1
      start == Max({0, Max({0, idx}) - win \div 2})
  IN  SubSeq(replies, start + 1, Min({start + win, Len(replies)}))

RenderThreadView(db, conv, root, cursor, win, hit) ==
  LET rows == QueryThread(db, conv, root)
      split == SplitThread(rows, root)
      long == Len(rows) > ThreadInlineMax
      from == IF cursor = NoCursor THEN split.replies
              ELSE BeforeMessage(split.replies, cursor.id)
      shown == IF hit # "" /\ long THEN Around(split.replies, hit, win)
               ELSE IF cursor # NoCursor \/ long THEN Newest(from, win)
               ELSE split.replies
      earlier == IF hit # "" /\ long
                 THEN IF shown = <<>> THEN 0 ELSE SelectInSeq(split.replies, LAMBDA m : m = shown[1]) - 1
                 ELSE Len(from) - Len(shown)
  IN  IF rows = <<>> THEN [shown |-> <<>>, next |-> NoCursor]
      ELSE [shown |-> <<split.root>> \o Ids(shown),
            next |-> IF earlier > 0 /\ shown # <<>>
                     THEN [ts |-> 0, id |-> shown[1].id] ELSE NoCursor]

(* read_thread takes the root or any reply of it, in a channel. *)
ReadThread(db, conv, id, cursor, win) ==
  LET msg == MessageById(db, conv, id)
      root == IF msg = {} THEN id ELSE (CHOOSE m \in msg : TRUE).rootId
  IN  IF db.conversations[conv].kind # "channel" THEN [shown |-> <<>>, next |-> NoCursor]
      ELSE RenderThreadView(db, conv, root, cursor, win, IF root = id THEN "" ELSE id)
=============================================================================
