------------------------------ MODULE Extract ------------------------------
(***************************************************************************)
(* From the decoded records of a snapshot to the rows of the base tables,  *)
(* in TypeScript: schema/versions/teams.v1.json applied by                 *)
(* format/resolver.ts, and the shaping of ingest/ingest-core.ts and        *)
(* util/text.ts.                                                           *)
(*                                                                         *)
(* Strings are atoms.  What the code reads inside one is a constant: the   *)
(* parts it includes, the number or date it parses to, the JSON it holds,  *)
(* the markup it is made of, its place in the collation order.             *)
(***************************************************************************)
EXTENDS Wire

CONSTANTS
    Includes,    \* pairs <<s, part>>: string s includes part
    Decimal,     \* the numbers that numeric strings stand for, by string
    Dates,       \* the instants that ISO strings stand for, by string
    Json,        \* the values that JSON strings hold, by string
    Markup,      \* the pieces that HTML strings consist of, by string
    Lower,       \* the lower-case form of the entity names that have capitals
    Collation    \* the strings that are sorted, in code-unit order

Has(s, part) == <<s, part>> \in Includes
Rank == Eager([s \in Range(Collation) |-> SelectInSeq(Collation, LAMBDA t : t = s)])
Before(s, t) == Rank[s] < Rank[t]

-----------------------------------------------------------------------------
(* JavaScript's reading of a value *)

Property(v, k) ==
  IF ~Is(v, "obj") THEN Undefined
  ELSE LET i == SelectInSeq(v.obj, LAMBDA p : p[1] = k)
       IN  IF i = 0 THEN Undefined ELSE v.obj[i][2]

Nullish(v) == v = Undefined \/ v = Null
Truthy(v) == ~Nullish(v) /\ v # No /\ v # Num(0) /\ v # Str("")
IsArray(v) == Is(v, "arr")
StringOf(v) ==
  CASE Is(v, "str")   -> v.str
    [] Is(v, "num")   -> ToString(v.num)
    [] Is(v, "bool")  -> ToString(v.bool)
    [] Is(v, "undef") -> "undefined"
    [] Is(v, "null")  -> "null"
    [] OTHER          -> "[object Object]"
StringOr(v, s) == IF Nullish(v) THEN s ELSE StringOf(v)
OrNull(v) == IF Nullish(v) THEN Null ELSE Str(StringOf(v))
NumberOrZero(v) ==
  CASE Is(v, "num")  -> v.num
    [] Is(v, "date") -> v.date
    [] Is(v, "bool") -> IF v.bool THEN 1 ELSE 0
    [] Is(v, "str")  -> IF v.str \in DOMAIN Decimal THEN Decimal[v.str] ELSE 0
    [] OTHER         -> 0
Bit(b) == IF b THEN 1 ELSE 0

-----------------------------------------------------------------------------
(* The mapping: which store each entity is read from, and the paths of its *)
(* fields in order of preference.                                          *)

One(path) == << <<path>> >>
Under(a, b) == << <<a, b>> >>

MessageFields ==
  [id |-> One("id"), conversationId |-> One("conversationId"),
   parentMessageId |-> One("parentMessageId"), version |-> One("version"),
   time |-> <<<<"originalArrivalTime">>, <<"composeTime">>, <<"clientArrivalTime">>>>,
   senderId |-> One("creator"), senderName |-> One("imDisplayName"),
   messageType |-> One("messageType"), content |-> One("content"),
   isSentByCurrentUser |-> One("isSentByCurrentUser"),
   mentions |-> Under("properties", "mentions"), files |-> Under("properties", "files"),
   reactions |-> Under("properties", "emotions")]
ConversationFields ==
  [id |-> One("id"),
   topic |-> <<<<"threadProperties", "topic">>, <<"threadProperties", "spaceThreadTopic">>>>,
   threadType |-> Under("threadProperties", "threadType"), teamId |-> One("teamId"),
   lastMessageTimeUtc |-> One("lastMessageTimeUtc")]
ProfileFields ==
  [mri |-> One("mri"), name |-> One("displayName"), givenName |-> One("givenName"),
   surname |-> One("surname"), type |-> One("type"), org |-> One("tenantName")]
EventFields ==
  [id |-> One("objectId"), startTime |-> One("startTime"), endTime |-> One("endTime"),
   isAllDay |-> One("isAllDayEvent"), isOnlineMeeting |-> One("isOnlineMeeting"),
   cid |-> Under("skypeTeamsDataObject", "cid"), isCancelled |-> One("isCancelled"),
   eventType |-> One("eventType"), sensitivityLabelId |-> One("sensitivityLabelId"),
   doNotForward |-> One("doNotForward"), hasAttachments |-> One("hasAttachments"),
   attendees |-> One("attendees"), seriesId |-> One("seriesMasterId"),
   subject |-> One("subject"), location |-> One("location"),
   organizerName |-> One("organizerName"), organizerEmail |-> One("organizerAddress"),
   myResponse |-> One("myResponseType"), showAs |-> One("showAs"),
   bodyContent |-> One("bodyContent")]
CallFields ==
  [id |-> One("callId"), callType |-> One("callType"), callDirection |-> One("callDirection"),
   callState |-> One("callState"), startTime |-> One("startTime"),
   durationInMs |-> One("durationInMs"), originator |-> One("originatorParticipant"),
   target |-> One("targetParticipant"), participantList |-> One("participantList"),
   groupChatThreadId |-> One("groupChatThreadId"), recordings |-> One("recordings"),
   transcript |-> One("transcript"), voicemailMetadata |-> One("voicemailMetadata"),
   spamRiskLevel |-> One("spamRiskLevel"), isDeleted |-> One("isDeleted"),
   isCurrentUserPartOfCall |-> One("isCurrentUserPartOfCall")]

FieldsOf ==
  [message |-> MessageFields, conversation |-> ConversationFields, profile |-> ProfileFields,
   event |-> EventFields, call |-> CallFields]

GetPath(v, path) == FoldLeft(LAMBDA x, k : Property(x, k), v, path)

Defined(v) == ~Nullish(v) /\ v # Str("")
FirstDefined(v, paths) ==
  FoldLeft(LAMBDA found, path : IF Defined(found) \/ ~Defined(GetPath(v, path))
                                THEN found ELSE GetPath(v, path),
           Undefined, paths)

MapFields(v, key, fields) ==
  Eager([f \in DOMAIN fields \cup {"key"} |->
           IF f = "key" THEN Str(key) ELSE FirstDefined(v, fields[f])])

(* A reply chain holds its messages in messageMap; only real ones are kept. *)
Items(v) == IF Is(v, "obj") THEN [i \in DOMAIN v.obj |-> v.obj[i][2]] ELSE <<>>
Kept(item) == Property(item, "type") = Str("Message")
RowsFromRecord(v, key, entity) ==
  LET items == IF entity = "message"
               THEN SelectSeq(Items(GetPath(v, <<"messageMap">>)), Kept) ELSE <<v>>
  IN  [i \in DOMAIN items |-> MapFields(items[i], key, FieldsOf[entity])]

(* records: sequence of [key, value]; one that does not decode is dropped. *)
RecordsToRows(records, entity) ==
  LET decoded == SelectSeq(records, LAMBDA rec : ~Is(rec.value, "fails") /\ Truthy(rec.value))
  IN  FlattenSeq([i \in DOMAIN decoded |->
                    RowsFromRecord(decoded[i].value, decoded[i].key, entity)])

-----------------------------------------------------------------------------
(* util/text.ts *)

Breaks == {"<div>", "</p>", "<br>"}
OtherTags == {"<b>", "<img>", "<span itemid=>"}
Entities == [x \in {"&nbsp;", "&amp;", "&auml;"} |->
               CASE x = "&nbsp;" -> " " [] x = "&amp;" -> "&" [] OTHER -> "ae"]
UnknownEntities == {"&zwj;"}
Blank == {" ", "\n"}

Replaced(p) ==
  CASE p \in Breaks -> <<"\n">>
    [] p \in OtherTags -> <<>>
    [] p \in DOMAIN Entities -> <<Entities[p]>>
    [] p \in DOMAIN Lower -> <<IF Lower[p] \in DOMAIN Entities
                               THEN Entities[Lower[p]] ELSE " ">>
    [] p \in UnknownEntities -> <<" ">>
    [] OTHER -> <<p>>

EndsWith(s, run) == Len(s) >= Len(run) /\ SubSeq(s, Len(s) - Len(run) + 1, Len(s)) = run
AtMost(s, run) ==    \* no run of blanks grows past the given one
  FoldLeft(LAMBDA out, p : IF p = run[1] /\ EndsWith(out, run) THEN out ELSE Append(out, p),
           <<>>, s)
Trim(s) ==
  LET text == {i \in DOMAIN s : s[i] \notin Blank}
  IN  IF text = {} THEN <<>> ELSE SubSeq(s, Min(text), Max(text))

HtmlToText(html) ==
  IF html \notin DOMAIN Markup THEN <<>>
  ELSE LET p == FlattenSeq([i \in DOMAIN Markup[html] |-> Replaced(Markup[html][i])])
       IN  Trim(AtMost(AtMost(p, <<" ">>), <<"\n", "\n">>))

IsSystemMessage(m) ==
  LET mt == StringOr(m.messageType, "")
  IN  \/ Has(mt, "^ThreadActivity/")
      \/ \E part \in {"Control", "Event", "SystemMessage"} : Has(mt, part)

HasAttachment(m, html) ==
  \/ html \in DOMAIN Markup
     /\ \E i \in DOMAIN Markup[html] : Markup[html][i] \in {"<img>", "<span itemid=>"}
  \/ Is(m.files, "str") /\ Len(m.files.str) > 2 /\ m.files # Str("[]")
  \/ IsArray(m.files) /\ m.files.arr # <<>>

(* mentions: an array, its JSON, or an object that carries it. *)
MentionedMris(mentions) ==
  LET inner == Property(mentions, "properties")
      raw == IF Truthy(inner) THEN Property(inner, "mentions") ELSE mentions
      arr == IF ~Is(raw, "str") THEN raw
             ELSE IF raw.str \in DOMAIN Json THEN Json[raw.str] ELSE Undefined
      mri(x) == LET named == SelectSeq([i \in 1..3 |-> Property(x, <<"mri", "itemid", "id">>[i])],
                                       Truthy)
                IN  IF named = <<>> THEN Undefined ELSE named[1]
  IN  IF IsArray(arr) THEN {mri(arr.arr[i]) : i \in DOMAIN arr.arr} \ {Undefined} ELSE {}

(* The structured name of a federated user is recovered from the display   *)
(* name: NameParts gives, for "Surname, Given (Org)", the parts around the *)
(* comma, and for a name without a comma <<"", the name>>.                 *)
CONSTANT NameParts
ResolveProfileName(name, given, surname, type) ==
  IF type = "Federated" /\ surname = ""
  THEN [givenName |-> NameParts[name][2], surname |-> NameParts[name][1]]
  ELSE [givenName |-> given, surname |-> surname]

-----------------------------------------------------------------------------
(* ingest/ingest-core.ts: pure shaping *)

ConvKind(id) ==
  IF Has(id, "@unq.gbl.spaces") THEN "1:1"
  ELSE IF Has(id, "meeting_") THEN "meeting"
  ELSE IF Has(id, "@thread.v2") THEN "group"
  ELSE IF Has(id, "@thread.skype") \/ Has(id, "@thread.tacv2") THEN "channel"
  ELSE "other"

CompactReactions(emotions) ==
  LET users(e) == SelectSeq(Property(e, "users").arr, LAMBDA u : Truthy(Property(u, "mri")))
      valid(e) == /\ Is(Property(e, "key"), "str")
                  /\ IsArray(Property(e, "users"))
                  /\ users(e) # <<>>
      reactor(u) == <<StringOf(Property(u, "mri")), NumberOrZero(Property(u, "time"))>>
      group(e) == [k |-> Property(e, "key").str,
                   u |-> SortSeq([i \in DOMAIN users(e) |-> reactor(users(e)[i])],
                                 LAMBDA x, y : Before(x[1], y[1]))]
      kept == IF IsArray(emotions) THEN SelectSeq(emotions.arr, valid) ELSE <<>>
  IN  SortSeq([i \in DOMAIN kept |-> group(kept[i])], LAMBDA x, y : Before(x.k, y.k))

TimeOf(m) ==
  IF NumberOrZero(m.time) # 0 THEN NumberOrZero(m.time)
  ELSE IF Is(m.time, "str") /\ m.time.str \in DOMAIN Dates THEN Dates[m.time.str]
  ELSE NumberOrZero(m.id)

ShapeMessageRow(m, selfMri) ==
  LET conv == m.conversationId.str
      html == IF Truthy(m.content) THEN StringOf(m.content) ELSE ""
      sender == IF Truthy(m.senderId) THEN StringOf(m.senderId) ELSE "?"
      mine == (selfMri # Null /\ Str(sender) = selfMri) \/ Truthy(m.isSentByCurrentUser)
      id == StringOf(m.id)
      parent == StringOr(m.parentMessageId, "")
  IN  [convId |-> conv, id |-> id, chainKey |-> StringOf(m.key),
       version |-> NumberOrZero(m.version), ts |-> TimeOf(m), senderMri |-> sender,
       senderName |-> IF Truthy(m.senderName) THEN StringOf(m.senderName) ELSE "",
       kind |-> ConvKind(conv), isMine |-> Bit(mine), isSystem |-> Bit(IsSystemMessage(m)),
       hasAttach |-> Bit(HasAttachment(m, html)),
       mentionsMe |-> Bit(selfMri # Null /\ ~mine /\ selfMri \in MentionedMris(m.mentions)),
       content |-> HtmlToText(html), reactions |-> CompactReactions(m.reactions),
       rootId |-> IF parent \notin {"", id} THEN parent ELSE id]

HasConversation(m) == Truthy(m.conversationId)
ShapeMessageRows(rows, selfMri) ==
  LET kept == SelectSeq(rows, HasConversation)
  IN  Eager([i \in DOMAIN kept |-> ShapeMessageRow(kept[i], selfMri)])

ShapeConversationMetaRows(rows) ==
  LET kept == SelectSeq(rows, LAMBDA c : Truthy(c.id))
      orNull(v) == IF Truthy(v) THEN v ELSE Null
  IN  Eager([i \in DOMAIN kept |->
        [id |-> kept[i].id.str, kind |-> ConvKind(kept[i].id.str),
         topic |-> orNull(kept[i].topic), teamId |-> orNull(kept[i].teamId),
         threadType |-> orNull(kept[i].threadType),
         metaLastTs |-> NumberOrZero(kept[i].lastMessageTimeUtc)]])

ShapeProfileRows(rows) ==
  Eager([i \in DOMAIN rows |->
    LET r == rows[i]
        type == IF StringOr(r.type, "") = "" THEN "None" ELSE StringOf(r.type)
        name == StringOr(r.name, "")
        parts == ResolveProfileName(name, StringOr(r.givenName, ""),
                                    StringOr(r.surname, ""), type)
    IN  [mri |-> StringOr(r.mri, ""), name |-> name, givenName |-> parts.givenName,
         surname |-> parts.surname, type |-> type, org |-> StringOr(r.org, "")]])

ToEpochMs(v) ==
  CASE Is(v, "date") -> v.date
    [] Is(v, "str")  -> IF v.str \in DOMAIN Dates THEN Dates[v.str] ELSE 0
    [] Is(v, "num")  -> v.num
    [] OTHER         -> 0

CompactAttendees(attendees) ==
  LET entry(a) == [n |-> StringOr(Property(a, "name"), ""),
                   e |-> StringOr(Property(a, "address"), ""),
                   r |-> StringOr(Property(Property(a, "status"), "response"), "")]
      person(a) == /\ StringOr(Property(a, "type"), "") \notin {"Resource", "resource"}
                   /\ entry(a).n # "" \/ entry(a).e # ""
      kept == IF IsArray(attendees) THEN SelectSeq(attendees.arr, person) ELSE <<>>
  IN  SortSeq([i \in DOMAIN kept |-> entry(kept[i])],
              LAMBDA x, y : IF x.n = y.n THEN Before(x.e, y.e) ELSE Before(x.n, y.n))

EventTexts == {"seriesId", "subject", "location", "organizerName", "organizerEmail",
               "myResponse", "showAs", "bodyContent"}
IdOrKey(r) == IF Truthy(r.id) THEN StringOf(r.id) ELSE StringOf(r.key)

ShapeEventRow(r) ==
  LET cid == IF Is(r.cid, "str") /\ Has(r.cid.str, "19:meeting_") THEN r.cid ELSE Null
  IN  [id |-> IdOrKey(r),
       kind |-> IF cid # Null \/ r.isOnlineMeeting = Yes THEN "meeting" ELSE "appointment",
       cid |-> cid, startTs |-> ToEpochMs(r.startTime), endTs |-> ToEpochMs(r.endTime),
       isAllDay |-> Bit(r.isAllDay = Yes), isCancelled |-> Bit(r.isCancelled = Yes),
       isConfidential |-> Bit(Truthy(r.sensitivityLabelId) \/ r.doNotForward = Yes),
       hasAttach |-> Bit(r.hasAttachments = Yes),
       attendees |-> CompactAttendees(r.attendees),
       texts |-> Eager([f \in EventTexts |-> OrNull(r[f])])]
ShapeEventRows(rows) ==
  LET kept == SelectSeq(rows, LAMBDA r : r.eventType # Str("RecurringMaster"))
  IN  Eager([i \in DOMAIN kept |-> ShapeEventRow(kept[i])])

CompactParticipants(list) ==
  LET entry(p) == [mri |-> StringOr(Property(p, "id"), ""),
                   name |-> OrNull(Property(p, "displayName"))]
      kept == IF IsArray(list) THEN SelectSeq(list.arr, LAMBDA p : entry(p).mri # "") ELSE <<>>
  IN  SortSeq([i \in DOMAIN kept |-> entry(kept[i])], LAMBDA x, y : Before(x.mri, y.mri))

FirstItem(v) == IF IsArray(v) /\ v.arr # <<>> THEN v.arr[1] ELSE Undefined
RecordingLinkOf(r) ==
  LET recorded == Property(FirstItem(r.recordings), "linkedMessage")
      lm == IF Nullish(recorded) THEN Property(r.transcript, "linkedMessage") ELSE recorded
      conv == Property(lm, "conversationId")
      msg == Property(lm, "linkedMessageId")
  IN  IF Truthy(conv) /\ Truthy(msg) THEN <<StringOf(conv), StringOf(msg)>> ELSE <<>>

ShapeCallRow(r) ==
  LET direction == OrNull(r.callDirection)
      counterpart == IF direction = Str("Outgoing") THEN r.target ELSE r.originator
  IN  [id |-> IdOrKey(r), callType |-> OrNull(r.callType), direction |-> direction,
       state |-> OrNull(r.callState), isMissed |-> Bit(OrNull(r.callState) = Str("Missed")),
       startTs |-> ToEpochMs(r.startTime), durationMs |-> NumberOrZero(r.durationInMs),
       counterpartMri |-> OrNull(Property(counterpart, "id")),
       participants |-> IF OrNull(r.callType) = Str("MultiParty")
                        THEN CompactParticipants(r.participantList) ELSE <<>>,
       groupThreadId |-> OrNull(r.groupChatThreadId),
       hasRecording |-> Bit(IsArray(r.recordings) /\ r.recordings.arr # <<>>),
       recordingLink |-> RecordingLinkOf(r), hasVoicemail |-> Bit(Truthy(r.voicemailMetadata)),
       spamLevel |-> OrNull(r.spamRiskLevel),
       isCurrentUserPart |-> Bit(r.isCurrentUserPartOfCall # No),
       isDeleted |-> Bit(r.isDeleted = Yes)]
ShapeCallRows(rows) == Eager([i \in DOMAIN rows |-> ShapeCallRow(rows[i])])

(* The most frequent sender of the messages that the current user sent,    *)
(* the first one met when several are.                                     *)
VoteSelfMri(rows) ==
  LET sent == SelectSeq(rows, LAMBDA m : Truthy(m.isSentByCurrentUser) /\ Truthy(m.senderId))
      votes(i) == Cardinality({j \in DOMAIN sent : sent[j].senderId = sent[i].senderId})
      best == {i \in DOMAIN sent : \A j \in DOMAIN sent : votes(j) <= votes(i)}
  IN  IF best = {} THEN Null ELSE sent[Min(best)].senderId
=============================================================================
