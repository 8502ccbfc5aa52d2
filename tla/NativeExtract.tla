--------------------------- MODULE NativeExtract ---------------------------
(***************************************************************************)
(* The same way from decoded records to rows in the native engine:         *)
(* format/resolver.rs, text.rs, store/convert.rs and the apply_ and        *)
(* replace_ functions of store/extract.rs.  The readings of a string and   *)
(* the mapping file are those of module Extract; everything the Rust code  *)
(* computes from them is defined here anew.  A missing property reads as   *)
(* Undefined, which Rust's Option patterns treat alike.                    *)
(***************************************************************************)
EXTENDS Extract


Holds(s, part) == <<s, part>> \in Includes
Less(s, t) == Before(s, t)

Get(v, k) ==
  IF Is(v, "obj") /\ \E i \in DOMAIN v.obj : v.obj[i][1] = k
  THEN v.obj[CHOOSE i \in DOMAIN v.obj : v.obj[i][1] = k][2] ELSE Undefined

Absent(v) == Is(v, "undef") \/ Is(v, "null")
AsStr(v) == IF Is(v, "str") THEN v.str ELSE ""       \* as_str(..).unwrap_or("")
IsTrue(v) == v = Yes
IsTruthy(v) == ~(Absent(v) \/ v = No \/ v = Num(0) \/ v = Str(""))
IsFalsy(v) == ~IsTruthy(v)
ToNum(v) ==                                          \* NaN is read as 0 by every caller
  CASE Is(v, "num")  -> v.num
    [] Is(v, "date") -> v.date
    [] v = Yes       -> 1
    [] Is(v, "str")  -> IF v.str \in DOMAIN Decimal THEN Decimal[v.str] ELSE 0
    [] OTHER         -> 0
ToJsString(v) ==
  CASE Absent(v)     -> Null
    [] Is(v, "str")  -> v
    [] Is(v, "num")  -> Str(ToString(v.num))
    [] Is(v, "bool") -> Str(ToString(v.bool))
    [] OTHER         -> Str("")
OrEmpty(v) == IF ToJsString(v) = Null THEN "" ELSE ToJsString(v).str
ArrayItems(v) == IF Is(v, "arr") THEN v.arr ELSE <<>>
AsInt(b) == IF b THEN 1 ELSE 0

-----------------------------------------------------------------------------
(* format/resolver.rs *)

NGetPath(v, path) == FoldLeft(Get, v, path)

NFirstDefined(v, paths) ==
  FoldLeft(LAMBDA found, path : LET x == NGetPath(v, path)
                                IN  IF Absent(found) /\ ~Absent(x) /\ x # Str("") THEN x ELSE found,
           Undefined, paths)

NMapFields(v, key, fields) ==
  [f \in DOMAIN fields \cup {"key"} |->
     IF f = "key" THEN Str(key) ELSE NFirstDefined(v, fields[f])]

(* Only an object is iterated, and only string, boolean, number and null   *)
(* items compare equal to the mapping's "equals".                          *)
NRowsFromRecord(v, key, entity) ==
  LET container == NGetPath(v, <<"messageMap">>)
      held == IF Is(container, "obj") THEN container.obj ELSE <<>>
      messages == SelectSeq(held, LAMBDA p : NGetPath(p[2], <<"type">>) = Str("Message"))
      items == IF entity = "message" THEN messages ELSE <<<<key, v>>>>
  IN  [i \in DOMAIN items |-> NMapFields(items[i][2], key, FieldsOf[entity])]

ExtractRows(records, entity) ==
  FoldLeft(LAMBDA rows, rec : IF Is(rec.value, "fails") \/ IsFalsy(rec.value) THEN rows
                              ELSE rows \o NRowsFromRecord(rec.value, rec.key, entity),
           <<>>, records)

-----------------------------------------------------------------------------
(* text.rs *)

EntityExact == ("&nbsp;" :> " ") @@ ("&amp;" :> "&") @@ ("&auml;" :> "ae")
IsTag(p) == p \in {"<div>", "</p>", "<br>", "<b>", "<img>", "<span itemid=>"}
IsNamed(p) == p \in DOMAIN EntityExact \cup DOMAIN Lower \cup {"&zwj;"}
Substitute(p) ==
  IF IsTag(p) THEN IF p \in {"<div>", "</p>", "<br>"} THEN <<"\n">> ELSE <<>>
  ELSE IF ~IsNamed(p) THEN <<p>>
  ELSE IF p \in DOMAIN EntityExact THEN <<EntityExact[p]>>
  ELSE IF p \in DOMAIN Lower /\ Lower[p] \in DOMAIN EntityExact THEN <<EntityExact[Lower[p]]>>
  ELSE <<" ">>

NHtmlToText(html) ==
  LET pieces == IF html \in DOMAIN Markup THEN Markup[html] ELSE <<>>
      add(out, p) ==
        LET n == Len(out) IN
        IF \/ p = " " /\ n >= 1 /\ out[n] = " "
           \/ p = "\n" /\ n >= 2 /\ out[n] = "\n" /\ out[n - 1] = "\n"
        THEN out ELSE Append(out, p)
      collapsed == FoldLeft(add, <<>>,
                            FoldLeft(LAMBDA out, p : out \o Substitute(p), <<>>, pieces))
      words == {i \in DOMAIN collapsed : collapsed[i] \notin {" ", "\n"}}
  IN  IF words = {} THEN <<>> ELSE SubSeq(collapsed, Min(words), Max(words))

NResolveProfileName(display, given, surname, ptype) ==
  IF ptype # "Federated" \/ surname # "" THEN <<given, surname>>
  ELSE <<NameParts[display][2], NameParts[display][1]>>

-----------------------------------------------------------------------------
(* store/convert.rs *)

NConvKind(id) ==
  CASE Holds(id, "@unq.gbl.spaces") -> "1:1"
    [] ~Holds(id, "@unq.gbl.spaces") /\ Holds(id, "meeting_") -> "meeting"
    [] ~Holds(id, "@unq.gbl.spaces") /\ ~Holds(id, "meeting_")
         /\ Holds(id, "@thread.v2") -> "group"
    [] OTHER -> IF Holds(id, "@thread.skype") \/ Holds(id, "@thread.tacv2")
                THEN "channel" ELSE "other"

NIsSystemMessage(m) ==
  \E part \in {"^ThreadActivity/", "Control", "Event", "SystemMessage"} :
    Holds(AsStr(m.messageType), part)

NHasAttachment(m, html) ==
  \/ html \in DOMAIN Markup
     /\ \E i \in DOMAIN Markup[html] : Markup[html][i] \in {"<img>", "<span itemid=>"}
  \/ Len(AsStr(m.files)) > 2
  \/ ArrayItems(m.files) # <<>>

NMentionedMris(m) ==
  LET inner == Get(Get(m.mentions, "properties"), "mentions")
      raw == IF Is(m.mentions, "obj") /\ ~Is(inner, "undef") THEN inner ELSE m.mentions
      list == IF Is(raw, "str") /\ raw.str \in DOMAIN Json THEN Json[raw.str] ELSE raw
      pick(o) == LET s == SelectSeq([i \in 1..3 |-> AsStr(Get(o, <<"mri", "itemid", "id">>[i]))],
                                    LAMBDA x : x # "")
                 IN  IF s = <<>> THEN "" ELSE s[1]
  IN  {pick(ArrayItems(list)[i]) : i \in DOMAIN ArrayItems(list)} \ {""}

NCompactReactions(emotions) ==
  LET users(e) == SelectSeq(ArrayItems(Get(e, "users")), LAMBDA u : Is(Get(u, "mri"), "str"))
      add(groups, e) ==
        IF ~Is(Get(e, "key"), "str") \/ users(e) = <<>> THEN groups
        ELSE Append(groups,
               [k |-> Get(e, "key").str,
                u |-> SortSeq([i \in DOMAIN users(e) |->
                                <<Get(users(e)[i], "mri").str, ToNum(Get(users(e)[i], "time"))>>],
                              LAMBDA x, y : Less(x[1], y[1]))])
  IN  SortSeq(FoldLeft(add, <<>>, ArrayItems(emotions)), LAMBDA x, y : Less(x.k, y.k))

(* Mutant: rooms stay in the list of the people invited. *)
NAttendeesWithRooms(attendees) ==
  LET entry(a) == [n |-> OrEmpty(Get(a, "name")), e |-> OrEmpty(Get(a, "address")),
                   r |-> OrEmpty(Get(Get(a, "status"), "response"))]
  IN  SortSeq([i \in DOMAIN ArrayItems(attendees) |-> entry(ArrayItems(attendees)[i])],
              LAMBDA x, y : IF x.n = y.n THEN Less(x.e, y.e) ELSE Less(x.n, y.n))

NCompactAttendees(attendees) ==
  LET entry(a) == [n |-> OrEmpty(Get(a, "name")), e |-> OrEmpty(Get(a, "address")),
                   r |-> OrEmpty(Get(Get(a, "status"), "response"))]
      add(out, a) == IF \/ AsStr(Get(a, "type")) \in {"Resource", "resource"}
                        \/ entry(a).n = "" /\ entry(a).e = ""
                     THEN out ELSE Append(out, entry(a))
  IN  SortSeq(FoldLeft(add, <<>>, ArrayItems(attendees)),
              LAMBDA x, y : IF x.n = y.n THEN Less(x.e, y.e) ELSE Less(x.n, y.n))

NCompactParticipants(list) ==
  LET add(out, p) == IF ~Is(Get(p, "id"), "str") THEN out
                     ELSE Append(out, [mri |-> Get(p, "id").str,
                                       name |-> ToJsString(Get(p, "displayName"))])
  IN  SortSeq(FoldLeft(add, <<>>, ArrayItems(list)), LAMBDA x, y : Less(x.mri, y.mri))

NRecordingLinkOf(r) ==
  LET items == ArrayItems(r.recordings)
      first == IF items = <<>> THEN Undefined ELSE Get(items[1], "linkedMessage")
      lm == IF Is(first, "undef") THEN Get(r.transcript, "linkedMessage") ELSE first
  IN  IF Is(Get(lm, "conversationId"), "str") /\ Is(Get(lm, "linkedMessageId"), "str")
      THEN <<Get(lm, "conversationId").str, Get(lm, "linkedMessageId").str>> ELSE <<>>

NToEpochMs(v) ==
  IF Is(v, "date") THEN v.date ELSE IF Is(v, "num") THEN v.num
  ELSE IF Is(v, "str") /\ v.str \in DOMAIN Dates THEN Dates[v.str] ELSE 0

-----------------------------------------------------------------------------
(* store/extract.rs: the rows each statement is executed with *)

MessageTs(m) ==
  IF ToNum(m.time) # 0 THEN ToNum(m.time)
  ELSE IF NToEpochMs(m.time) # 0 THEN NToEpochMs(m.time) ELSE ToNum(m.id)

MessageRow(m, self) ==
  LET conv == AsStr(m.conversationId)
      sender == IF AsStr(m.senderId) = "" THEN "?" ELSE AsStr(m.senderId)
      mine == self = Str(sender) \/ IsTrue(m.isSentByCurrentUser)
      id == OrEmpty(m.id)
      parent == OrEmpty(m.parentMessageId)
  IN  [convId |-> conv, id |-> id, chainKey |-> AsStr(m.key), version |-> ToNum(m.version),
       ts |-> MessageTs(m), senderMri |-> sender, senderName |-> AsStr(m.senderName),
       kind |-> NConvKind(conv), isMine |-> AsInt(mine), isSystem |-> AsInt(NIsSystemMessage(m)),
       hasAttach |-> AsInt(NHasAttachment(m, AsStr(m.content))),
       mentionsMe |-> AsInt(~mine /\ \E x \in NMentionedMris(m) : Str(x) = self),
       content |-> NHtmlToText(AsStr(m.content)), reactions |-> NCompactReactions(m.reactions),
       rootId |-> IF parent # "" /\ parent # id THEN parent ELSE id]

MessageRows(rows, self) ==
  LET kept == SelectSeq(rows, LAMBDA m : AsStr(m.conversationId) # "")
  IN  [i \in DOMAIN kept |-> MessageRow(kept[i], self)]

ConversationRows(rows) ==
  LET kept == SelectSeq(rows, LAMBDA c : AsStr(c.id) # "")
      orNull(v) == IF AsStr(v) = "" THEN Null ELSE v
  IN  [i \in DOMAIN kept |->
        [id |-> kept[i].id.str, kind |-> NConvKind(kept[i].id.str),
         topic |-> orNull(kept[i].topic), teamId |-> orNull(kept[i].teamId),
         threadType |-> orNull(kept[i].threadType),
         metaLastTs |-> ToNum(kept[i].lastMessageTimeUtc)]]

ProfileRows(rows) ==
  LET kept == SelectSeq(rows, LAMBDA r : OrEmpty(r.mri) # "" /\ OrEmpty(r.name) # "")
  IN  [i \in DOMAIN kept |->
        LET r == kept[i]
            ptype == IF OrEmpty(r.type) = "" THEN "None" ELSE OrEmpty(r.type)
            parts == NResolveProfileName(OrEmpty(r.name), OrEmpty(r.givenName),
                                         OrEmpty(r.surname), ptype)
        IN  [mri |-> OrEmpty(r.mri), name |-> OrEmpty(r.name), givenName |-> parts[1],
             surname |-> parts[2], type |-> ptype, org |-> OrEmpty(r.org)]]

NIdOrKey(r) == IF Absent(r.id) THEN AsStr(r.key) ELSE OrEmpty(r.id)

EventRow(r) ==
  LET cid == IF Holds(AsStr(r.cid), "19:meeting_") THEN r.cid ELSE Null
  IN  [id |-> NIdOrKey(r),
       kind |-> IF cid # Null \/ IsTrue(r.isOnlineMeeting) THEN "meeting" ELSE "appointment",
       cid |-> cid, startTs |-> NToEpochMs(r.startTime), endTs |-> NToEpochMs(r.endTime),
       isAllDay |-> AsInt(IsTrue(r.isAllDay)), isCancelled |-> AsInt(IsTrue(r.isCancelled)),
       isConfidential |-> AsInt(IsTruthy(r.sensitivityLabelId) \/ IsTrue(r.doNotForward)),
       hasAttach |-> AsInt(IsTrue(r.hasAttachments)),
       attendees |-> NCompactAttendees(r.attendees),
       texts |-> Eager([f \in EventTexts |-> ToJsString(r[f])])]
EventRows(rows) ==
  LET kept == SelectSeq(rows, LAMBDA r : AsStr(r.eventType) # "RecurringMaster")
  IN  [i \in DOMAIN kept |-> EventRow(kept[i])]

CallRow(r) ==
  LET direction == ToJsString(r.callDirection)
      callType == ToJsString(r.callType)
      state == ToJsString(r.callState)
      counterpart == IF direction = Str("Outgoing") THEN r.target ELSE r.originator
  IN  [id |-> NIdOrKey(r), callType |-> callType, direction |-> direction, state |-> state,
       isMissed |-> AsInt(state = Str("Missed")), startTs |-> NToEpochMs(r.startTime),
       durationMs |-> ToNum(r.durationInMs),
       counterpartMri |-> ToJsString(Get(counterpart, "id")),
       participants |-> IF callType = Str("MultiParty")
                        THEN NCompactParticipants(r.participantList) ELSE <<>>,
       groupThreadId |-> ToJsString(r.groupChatThreadId),
       hasRecording |-> AsInt(ArrayItems(r.recordings) # <<>>),
       recordingLink |-> NRecordingLinkOf(r), hasVoicemail |-> AsInt(IsTruthy(r.voicemailMetadata)),
       spamLevel |-> ToJsString(r.spamRiskLevel),
       isCurrentUserPart |-> AsInt(r.isCurrentUserPartOfCall # No),
       isDeleted |-> AsInt(IsTrue(r.isDeleted))]
CallRows(rows) == [i \in DOMAIN rows |-> CallRow(rows[i])]

(* The vote.  Several best senders: the LAST one that was met first wins.  *)
NVoteSelfMri(rows) ==
  LET sent == SelectSeq(rows, LAMBDA m : IsTrue(m.isSentByCurrentUser) /\ Is(m.senderId, "str"))
      votes(i) == Cardinality({j \in DOMAIN sent : sent[j].senderId = sent[i].senderId})
      first == {i \in DOMAIN sent : \A j \in 1..(i - 1) : sent[j].senderId # sent[i].senderId}
      best == {i \in first : \A j \in first : votes(j) <= votes(i)}
  IN  IF best = {} THEN Null ELSE sent[Max(best)].senderId
=============================================================================
