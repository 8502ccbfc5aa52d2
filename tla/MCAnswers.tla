----------------------------- MODULE MCAnswers -----------------------------
(***************************************************************************)
(* A small profile: a channel with three reply chains, one of which has    *)
(* lost its root, a group chat with equal timestamps and one malformed     *)
(* record, and records of every other entity.                              *)
(***************************************************************************)
EXTENDS Answers

MCShared == [ann |-> Obj(<<<<"mri", Str("ann")>>, <<"time", Num(3)>>>>),
             hearts |-> Obj(<<<<"key", Str("heart")>>,
                              <<"users", Arr(<<[again |-> "ann"], Obj(<<<<"mri", [utf |-> "bob"]>>,
                                                           <<"time", Num(4)>>>>)>>)>>>>)]
Emotions(es) == <<"properties", Obj(<<<<"emotions", Arr(es)>>>>)>>
Likes == Obj(<<<<"key", Str("like")>>,
               <<"users", Arr(<<Obj(<<<<"mri", [utf |-> "bob"]>>>>), [at |-> "ann"]>>)>>>>)

Msg(conv, id, time, who, more) ==
  LET usual == <<<<"id", Str(id)>>, <<"type", Str("Message")>>, <<"conversationId", Str(conv)>>,
                 <<"originalArrivalTime", Num(time)>>, <<"creator", [wide |-> who]>>,
                 <<"imDisplayName", Str(who)>>, <<"messageType", Str("Text")>>,
                 <<"content", Str("html-hello")>>>>
      kept == SelectSeq(usual, LAMBDA p : \A i \in DOMAIN more : more[i][1] # p[1])
  IN  <<id, Obj(kept \o more)>>
Version(n) == <<"version", Str(ToString(n))>>
Of(root) == <<"parentMessageId", Str(root)>>
Mine == <<"isSentByCurrentUser", Yes>>
Chained(msgs) == Obj(<<<<"messageMap", Obj(msgs)>>>>)

Reply(id, time, who, more) == Msg("chan", id, time, who, <<Of("1")>> \o more)
Laughs == Obj(<<<<"key", Str("laugh")>>, <<"users", Arr(<<Obj(<<<<"mri", Str("dee")>>>>)>>)>>>>)
Root1 == Msg("chan", "1", 1, "ann", <<Emotions(<<Likes, [at |-> "hearts"], Laughs>>), Of("1")>>)
LongChain ==
  <<Chained(<<Root1, Reply("2", 2, "bob", <<Mine>>), Reply("3", 3, "ann", <<>>),
              Reply("4", 3, "bob", <<Mine>>), Reply("5", 4, "cy", <<Emotions(<<[again |-> "hearts"]>>)>>)>>),
    Chained(<<Root1, Reply("2", 2, "bob", <<Mine>>), Reply("4", 3, "bob", <<Mine, Version(2)>>),
              Reply("5", 4, "cy", <<Version(2), <<"content", Str("html-bye")>>>>),
              Reply("8", 6, "ann", <<<<"imDisplayName", Str("eve")>>>>)>>)>>
ShortChain ==
  <<Chained(<<Msg("chan", "6", 5, "cy", <<>>)>>),
    Chained(<<Msg("chan", "6", 5, "cy", <<>>),
              Msg("chan", "7", 7, "ann", <<Of("6"), <<"messageType", Str("Event/Call")>>>>)>>)>>
RootlessChain ==
  <<Chained(<<Msg("chan", "b", 5, "bob", <<Of("a"), Mine, <<"imDisplayName", Str("robert")>>>>),
              Msg("chan", "c", 5, "dee", <<Of("a"), <<"properties",
                Obj(<<<<"mentions", Str("json-bob")>>, <<"files", Arr(<<Num(1)>>)>>>>)>>>>)>>),
    Chained(<<Msg("chan", "a", 2, "ann", <<>>), Msg("chan", "b", 5, "bob", <<Of("a"), Mine>>),
              Msg("chan", "c", 5, "dee", <<Of("a")>>)>>)>>
GroupChain ==
  <<Chained(<<Msg("grp", "1", 2, "ann", <<>>), Msg("grp", "2", 2, "bob", <<Mine>>),
              Msg("grp", "3", 2, "bob", <<>>), Msg("grp", "4", 3, "ann", <<<<"content", Str("html-bye")>>>>),
              <<"x", Obj(<<<<"type", Str("Typing")>>>>)>>>>),
    Chained(<<Msg("grp", "1", 2, "ann", <<>>), Msg("grp", "3", 2, "bob", <<Version(3)>>),
              Msg("grp", "5", 3, "cy", <<>>)>>)>>

Conversation(id, more) == Obj(<<<<"id", Str(id)>>>> \o more)
Titled(t) == <<"threadProperties", Obj(<<<<"topic", Null>>, <<"spaceThreadTopic", Str(t)>>>>)>>
ChanRecord == <<Conversation("chan", <<Titled("Plans"), <<"lastMessageTimeUtc", [date |-> 9]>>>>),
                Conversation("chan", <<Titled("Ideas")>>)>>
EmptyRecord == <<Conversation("meet", <<Titled("Empty")>>)>>
PeopleRecord ==
  <<Obj(<<<<"mri", Str("dee")>>, <<"displayName", Str("Roe, Dee (X)")>>, <<"type", Str("Federated")>>>>),
    Obj(<<<<"displayName", Str("nobody")>>>>)>>
Weekly == <<"seriesMasterId", Str("weekly")>>
EventRecord ==
  <<Obj(<<<<"startTime", [date |-> 5]>>, Weekly, <<"endTime", Str("iso-6")>>,
          <<"skypeTeamsDataObject", Obj(<<<<"cid", Str("meet")>>>>)>>,
          <<"attendees", Arr(<<Obj(<<<<"name", Str("cy")>>, <<"address", Str("b@x")>>>>),
                               Obj(<<<<"name", Str("cy")>>, <<"address", Str("a@x")>>,
                                     <<"status", Obj(<<<<"response", Str("Accepted")>>>>)>>>>),
                               Obj(<<<<"name", Str("room")>>, <<"type", Str("Resource")>>>>),
                               Obj(<<<<"name", Null>>>>)>>)>>,
          <<"other", [map |-> <<<<Num(1), Yes>>, <<Str("k"), [set |-> <<Num(-2), [big |-> 7]>>]>>>>]>>,
          <<"slots", [sparse |-> 3, slots |-> <<<<Num(1), [blob |-> 2]>>>>]>>,
          <<"file", [bytes |-> 4]>>, <<"title", [boxed |-> "t"]>>>>),
    Obj(<<<<"eventType", Str("RecurringMaster")>>, <<"objectId", Str("e")>>>>)>>
LaterRecord ==
  <<Obj(<<<<"startTime", [date |-> 7]>>, Weekly, <<"bodyContent", Str("html-hello")>>,
          <<"attendees", Arr(<<Obj(<<<<"name", Str("cy")>>>>)>>)>>>>)>>
CallRecord ==
  <<Obj(<<<<"groupChatThreadId", Str("grp")>>, <<"callId", Str("call")>>, <<"callType", Str("MultiParty")>>, <<"callState", Str("Missed")>>,
          <<"startTime", Str("iso-6")>>, <<"durationInMs", Str("30")>>,
          <<"participantList", Arr(<<Obj(<<<<"id", Str("cy")>>>>), Obj(<<<<"id", Str("ann")>>,
                                     <<"displayName", Str("ann")>>>>), Obj(<<>>)>>)>>,
          <<"recordings", Arr(<<Obj(<<<<"linkedMessage", Obj(<<<<"conversationId", Str("chan")>>,
                                        <<"linkedMessageId", Str("5")>>>>)>>>>)>>)>>,
          <<"originatorParticipant", Obj(<<<<"id", Str("bob")>>>>)>>,
          <<"isDeleted", No>>>>),
    Obj(<<<<"callDirection", Str("Outgoing")>>, <<"voicemailMetadata", Obj(<<>>)>>,
          <<"targetParticipant", Obj(<<<<"id", Str("dee")>>>>)>>, <<"isCurrentUserPartOfCall", No>>>>)>>

MCKeyOrder == <<"k1", "k2", "k3", "k4", "c1", "c2", "p1", "e1", "e2", "x1">>
MCCorpus == [k1 |-> LongChain, k2 |-> ShortChain, k3 |-> RootlessChain, k4 |-> GroupChain,
             c1 |-> ChanRecord, c2 |-> EmptyRecord, p1 |-> PeopleRecord, e1 |-> EventRecord,
             e2 |-> LaterRecord, x1 |-> CallRecord]
MCEntityOf == [k \in DOMAIN MCCorpus |->
                 CASE k \in {"k1", "k2", "k3", "k4"} -> "message"
                   [] k \in {"c1", "c2"} -> "conversation"
                   [] k = "p1" -> "profile" [] k \in {"e1", "e2"} -> "event" [] OTHER -> "call"]
MCProfiles == {[k \in DOMAIN MCCorpus |-> 1], [k \in DOMAIN MCCorpus |-> IF k = "c1" THEN 0 ELSE 1]}

MCWindows == {Unbounded, [since |-> 3, until |-> 6]}

Search1 == [query |-> "bye", in |-> {}, from |-> {}, exclude |-> {}, kind |-> "",
            mentionsMe |-> FALSE, hasAttachment |-> FALSE, since |-> NoTime, until |-> NoTime,
            limit |-> 2]
MCSearches ==
  {[Search1 EXCEPT !.limit = 1], [Search1 EXCEPT !.in = {"chan"}], [Search1 EXCEPT !.in = {"meet"}],
   [Search1 EXCEPT !.exclude = {"grp"}, !.query = ""], [Search1 EXCEPT !.from = {"ann"}],
   [Search1 EXCEPT !.in = {"grp"}, !.from = {"bob"}, !.exclude = {"ann"}],
   [Search1 EXCEPT !.from = {"ann"}, !.query = "&", !.hasAttachment = TRUE],
   [Search1 EXCEPT !.mentionsMe = TRUE, !.query = "", !.until = [rel |-> 5]],
   [Search1 EXCEPT !.from = {"part"}, !.query = ""],
   [Search1 EXCEPT !.kind = "channel", !.query = "", !.since = [at |-> 3], !.until = [at |-> 6]],
   [Search1 EXCEPT !.query = "", !.since = [at |-> 8], !.limit = 0],
   [Search1 EXCEPT !.since = [text |-> "soon"]]}

Topics1 == [in |-> {}, from |-> {"ann"}, exclude |-> {}, words |-> {}, extra |-> {},
            includeBots |-> FALSE, since |-> NoTime, until |-> NoTime, window |-> "7d"]
MCTopics ==
  {Topics1, [Topics1 EXCEPT !.extra = {"hello"}],
   [Topics1 EXCEPT !.in = {"chan"}, !.from = {}, !.exclude = {"dee"}, !.words = {"bye"},
                   !.includeBots = TRUE, !.since = [at |-> 1], !.window = "1d"],
   [Topics1 EXCEPT !.until = [text |-> "soon"]]}

Calls1 == [direction |-> "", missed |-> FALSE, since |-> NoTime, until |-> NoTime,
           participant |-> "", limit |-> 0]
MCCalls == {Calls1, [Calls1 EXCEPT !.missed = TRUE, !.since = [rel |-> 0], !.participant = "bob"],
            [Calls1 EXCEPT !.direction = "Outgoing", !.until = [at |-> 5], !.limit = 1]}

Events1 == [since |-> NoTime, until |-> NoTime, type |-> "", query |-> "", attendee |-> "",
            hideCancelled |-> FALSE, limit |-> 0, includeBody |-> TRUE]
MCEvents == {Events1, [Events1 EXCEPT !.type = "meeting", !.attendee = "cy", !.limit = 1],
             [Events1 EXCEPT !.since = [at |-> 0], !.until = [at |-> 9], !.hideCancelled = TRUE]}

MCAsks == [search |-> MCSearches, topics |-> MCTopics, calls |-> MCCalls, events |-> MCEvents]

MCLetters == ("bye" :> 3) @@ ("hello" :> 5) @@ ("you" :> 3) @@ ("robert" :> 6)
             @@ [name \in {"ann", "bob", "dee", "eve"} |-> 3] @@ ("cy" :> 2)
MCNameWords == [name \in {"ann", "bob", "cy", "dee", "eve", "robert"} |-> {name}] @@ ("" :> {})
MCWindowLength == ("1d" :> 2) @@ ("7d" :> 4)
MCWords == ("" :> <<>>) @@ ("bye" :> <<"bye">>) @@ ("&" :> <<>>)

MCIncludes == {<<"chan", "@thread.skype">>, <<"meet", "meeting_">>, <<"grp", "@thread.v2">>,
               <<"Event/Call", "Event">>, <<"meet", "19:meeting_">>, <<"cy", "^28:">>, <<"robert", "part">>}
MCDecimal == ("2" :> 2) @@ ("3" :> 3) @@ ("30" :> 30)
MCDates == ("iso-6" :> 6)
MCJson == ("json-bob" :> Arr(<<Obj(<<<<"mri", Str("bob")>>>>)>>))
MCMarkup == ("html-hello" :> <<"<div>", "hello", "&NBSP;", " ", "&zwj;", "you", "<br>", "</p>", "\n">>)
            @@ ("html-bye" :> <<"bye", "bob", "ann", "<b>", "&amp;", "<img>", "ann", "bob">>)
MCLower == ("&NBSP;" :> "&nbsp;")
MCCollation == <<"", "1", "2", "3", "4", "5", "6", "7", "8", "a", "a@x", "ann", "b", "b@x", "bob",
                 "c", "call", "chan", "cy", "dee", "e", "e1", "e2", "grp", "heart", "laugh", "like",
                 "meet", "room", "x1">>
MCNameParts == ("Roe, Dee (X)" :> <<"Roe", "Dee">>) @@ ("" :> <<"", "">>)
MCHash == [id \in {"chan", "grp", "meet", "ann", "bob", "cy", "dee"} |->
             CASE id = "chan" -> <<1, 1, 1>> [] id = "grp" -> <<1, 1, 2>> [] id = "meet" -> <<1, 2, 1>>
               [] id = "ann" -> <<3, 1, 1>> [] id = "bob" -> <<3, 1, 2>>
               [] id = "cy" -> <<3, 1, 3>> [] OTHER -> <<4, 1, 1>>]
=============================================================================
