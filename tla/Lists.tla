------------------------------- MODULE Lists -------------------------------
(***************************************************************************)
(* The lists of query.ts: people, conversations, calls and events.  What   *)
(* a filter does not ask for is "", None for the times of calls and events *)
(* and 0 for those of conversations.  A row that several rows tie with, in *)
(* an order that SQL leaves open, is placed by its id.                     *)
(***************************************************************************)
EXTENDS Query

None == -1
First(default, given, ceiling) == Min({ceiling, IF given = 0 THEN default ELSE given})
Uncapped == 1000

-----------------------------------------------------------------------------
(* People *)

(* The name of someone's latest message, else that of the profile, "" for  *)
(* neither: of who reacted or called and may never have posted.            *)
NameForMri(db, mri) ==
  IF mri \in DOMAIN db.people /\ db.people[mri].name # "" THEN db.people[mri].name
  ELSE IF mri \in DOMAIN db.profiles THEN db.profiles[mri].name ELSE ""

(* people left join profiles *)
ToPerson(db, mri) ==
  LET known == mri \in DOMAIN db.profiles
      profile == db.profiles[mri]
  IN  [mri |-> mri, handle |-> db.handles[mri], name |-> db.people[mri].name,
       msgCount |-> db.people[mri].msgCount, lastTs |-> db.people[mri].lastTs,
       type |-> IF known THEN profile.type ELSE "None",
       parts |-> IF known THEN <<profile.givenName, profile.surname>> ELSE <<"", "">>,
       isBot |-> IsBotMri(mri)]

(* sel: {} for the roster, or one selector. *)
QueryPeople(db, sel, n) ==
  LET found == CASE sel = {} -> DOMAIN db.people
                 [] \E s \in sel : "handle" \in DOMAIN s ->
                      UNION {WithHandle(db, s.handle) : s \in sel}
                 [] OTHER ->
                      {mri \in DOMAIN db.people : \E s \in sel : TextIs(db.people[mri].name, s.text)}
      byVolume == InOrder(found, LAMBDA a, b :
                    \/ db.people[a].msgCount > db.people[b].msgCount
                    \/ db.people[a].msgCount = db.people[b].msgCount /\ Before(a, b))
      rows == IF \E s \in sel : "handle" \in DOMAIN s THEN byVolume
              ELSE Oldest(byVolume, First(8, n, Uncapped))
  IN  [total |-> Cardinality(found), rows |-> [i \in DOMAIN rows |-> ToPerson(db, rows[i])]]

-----------------------------------------------------------------------------
(* Conversations *)

ToConversation(db, id) ==
  LET c == db.conversations[id]
  IN  [id |-> id, handle |-> db.handles[id], kind |-> c.kind, topic |-> c.topic,
       participantNames |-> c.participantNames, lastTs |-> c.lastTs, msgCount |-> c.msgCount]

(* topic || participant_names *)
Title(db, id) ==
  LET c == db.conversations[id] IN IF Truthy(c.topic) THEN {c.topic.str} ELSE Range(c.participantNames)

(* opts: kind, query, participant, since, includeEmpty, n. *)
QueryConversations(db, opts) ==
  LET c(id) == db.conversations[id]
      among(id, part) == \E i \in DOMAIN c(id).participantNames :
                           TextIs(c(id).participantNames[i], part)
      rows == {id \in DOMAIN db.conversations :
                 /\ opts.includeEmpty \/ c(id).msgCount > 0
                 /\ opts.kind \in {"", c(id).kind}
                 /\ opts.query = "" \/ TitleLike(db, id, opts.query)
                 /\ opts.participant = "" \/ among(id, opts.participant)
                 /\ opts.since = 0 \/ c(id).lastTs >= opts.since}
      newest == InOrder(rows, LAMBDA a, b : \/ c(a).lastTs > c(b).lastTs
                                            \/ c(a).lastTs = c(b).lastTs /\ Before(a, b))
      shown == Oldest(newest, First(12, opts.n, Uncapped))
  IN  [i \in DOMAIN shown |-> ToConversation(db, shown[i])]

-----------------------------------------------------------------------------
(* Calls *)

Within(opts, ts) ==
  /\ opts.since = None \/ ts >= opts.since
  /\ opts.until = None \/ ts < opts.until

(* What a call is listed under: the title and handle of a cached group, or *)
(* the counterpart's name.                                                 *)
CallLabel(db, call) ==
  LET group == call.groupThreadId
      cached == Truthy(group) /\ group.str \in DOMAIN db.conversations
      mri == call.counterpartMri
      name == IF Truthy(mri) THEN NameForMri(db, mri.str) ELSE ""
  IN  IF call.callType # Str("MultiParty")
      THEN [texts |-> {IF name = "" THEN "(unknown)" ELSE name}, handle |-> <<>>]
      ELSE IF ~cached THEN [texts |-> {"(group call)"}, handle |-> <<>>]
      ELSE [texts |-> IF Title(db, group.str) = {} THEN {"(group)"} ELSE Title(db, group.str),
            handle |-> db.handles[group.str]]

(* opts: direction, missed, since, until, participant, limit. *)
QueryCalls(db, opts) ==
  LET call(id) == db.calls[id]
      rows == {id \in DOMAIN db.calls :
                 /\ call(id).isDeleted = 0
                 /\ opts.direction = "" \/ call(id).direction = Str(opts.direction)
                 /\ opts.missed => call(id).isMissed = 1
                 /\ Within(opts, call(id).startTs)
                 /\ opts.participant = "" \/ \E text \in CallLabel(db, call(id)).texts :
                                               TextIs(text, opts.participant)}
      newest == InOrder(rows, LAMBDA a, b : \/ call(a).startTs > call(b).startTs
                                            \/ call(a).startTs = call(b).startTs /\ Before(a, b))
      shown == Oldest(newest, First(30, opts.limit, 100))
  IN  [i \in DOMAIN shown |-> [call |-> call(shown[i]), label |-> CallLabel(db, call(shown[i])),
                               link |-> call(shown[i]).recordingLink]]

-----------------------------------------------------------------------------
(* Events *)

(* opts: since, until, type, query, attendee, hideCancelled, limit. *)
QueryEvents(db, opts) ==
  LET event(id) == db.events[id]
      subject(id) == event(id).texts["subject"]
      rows == {id \in DOMAIN db.events :
                 /\ Within(opts, event(id).startTs)
                 /\ opts.type \in {"", "all", event(id).kind}
                 /\ opts.query = "" \/ (Is(subject(id), "str") /\ TextIs(subject(id).str, opts.query))
                 /\ opts.attendee = "" \/ \E i \in DOMAIN event(id).attendees :
                      \/ TextIs(event(id).attendees[i].n, opts.attendee)
                      \/ TextIs(event(id).attendees[i].e, opts.attendee)
                 /\ opts.hideCancelled => event(id).isCancelled = 0}
      coming == InOrder(rows, LAMBDA a, b : \/ event(a).startTs < event(b).startTs
                                            \/ event(a).startTs = event(b).startTs /\ Before(a, b))
      shown == Oldest(coming, First(30, opts.limit, Uncapped))
  IN  [i \in DOMAIN shown |-> event(shown[i])]

MaxEventStart(db) == Max({0} \cup {db.events[id].startTs : id \in DOMAIN db.events})
=============================================================================
