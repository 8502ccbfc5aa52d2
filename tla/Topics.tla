------------------------------- MODULE Topics -------------------------------
(***************************************************************************)
(* rank_topics: the phrases of the messages in a scope that are mentioned  *)
(* often enough in a window, by enough people (query.ts, util/topics.ts).  *)
(* Phrases are extracted from a content once and then remembered.          *)
(*                                                                         *)
(* Left out: the ranking by lift, of which a row keeps the counts, and the *)
(* cut to the best n.                                                      *)
(***************************************************************************)
EXTENDS Lists

CONSTANTS
    Letters,        \* the number of letters of each word that can be in a phrase
    NameWords,      \* the words of each display name
    Stopwords,      \* the languages' stopwords
    Codes,          \* the words that look like hexadecimal ids
    MinMentions,    \* 3: the mentions a topic has at least
    WindowLength    \* the length of each window, by its key

-----------------------------------------------------------------------------
(* Extraction *)

(* Names of people break phrases. *)
NameTokens(db) ==
  UNION {{w \in NameWords[db.people[mri].name] : Letters[w] >= 3} : mri \in DOMAIN db.people}

(* Phrases of one to three words, each with the place where it begins, in  *)
(* runs that no stopword, name or code breaks.                             *)
MakeExtractor(names, extra, content) ==
  LET words == SelectSeq(content, LAMBDA p : p \in DOMAIN Letters /\ Letters[p] >= 3)
      breaks == Stopwords \cup extra \cup names \cup Codes
      runs == {r \in (1..Len(words)) \X (1..Len(words)) :
                 r[1] <= r[2] /\ r[2] < r[1] + 3 /\ \A i \in r[1]..r[2] : words[i] \notin breaks}
  IN  {<<r[1], SubSeq(words, r[1], r[2])>> : r \in runs}

-----------------------------------------------------------------------------
(* The phrase cache of a store: [sig, names, of]; of maps a content to its *)
(* phrases, names is the history of name tokens they were extracted with.  *)

NoPhrases == [sig |-> <<>>, names |-> {}, of |-> <<>>]

(* Mutant: only their number counts. *)
SignatureOfSize(names, extra) == <<Cardinality(names), 0, extra>>

(* Their number, and the length of their list, joined by commas.           *)
JoinedLength(names) ==
  MapThenSumSet(LAMBDA w : Letters[w], names) + Max({0, Cardinality(names) - 1})
Signature(names, extra) == <<Cardinality(names), JoinedLength(names), extra>>

(* The cache after the phrases of the contents have been asked for: kept   *)
(* as long as its signature is the same.                                   *)
BuildPhraseExtractor(db, cache, extra, contents) ==
  LET names == NameTokens(db)
      sig == Signature(names, extra)
      kept == IF cache.sig = sig THEN cache ELSE [NoPhrases EXCEPT !.sig = sig]
      new == contents \ DOMAIN kept.of
  IN  [kept EXCEPT !.names = IF new = {} THEN @ ELSE @ \cup {names},
                   !.of = [c \in new |-> MakeExtractor(names, extra, c)] @@ @]

-----------------------------------------------------------------------------
(* ask: in, from: a set of at most one selector, one of them empty;        *)
(* exclude: selectors; words: excluded words; extra: more stopwords;       *)
(* includeBots; since, until: None for none; window: a key.                *)

LoadTopicsInScope(db, ask) ==
  LET ex == ResolveExcludes(db, ask.exclude)
      in == {ConvIdsFor(db, s) : s \in ask.in}
      from == {SenderFilter(db, s) : s \in ask.from}
      scoped == {m \in Real(db.messages) :
                   /\ m.content # <<>>
                   /\ \A ids \in in : m.convId \in ids
                   /\ \A f \in from : m \in f.kept
                   /\ m.convId \notin ex.convs /\ m.senderMri \notin ex.mris}
      bots == {m \in scoped : IsBotMri(m.senderMri)}
  IN  IF Missed(ex) THEN ex
      ELSE IF {} \in in THEN [miss |-> "no-such-conversation"]
      ELSE IF \E f \in from : Missed(f) THEN [miss |-> "no-such-sender"]
      ELSE [all |-> IF ask.includeBots THEN scoped ELSE scoped \ bots,
            botExcluded |-> IF ask.includeBots THEN 0 ELSE Cardinality(bots),
            minSenders |-> IF ask.from = {} THEN 2 ELSE 1]

(* A range that is asked for, or the time up to the newest in scope.       *)
ComputeTopicsWindow(all, ask) ==
  IF ask.since # None \/ ask.until # None
  THEN [since |-> Max({0, ask.since}), until |-> ask.until]
  ELSE [since |-> MaxTs(all) - WindowLength[ask.window], until |-> None]

ComputeTopicRows(all, phrasesOf, window, minSenders) ==
  LET base == {m \in all : m.ts < window.since}
      win == {m \in all : Within(window, m.ts)}
      mentions(ph, m) == Cardinality({p \in phrasesOf[m.content] : p[2] = ph})
      holding(S, ph) == {m \in S : mentions(ph, m) > 0}
      row(ph) == [phrase |-> ph, count |-> MapThenSumSet(LAMBDA m : mentions(ph, m), win),
                  senders |-> Cardinality(Senders(holding(win, ph))),
                  df |-> Cardinality(holding(win, ph)),
                  baseDf |-> Cardinality(holding(base, ph))]
      rows == {row(ph) : ph \in UNION {{p[2] : p \in phrasesOf[m.content]} : m \in win}}
  IN  [rows |-> {r \in rows : r.count >= MinMentions /\ r.senders >= minSenders},
       baseTotal |-> Cardinality(base), winCount |-> Cardinality(win)]

(* topics.compute: what it answers, and the cache it leaves.               *)
ComputeTopics(db, cache, ask) ==
  LET scoped == LoadTopicsInScope(db, ask)
      window == ComputeTopicsWindow(scoped.all, ask)
      asked == {m.content : m \in {n \in scoped.all : n.ts < window.since \/ Within(window, n.ts)}}
      phrases == BuildPhraseExtractor(db, cache, ask.extra, asked)
      wanted == [c \in asked |-> {p \in phrases.of[c] : Range(p[2]) \cap ask.words = {}}]
  IN  IF Missed(scoped) THEN [res |-> scoped, cache |-> cache]
      ELSE [res |-> ComputeTopicRows(scoped.all, wanted, window, scoped.minSenders) @@
                    [botExcluded |-> scoped.botExcluded, total |-> Cardinality(scoped.all)],
            cache |-> phrases]
=============================================================================
