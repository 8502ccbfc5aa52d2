---------------------------- MODULE NativeProofs ----------------------------
(***************************************************************************)
(* What NativeStore promises, for any records, writes and bounds: a store  *)
(* file that was refreshed any number of times is what a full build of the *)
(* same snapshot would have made, the signatures it skips stores by are    *)
(* sound, a finished file is never written again, and no file is left      *)
(* behind but those of calls that threw.                                   *)
(***************************************************************************)
EXTENDS NativeStore, NumberFacts

-----------------------------------------------------------------------------
(* Snapshots, and how a later one differs from an earlier one.             *)

IsSnapshot(snap) ==
    /\ snap.sourceSig[1] \in Nat
    /\ snap.maxSeq \in 0..snap.sourceSig[1]
    /\ \A k \in Key : snap.rec[k].seq \in 0..snap.maxSeq

\* Since basis a record stayed as it was, was dropped with the compaction of
\* its tombstone or the move of its store, or was written anew.
Succeeds(found, basis) ==
    \A k \in Key :
        \/ found[k] \in {basis.rec[k], Absent}
        \/ found[k].seq > basis.sourceSig[1]

\* Max of a bounded set of numbers is its greatest member.
LEMMA MaxIsGreatest ==
    ASSUME NEW n \in Nat, NEW S \in SUBSET (0..n), S # {}
    PROVE  Max(S) \in S /\ \A x \in S : x <= Max(S)
<1>1. PICK m \in S : \A x \in S : x <= m
  BY BoundedHasMax
<1>2. \A x \in S : m >= x
  BY <1>1
<1>3. Max(S) \in S /\ \A x \in S : Max(S) >= x
  BY <1>2 DEF Max
<1> QED
  BY <1>3

\* The records of a store are keys.
LEMMA PlainIsKey == \A s \in Stores : Plain[s] \subseteq Key
  BY DEF Stores, Key, Range

\* A key without a record is not live, and its number is 0.
LEMMA AbsentIsNotLive == ~ IsLive(Absent) /\ Absent.seq = 0
  BY DEF IsLive, Absent

\* The signature's number is the newest of the live records.
LEMMA SigIsNewest ==
    ASSUME NEW snap, IsSnapshot(snap), NEW s \in Stores
    PROVE  /\ EntitySig(snap, s).maxSeq \in 0..snap.maxSeq
           /\ \A k \in Live(snap, Plain[s]) : snap.rec[k].seq <= EntitySig(snap, s).maxSeq
<1> DEFINE S == {0} \union {snap.rec[k].seq : k \in Live(snap, Plain[s])}
<1>1. snap.maxSeq \in Nat
  BY DEF IsSnapshot
<1>2. Live(snap, Plain[s]) \subseteq Key
  BY PlainIsKey DEF Live
<1>3. S \in SUBSET (0..snap.maxSeq) /\ S # {}
  BY <1>1, <1>2 DEF IsSnapshot
<1>4. Max(S) \in S /\ \A x \in S : x <= Max(S)
  <2> HIDE DEF S
  <2> QED BY <1>1, <1>3, MaxIsGreatest
<1>5. EntitySig(snap, s).maxSeq = Max(S)
  BY DEF EntitySig
<1> HIDE DEF S
<1>6. \A k \in Live(snap, Plain[s]) : snap.rec[k].seq \in S
  BY DEF S
<1> QED
  BY <1>3, <1>4, <1>5, <1>6

\* With equal signatures a store holds what it held: nothing live in it is
\* newer than the basis, so it can only have lost records, and it lost none.
LEMMA SameSigSameStore ==
    ASSUME NEW basis, NEW snap, IsSnapshot(basis), IsSnapshot(snap), Succeeds(snap.rec, basis),
           NEW s \in Stores, EntitySig(snap, s) = EntitySig(basis, s)
    PROVE  \A k \in Plain[s] : /\ IsLive(snap.rec[k]) <=> IsLive(basis.rec[k])
                               /\ IsLive(snap.rec[k]) => snap.rec[k] = basis.rec[k]
<1> DEFINE Now == Live(snap, Plain[s])
           Then == Live(basis, Plain[s])
<1>1. \A k \in Now : snap.rec[k] = basis.rec[k]
  <2> SUFFICES ASSUME NEW k \in Now
               PROVE  snap.rec[k] = basis.rec[k]
    OBVIOUS
  <2>1. k \in Key /\ IsLive(snap.rec[k])
    BY PlainIsKey DEF Live
  <2>2. snap.rec[k].seq <= EntitySig(basis, s).maxSeq
    BY SigIsNewest
  <2>3. EntitySig(basis, s).maxSeq \in 0..basis.maxSeq
    BY SigIsNewest
  <2>4. ~ snap.rec[k].seq > basis.sourceSig[1]
    BY <2>1, <2>2, <2>3 DEF IsSnapshot
  <2> QED
    BY <2>1, <2>4, AbsentIsNotLive DEF Succeeds
<1>2. Now \subseteq Then
  BY <1>1 DEF Live
<1>3. IsFiniteSet(Then)
  <2>1. IsFiniteSet(Plain[s]) /\ Then \subseteq Plain[s]
    BY FiniteStores DEF Live, Stores
  <2> QED
    BY <2>1, FS_Subset
<1>4. Cardinality(Now) = Cardinality(Then)
  BY DEF EntitySig
<1>5. Now = Then
  BY <1>2, <1>3, <1>4, FS_Subset
<1> QED
  BY <1>1, <1>5 DEF Live

-----------------------------------------------------------------------------
(* The tables that a snapshot calls for.                                   *)

\* marks: whether the user was known when a chain was applied.
MessagesOf(snap, marks) ==
    [k \in Chain |-> IF HasRow(snap, k) THEN RowOf(snap.rec[k].value, marks[k]) ELSE NoRow]

MentionedBy(snap) == {ConvOf[k] : k \in {j \in Chain : HasRow(snap, j)}}

ConvsOf(snap) ==
    [c \in Conv |-> IF IsLive(snap.rec[c]) THEN snap.rec[c].value
                    ELSE IF c \in MentionedBy(snap) THEN "untitled" ELSE None]

PlainOf(snap) ==
    [s \in Stores |-> [k \in Plain[s] |-> IF IsLive(snap.rec[k]) THEN snap.rec[k].value ELSE None]]

FtsOf(snap) == {<<k, snap.rec[k].value>> : k \in {j \in Chain : HasRow(snap, j)}}

TablesOf(snap, marks) ==
    [messages |-> MessagesOf(snap, marks),
     convs |-> ConvsOf(snap),
     plain |-> PlainOf(snap),
     derived |-> MessagesOf(snap, marks),
     fts |-> FtsOf(snap)]

\* The row of a message is not the one that stands for none.
LEMMA RowsAreRows ==
    ASSUME NEW snap, NEW marks, NEW k \in Chain
    PROVE  /\ MessagesOf(snap, marks)[k] # NoRow <=> HasRow(snap, k)
           /\ HasRow(snap, k) => MessagesOf(snap, marks)[k].text = snap.rec[k].value
<1>1. HasRow(snap, k) => snap.rec[k].value # None
  BY DEF HasRow, IsLive
<1>2. ASSUME HasRow(snap, k)
      PROVE  MessagesOf(snap, marks)[k].text = snap.rec[k].value
  BY <1>2 DEF MessagesOf, RowOf
<1>3. NoRow.text = None
  BY DEF NoRow
<1>4. ~ HasRow(snap, k) => MessagesOf(snap, marks)[k] = NoRow
  BY DEF MessagesOf
<1> QED
  BY <1>1, <1>2, <1>3, <1>4

\* The conversations that rows mention are those of the chains with a message.
LEMMA MentionedByRows ==
    ASSUME NEW snap, NEW marks, NEW t, t.messages = MessagesOf(snap, marks)
    PROVE  Mentioned(t) = MentionedBy(snap)
<1>1. {j \in Chain : t.messages[j] # NoRow} = {j \in Chain : HasRow(snap, j)}
  BY RowsAreRows
<1> QED
  BY <1>1 DEF Mentioned, MentionedBy

\* The index of rows is that of the records they were made from.
LEMMA IndexOfRows ==
    ASSUME NEW snap, NEW marks, NEW t, t.messages = MessagesOf(snap, marks), NEW ks \in SUBSET Chain
    PROVE  IndexOf(t, ks) = {<<k, snap.rec[k].value>> : k \in {j \in ks : HasRow(snap, j)}}
<1>1. {j \in ks : t.messages[j] # NoRow} = {j \in ks : HasRow(snap, j)}
  BY RowsAreRows
<1>2. \A k \in {j \in ks : HasRow(snap, j)} : t.messages[k].text = snap.rec[k].value
  BY RowsAreRows
<1> QED
  BY <1>1, <1>2 DEF IndexOf

\* A build makes the tables the snapshot calls for, marked by one vote.
LEMMA PopulateIsTablesOf ==
    ASSUME NEW snap
    PROVE  Populate(snap) = TablesOf(snap, [k \in Chain |-> VoteSelf(snap)])
<1> DEFINE self == VoteSelf(snap)
           marks == [k \in Chain |-> self]
           meta == ApplyConversationMeta(NoTables, snap)
           applied == ApplyMessages(meta, snap, Chain, self)
           replaced == ReplaceStores(applied, snap, Stores)
           derived == RecomputeDerived(replaced)
           Titled == [c \in Conv |-> IF IsLive(snap.rec[c]) THEN snap.rec[c].value ELSE None]
           M == MessagesOf(snap, marks)
<1>1. meta = [messages |-> NoTables.messages, convs |-> Titled, plain |-> NoTables.plain,
              derived |-> NoTables.derived, fts |-> NoTables.fts]
  <2>1. \A c \in Conv : NoTables.convs[c] = None
    BY DEF NoTables
  <2>2. Titled = [c \in Conv |-> IF IsLive(snap.rec[c]) THEN snap.rec[c].value ELSE NoTables.convs[c]]
    BY <2>1
  <2>3. NoTables = [messages |-> NoTables.messages, convs |-> NoTables.convs, plain |-> NoTables.plain,
                    derived |-> NoTables.derived, fts |-> NoTables.fts]
    BY DEF NoTables
  <2> HIDE DEF Titled
  <2> QED
    BY <2>2, <2>3 DEF ApplyConversationMeta
<1>2. applied = [messages |-> M, convs |-> Titled, plain |-> NoTables.plain,
                 derived |-> NoTables.derived, fts |-> NoTables.fts]
  <2> HIDE DEF self, meta
  <2>1. \A k \in Chain : NoTables.messages[k] = NoRow
    BY DEF NoTables
  <2>2. M = [k \in Chain |-> IF k \in Chain /\ HasRow(snap, k) THEN RowOf(snap.rec[k].value, self)
                             ELSE NoTables.messages[k]]
    BY <2>1 DEF MessagesOf
  <2> HIDE DEF M, Titled
  <2> QED
    BY <1>1, <2>2 DEF ApplyMessages
<1>3. replaced = [messages |-> M, convs |-> Titled, plain |-> PlainOf(snap),
                  derived |-> NoTables.derived, fts |-> NoTables.fts]
  <2> HIDE DEF M, Titled, applied
  <2>1. \A s \in Stores : ReplaceStore(applied, snap, s).plain[s] = PlainOf(snap)[s]
    BY <1>2 DEF ReplaceStore, PlainOf, NoTables
  <2>2. PlainOf(snap) = [s \in Stores |-> IF s \in Stores THEN ReplaceStore(applied, snap, s).plain[s]
                                          ELSE NoTables.plain[s]]
    BY <2>1 DEF PlainOf
  <2> QED
    BY <1>2, <2>2 DEF ReplaceStores
<1>4. derived = [messages |-> M, convs |-> ConvsOf(snap), plain |-> PlainOf(snap),
                 derived |-> M, fts |-> NoTables.fts]
  <2>1. Mentioned(replaced) = MentionedBy(snap)
    <3> HIDE DEF replaced, marks, Titled
    <3> QED BY <1>3, MentionedByRows
  <2>2. replaced.convs = Titled /\ replaced.messages = M
    <3> HIDE DEF replaced, M, Titled
    <3> QED BY <1>3
  <2>3. ConvsOf(snap) = [c \in Conv |-> IF replaced.convs[c] = None /\ c \in Mentioned(replaced) THEN "untitled"
                                        ELSE replaced.convs[c]]
    <3> HIDE DEF replaced, M
    <3> QED BY <2>1, <2>2 DEF ConvsOf, IsLive
  <2>4. derived = [replaced EXCEPT !.convs = ConvsOf(snap), !.derived = M]
    <3> HIDE DEF replaced, M
    <3> QED BY <2>2, <2>3, Zenon DEF RecomputeDerived
  <2> HIDE DEF M, Titled, replaced, derived
  <2> QED
    BY <1>3, <2>4
<1>5. IndexOf(derived, Chain) = FtsOf(snap)
  <2> HIDE DEF derived, marks, Titled
  <2> QED BY <1>4, IndexOfRows DEF FtsOf
<1>6. RefreshFts(derived) = TablesOf(snap, marks)
  <2> HIDE DEF derived, marks
  <2> QED BY <1>4, <1>5 DEF RefreshFts, TablesOf
<1> HIDE DEF marks
<1>7. Populate(snap) = TablesOf(snap, marks)
  BY <1>6 DEF Populate
<1> QED
  BY <1>7 DEF marks

\* A refresh brings the tables from what one snapshot calls for to what a later
\* one does; a chain it applies anew is marked by the vote it read in the file.
RemarkedFrom(marks, snap, basis) ==
    [k \in Chain |-> IF k \in Changed(snap, basis.maxSeq) THEN VoteSelf(basis) ELSE marks[k]]

\* A chain is changed, gone, or as it was.
LEMMA ChainsChange ==
    ASSUME NEW basis, NEW snap, IsSnapshot(basis), IsSnapshot(snap), Succeeds(snap.rec, basis),
           NEW k \in Live(snap, Chain)
    PROVE  /\ k \in Changed(snap, basis.maxSeq) => snap.rec[k].seq > basis.maxSeq
           /\ k \notin Changed(snap, basis.maxSeq) => snap.rec[k] = basis.rec[k]
<1>1. k \in Key /\ IsLive(snap.rec[k])
  BY DEF Live, Key
<1>2. snap.rec[k].seq \in Nat /\ basis.maxSeq \in Nat /\ basis.sourceSig[1] \in Nat
      /\ basis.maxSeq <= basis.sourceSig[1]
  BY <1>1 DEF IsSnapshot
<1>3. snap.rec[k] # Absent
  BY <1>1, AbsentIsNotLive
<1> QED
  BY <1>1, <1>2, <1>3 DEF Succeeds, Changed

\* What refresh_store leaves is what the new snapshot calls for.
LEMMA RefreshStoreIsTablesOf ==
    ASSUME NEW basis, NEW snap, IsSnapshot(basis), IsSnapshot(snap), Succeeds(snap.rec, basis),
           NEW marks, NEW state, state = ComputeState(basis)
    PROVE  RefreshStore(TablesOf(basis, marks), snap, state)
           = TablesOf(snap, RemarkedFrom(marks, snap, basis))
<1> DEFINE t == TablesOf(basis, marks)
           changed == Changed(snap, basis.maxSeq)
           gone == {k \in Chain : t.messages[k] # NoRow} \ (Live(snap, Chain) \ changed)
           kept == [t EXCEPT !.messages = [k \in Chain |-> IF k \in gone THEN NoRow ELSE @[k]]]
           applied == ApplyMessages(kept, snap, changed, VoteSelf(basis))
           stale == {s \in Stores : EntitySig(snap, s) # EntitySig(basis, s)}
           replaced == ReplaceStores(applied, snap, stale)
           reset == [replaced EXCEPT !.convs = [c \in Conv |-> IF @[c] = None THEN None ELSE "untitled"]]
           titled == ApplyConversationMeta(reset, snap)
           reconciled == ReconcileConversations(replaced, snap)
           derived == RecomputeDerived(reconciled)
           remarked == RemarkedFrom(marks, snap, basis)
           M == MessagesOf(snap, remarked)
           touched == gone \union {k \in changed : HasRow(snap, k)}
<1> USE DEF TablesOf
<1>1. /\ t.messages = MessagesOf(basis, marks)
      /\ t.plain = PlainOf(basis)
      /\ t.fts = FtsOf(basis)
      /\ t.convs = ConvsOf(basis)
      /\ t.derived = MessagesOf(basis, marks)
  OBVIOUS
<1>2. \A k \in Chain : k \in gone <=> HasRow(basis, k) /\ ~ (k \in Live(snap, Chain) /\ k \notin changed)
  BY <1>1, RowsAreRows
<1>3. \A k \in Chain :
        /\ k \in changed => k \in Live(snap, Chain)
        /\ k \in Live(snap, Chain) /\ k \notin changed => snap.rec[k] = basis.rec[k]
        /\ HasRow(snap, k) => k \in Live(snap, Chain)
  BY ChainsChange DEF Changed, Live, HasRow
<1> HIDE DEF TablesOf, changed, gone
<1>4. kept.messages = [k \in Chain |-> IF k \in gone THEN NoRow ELSE t.messages[k]]
  BY DEF TablesOf
<1>5. M = [k \in Chain |-> IF k \in changed /\ HasRow(snap, k) THEN RowOf(snap.rec[k].value, VoteSelf(basis))
                           ELSE kept.messages[k]]
  <2> HIDE DEF kept
  <2> SUFFICES ASSUME NEW k \in Chain
               PROVE  M[k] = IF k \in changed /\ HasRow(snap, k) THEN RowOf(snap.rec[k].value, VoteSelf(basis))
                             ELSE kept.messages[k]
    BY DEF MessagesOf
  <2>1. M[k] = IF HasRow(snap, k) THEN RowOf(snap.rec[k].value, remarked[k]) ELSE NoRow
    BY DEF MessagesOf
  <2>2. k \in changed => remarked[k] = VoteSelf(basis)
    BY DEF RemarkedFrom, changed
  <2>3. k \notin changed => remarked[k] = marks[k]
    BY DEF RemarkedFrom, changed
  <2>4. kept.messages[k] = IF k \in gone \/ ~ HasRow(basis, k) THEN NoRow
                           ELSE RowOf(basis.rec[k].value, marks[k])
    BY <1>1, <1>4 DEF MessagesOf
  <2>5. CASE k \in changed
    <3>1. kept.messages[k] = NoRow
      BY <2>4, <2>5, <1>2
    <3> HIDE DEF remarked, M
    <3> QED
      BY <2>1, <2>2, <2>5, <3>1
  <2>6. CASE k \notin changed /\ k \in Live(snap, Chain)
    <3>1. snap.rec[k] = basis.rec[k] /\ (HasRow(snap, k) <=> HasRow(basis, k))
      BY <2>6, <1>3 DEF HasRow
    <3>2. k \notin gone
      BY <2>6, <1>2
    <3> HIDE DEF remarked, M
    <3> QED
      BY <2>1, <2>3, <2>4, <2>6, <3>1, <3>2
  <2>7. CASE k \notin Live(snap, Chain)
    <3>1. ~ HasRow(snap, k) /\ k \notin changed
      BY <2>7, <1>3
    <3>2. kept.messages[k] = NoRow
      BY <2>4, <2>7, <1>2
    <3> HIDE DEF remarked, M
    <3> QED
      BY <2>1, <3>1, <3>2
  <2> QED
    BY <2>5, <2>6, <2>7
<1>6. applied = [messages |-> M, convs |-> ConvsOf(basis), plain |-> PlainOf(basis),
                 derived |-> t.derived, fts |-> FtsOf(basis)]
  <2>1. kept = [messages |-> kept.messages, convs |-> ConvsOf(basis), plain |-> PlainOf(basis),
                derived |-> t.derived, fts |-> FtsOf(basis)]
    BY DEF TablesOf
  <2> HIDE DEF kept, M, t
  <2> QED
    BY <1>5, <2>1 DEF ApplyMessages
<1>7. replaced = [messages |-> M, convs |-> ConvsOf(basis), plain |-> PlainOf(snap),
                  derived |-> t.derived, fts |-> FtsOf(basis)]
  <2> HIDE DEF M, applied, t
  <2>1. \A s \in Stores : ReplaceStore(applied, snap, s).plain[s] = PlainOf(snap)[s]
    BY <1>6 DEF ReplaceStore, PlainOf
  <2>2. \A s \in Stores : s \notin stale => PlainOf(snap)[s] = PlainOf(basis)[s]
    <3> SUFFICES ASSUME NEW s \in Stores, s \notin stale
                 PROVE  PlainOf(snap)[s] = PlainOf(basis)[s]
      OBVIOUS
    <3>1. \A k \in Plain[s] : (IF IsLive(snap.rec[k]) THEN snap.rec[k].value ELSE None)
                              = (IF IsLive(basis.rec[k]) THEN basis.rec[k].value ELSE None)
      BY SameSigSameStore
    <3> QED
      BY <3>1 DEF PlainOf
  <2> HIDE DEF stale
  <2>3. PlainOf(snap) = [s \in Stores |-> IF s \in stale THEN ReplaceStore(applied, snap, s).plain[s]
                                          ELSE PlainOf(basis)[s]]
    BY <2>1, <2>2 DEF PlainOf
  <2> QED
    BY <1>6, <2>3 DEF ReplaceStores
<1>8. Mentioned(replaced) = MentionedBy(snap)
  <2> HIDE DEF replaced, remarked
  <2>1. replaced.messages = M
    BY <1>7
  <2> QED
    BY <2>1, MentionedByRows
<1> DEFINE Reconciled == [c \in Conv |-> IF c \in Live(snap, Conv) \union MentionedBy(snap)
                                         THEN titled.convs[c] ELSE None]
<1>9. reset = [messages |-> M, convs |-> reset.convs, plain |-> PlainOf(snap),
               derived |-> t.derived, fts |-> FtsOf(basis)]
  <2> HIDE DEF M, replaced, t
  <2> QED BY <1>7
<1>10. reconciled = [messages |-> M, convs |-> Reconciled, plain |-> PlainOf(snap),
                    derived |-> t.derived, fts |-> FtsOf(basis)]
  <2>1. titled = [messages |-> M, convs |-> titled.convs, plain |-> PlainOf(snap),
                  derived |-> t.derived, fts |-> FtsOf(basis)]
    <3> HIDE DEF M, reset, t
    <3> QED BY <1>9 DEF ApplyConversationMeta
  <2>2. reconciled = [titled EXCEPT !.convs = Reconciled]
    <3> HIDE DEF replaced
    <3> QED BY <1>8, Zenon DEF ReconcileConversations
  <2> HIDE DEF M, titled, t, Reconciled, reconciled
  <2> QED
    BY <2>1, <2>2
<1>11. Mentioned(reconciled) = MentionedBy(snap)
  <2> HIDE DEF reconciled, remarked, Reconciled
  <2>1. reconciled.messages = M
    BY <1>10
  <2> QED
    BY <2>1, MentionedByRows
<1>12. ConvsOf(snap) = [c \in Conv |-> IF reconciled.convs[c] = None /\ c \in Mentioned(reconciled)
                                       THEN "untitled" ELSE reconciled.convs[c]]
  <2> SUFFICES ASSUME NEW c \in Conv
               PROVE  ConvsOf(snap)[c] = IF reconciled.convs[c] = None /\ c \in MentionedBy(snap)
                                         THEN "untitled" ELSE reconciled.convs[c]
    BY <1>11 DEF ConvsOf
  <2>1. reconciled.convs[c] = IF c \in Live(snap, Conv) \union MentionedBy(snap)
                              THEN titled.convs[c] ELSE None
    <3> HIDE DEF reconciled, titled, M
    <3> QED BY <1>10
  <2>2. titled.convs[c] = IF IsLive(snap.rec[c]) THEN snap.rec[c].value ELSE reset.convs[c]
    <3> HIDE DEF reset, M, t
    <3> QED BY <1>9 DEF ApplyConversationMeta
  <2>3. reset.convs[c] \in {None, "untitled"}
    <3> HIDE DEF replaced, M, t
    <3> QED BY <1>7
  <2>4. c \in Live(snap, Conv) <=> IsLive(snap.rec[c])
    BY DEF Live
  <2>5. IsLive(snap.rec[c]) => snap.rec[c].value # None
    BY DEF IsLive
  <2> HIDE DEF reconciled, titled, reset
  <2> QED
    BY <2>1, <2>2, <2>3, <2>4, <2>5 DEF ConvsOf
<1>13. derived = [messages |-> M, convs |-> ConvsOf(snap), plain |-> PlainOf(snap),
                  derived |-> M, fts |-> FtsOf(basis)]
  <2>1. reconciled.messages = M
    <3> HIDE DEF reconciled, M, Reconciled
    <3> QED BY <1>10
  <2>2. derived = [reconciled EXCEPT !.convs = ConvsOf(snap), !.derived = M]
    <3> HIDE DEF reconciled, M
    <3> QED BY <1>12, <2>1, Zenon DEF RecomputeDerived
  <2> HIDE DEF reconciled, M, derived, t, Reconciled
  <2> QED
    BY <1>10, <2>2
<1>14. {f \in FtsOf(basis) : f[1] \notin touched} \union IndexOf(derived, touched) = FtsOf(snap)
  <2>1. touched \in SUBSET Chain
    BY <1>3 DEF gone, changed, Changed, Live
  <2>2. IndexOf(derived, touched) = {<<k, snap.rec[k].value>> : k \in {j \in touched : HasRow(snap, j)}}
    <3> HIDE DEF derived, touched, remarked
    <3>1. derived.messages = M
      BY <1>13
    <3> QED BY <2>1, <3>1, IndexOfRows
  <2>3. \A k \in Chain : k \notin touched => (HasRow(snap, k) <=> HasRow(basis, k))
    BY <1>2, <1>3 DEF HasRow
  <2>4. \A k \in Chain : k \notin touched /\ HasRow(snap, k) => snap.rec[k] = basis.rec[k]
    BY <1>3
  <2> HIDE DEF touched
  <2>5. {f \in FtsOf(basis) : f[1] \notin touched}
        = {<<k, snap.rec[k].value>> : k \in {j \in Chain \ touched : HasRow(snap, j)}}
    <3>1. FtsOf(basis) = {<<k, basis.rec[k].value>> : k \in {j \in Chain : HasRow(basis, j)}}
      BY DEF FtsOf
    <3>2. \A k \in Chain : <<k, basis.rec[k].value>>[1] = k
      OBVIOUS
    <3>3. {f \in FtsOf(basis) : f[1] \notin touched}
          = {<<k, basis.rec[k].value>> : k \in {j \in Chain \ touched : HasRow(basis, j)}}
      BY <3>1, <3>2
    <3>4. {j \in Chain \ touched : HasRow(basis, j)} = {j \in Chain \ touched : HasRow(snap, j)}
      BY <2>3
    <3>5. \A k \in {j \in Chain \ touched : HasRow(snap, j)} : snap.rec[k] = basis.rec[k]
      BY <2>4
    <3> QED
      BY <3>3, <3>4, <3>5
  <2> QED
    BY <2>1, <2>2, <2>5 DEF FtsOf
<1>15. RefreshFtsDelta(derived, touched) = TablesOf(snap, remarked)
  <2>1. derived.fts = FtsOf(basis)
    <3> HIDE DEF derived, M
    <3> QED BY <1>13
  <2>2. RefreshFtsDelta(derived, touched) = [derived EXCEPT !.fts = FtsOf(snap)]
    <3> HIDE DEF derived, touched
    <3> QED BY <2>1, <1>14, Zenon DEF RefreshFtsDelta
  <2> HIDE DEF derived, remarked, touched
  <2> QED
    BY <1>13, <2>2 DEF TablesOf
<1>16. RefreshStore(t, snap, state) = RefreshFtsDelta(derived, touched)
  <2>1. /\ state.maxSeq = basis.maxSeq
        /\ state.self = VoteSelf(basis)
        /\ \A s \in Stores : state.sigs[s] = EntitySig(basis, s)
    BY DEF ComputeState, StoreSigs
  <2>2. {s \in Stores : EntitySig(snap, s) # state.sigs[s]} = stale
    BY <2>1
  <2> HIDE DEF t, reconciled, stale
  <2> QED
    BY <2>1, <2>2 DEF RefreshStore, gone, changed, reconciled
<1> QED
  BY <1>15, <1>16

-----------------------------------------------------------------------------
(* The invariant.                                                          *)

RecordsOK ==
    /\ writes \in Nat /\ gen \in 0..writes
    /\ DOMAIN rec = Key
    /\ \A k \in Key : rec[k].seq \in 0..writes

\* A file whose history hid no change holds what its basis calls for.
HoldsItsBasis(f) ==
    IF f.meta.known
    THEN \E marks \in [Chain -> BOOLEAN] :
            /\ f.tables = TablesOf(f.basis, marks)
            /\ f.steady => \A k \in Chain : marks[k] = VoteSelf(f.basis)
    ELSE f.tables = NoTables

\* The row of _meta is of the snapshot the tables are of, and what there is now
\* came after it.
FileOK(f) ==
    /\ IsSnapshot(f.basis) /\ f.basis.sourceSig[1] <= writes
    /\ f.meta.state = ComputeState(f.basis)
    /\ ~ f.basis.lossy => Succeeds(rec, f.basis)
    /\ f.whole => ~ f.basis.lossy /\ HoldsItsBasis(f)

FilesOK == \A d \in Files : FileOK(disk[d])

DirsNumbered == \E n \in 0..MaxDirs : DOMAIN disk = 1..n

ServesAFile == cur.dir = 0 \/ cur.dir \in Files

FlagsOK == cache \subseteq 0..gen /\ due \in BOOLEAN /\ faults \in 0..MaxFaults

IInv ==
    /\ RecordsOK
    /\ FlagsOK
    /\ DirsNumbered
    /\ ServesAFile
    /\ OneStoreFile
    /\ FilesOK

-----------------------------------------------------------------------------
(* The two ways a file is made.                                            *)

\* What a load returns is bounded by the last sequence number.
LEMMA SnapshotsAreSnapshots ==
    ASSUME RecordsOK, NEW lost
    PROVE  IsSnapshot(Snapshot(lost))
<1> DEFINE found == [k \in Key |-> IF k \in lost THEN Absent ELSE rec[k]]
           S == {0} \union {found[k].seq : k \in Key}
<1>1. S \in SUBSET (0..writes) /\ S # {} /\ writes \in Nat
  BY AbsentIsNotLive DEF RecordsOK
<1>2. Max(S) \in S /\ \A x \in S : x <= Max(S)
  <2> HIDE DEF S
  <2> QED BY <1>1, MaxIsGreatest
<1>3. Snapshot(lost).rec = found /\ Snapshot(lost).maxSeq = Max(S) /\ Snapshot(lost).sourceSig[1] = writes
  BY DEF Snapshot
<1>4. \A k \in Key : found[k].seq \in S
  OBVIOUS
<1> HIDE DEF S, found
<1>5. Max(S) \in 0..writes
  BY <1>1, <1>2
<1>6. \A k \in Key : found[k].seq \in 0..Max(S)
  <2> SUFFICES ASSUME NEW m, m = Max(S), NEW x \in S
               PROVE  x \in 0..m
    BY <1>4
  <2>1. x \in Nat /\ m \in Nat /\ x <= m
    BY <1>1, <1>2, <1>5
  <2> QED
    BY <2>1
<1> QED
  BY <1>1, <1>3, <1>5, <1>6 DEF IsSnapshot

\* A load that loses nothing returns the records there are.
LEMMA SnapshotIsNow ==
    ASSUME NEW basis
    PROVE  Succeeds(Snapshot({}).rec, basis) <=> Succeeds(rec, basis)
  BY DEF Snapshot, Succeeds

\* The file of a full build satisfies the invariant, whatever the load lost.
LEMMA BuildIsOK ==
    ASSUME RecordsOK, NEW lost
    PROVE  FileOK(IngestToFile(Snapshot(lost)))
<1> DEFINE snap == Snapshot(lost)
           f == IngestToFile(snap)
           marks == [k \in Chain |-> VoteSelf(snap)]
<1>1. /\ f.basis = snap
      /\ f.meta.state = ComputeState(snap)
      /\ f.meta.known <=> snap.target # 0
      /\ f.whole <=> ~ snap.lossy
  <2> HIDE DEF snap
  <2> QED BY DEF IngestToFile
<1>2. f.tables = IF f.meta.known THEN Populate(snap) ELSE NoTables
  <2> HIDE DEF snap
  <2> QED BY DEF IngestToFile
<1>3. IsSnapshot(snap)
  BY SnapshotsAreSnapshots
<1>4. snap.sourceSig[1] = writes /\ (snap.lossy <=> lost # {})
  BY DEF Snapshot
<1>5. ~ snap.lossy => Succeeds(rec, snap)
  BY <1>4 DEF Succeeds, Snapshot
<1>6. marks \in [Chain -> BOOLEAN] /\ \A k \in Chain : marks[k] = VoteSelf(snap)
  BY DEF VoteSelf
<1>7. f.meta.known => f.tables = TablesOf(snap, marks)
  BY <1>2, PopulateIsTablesOf
<1> HIDE DEF snap, f, marks
<1>8. HoldsItsBasis(f)
  BY <1>1, <1>2, <1>6, <1>7 DEF HoldsItsBasis
<1>9. snap.sourceSig[1] <= writes
  BY <1>4 DEF RecordsOK
<1>10. FileOK(f)
  BY <1>1, <1>3, <1>5, <1>8, <1>9 DEF FileOK
<1> QED
  BY <1>10 DEF f, snap

\* What a snapshot holds is all that the tables depend on.
LEMMA SameHoldsSameTables ==
    ASSUME NEW a, NEW b, Holds(a) = Holds(b), NEW marks
    PROVE  TablesOf(a, marks) = TablesOf(b, marks) /\ (VoteSelf(a) <=> VoteSelf(b))
<1>1. \A k \in Key : /\ IsLive(a.rec[k]) <=> IsLive(b.rec[k])
                     /\ IsLive(a.rec[k]) => a.rec[k].value = b.rec[k].value
  <2>1. \A k \in Key : (IF IsLive(a.rec[k]) THEN a.rec[k].value ELSE None)
                       = (IF IsLive(b.rec[k]) THEN b.rec[k].value ELSE None)
    <3> SUFFICES ASSUME NEW k \in Key
                 PROVE  Holds(a)[k] = Holds(b)[k] => (IF IsLive(a.rec[k]) THEN a.rec[k].value ELSE None)
                           = (IF IsLive(b.rec[k]) THEN b.rec[k].value ELSE None)
      OBVIOUS
    <3> QED BY DEF Holds
  <2>2. \A k \in Key : (IsLive(a.rec[k]) => a.rec[k].value # None) /\ (IsLive(b.rec[k]) => b.rec[k].value # None)
    BY DEF IsLive
  <2> QED
    BY <2>1, <2>2
<1>2. Chain \subseteq Key /\ Conv \subseteq Key /\ \A s \in Stores : Plain[s] \subseteq Key
  BY PlainIsKey DEF Key
<1>3. \A k \in Chain : /\ HasRow(a, k) <=> HasRow(b, k)
                       /\ HasRow(a, k) => a.rec[k].value = b.rec[k].value
  BY <1>1, <1>2 DEF HasRow
<1>4. MessagesOf(a, marks) = MessagesOf(b, marks)
  BY <1>3 DEF MessagesOf
<1>5. {j \in Chain : HasRow(a, j)} = {j \in Chain : HasRow(b, j)}
  BY <1>3
<1>6. ConvsOf(a) = ConvsOf(b)
  <2>1. MentionedBy(a) = MentionedBy(b)
    BY <1>5 DEF MentionedBy
  <2> QED
    BY <1>1, <1>2, <2>1 DEF ConvsOf
<1>7. PlainOf(a) = PlainOf(b)
  <2>1. \A s \in Stores : \A k \in Plain[s] :
            (IF IsLive(a.rec[k]) THEN a.rec[k].value ELSE None)
            = (IF IsLive(b.rec[k]) THEN b.rec[k].value ELSE None)
    BY <1>1, <1>2
  <2>2. \A s \in Stores : PlainOf(a)[s] = PlainOf(b)[s]
    BY <2>1 DEF PlainOf
  <2> QED
    BY <2>2 DEF PlainOf
<1>8. FtsOf(a) = FtsOf(b)
  BY <1>3, <1>5 DEF FtsOf
<1>9. VoteSelf(a) <=> VoteSelf(b)
  <2>1. \A k \in Chain : k \in Live(a, Chain) /\ a.rec[k].value = "sent"
                         <=> k \in Live(b, Chain) /\ b.rec[k].value = "sent"
    BY <1>1, <1>2 DEF Live
  <2> QED
    BY <2>1 DEF VoteSelf, Live
<1> QED
  BY <1>4, <1>6, <1>7, <1>8, <1>9 DEF TablesOf

\* A file brought up to a load that lost nothing satisfies it again.
LEMMA RefreshIsOK ==
    ASSUME RecordsOK, NEW f, FileOK(f), f.meta.known
    PROVE  FileOK(Refreshed(f, Snapshot({})))
<1> DEFINE snap == Snapshot({})
           g == Refreshed(f, snap)
           exit == snap.maxSeq = f.meta.state.maxSeq
<1>1. /\ g.basis = snap
      /\ g.meta.state = ComputeState(snap)
      /\ g.meta.known
      /\ g.whole <=> f.whole /\ (exit => Holds(snap) = Holds(f.basis))
      /\ g.steady <=> f.steady /\ (VoteSelf(snap) <=> f.meta.state.self)
  <2> HIDE DEF snap
  <2>1. (VoteSelf(snap) = f.meta.state.self) <=> (VoteSelf(snap) <=> VoteSelf(f.basis))
    BY DEF FileOK, ComputeState, VoteSelf
  <2>2. f.meta.state.self = VoteSelf(f.basis)
    BY DEF FileOK, ComputeState
  <2> QED BY <2>1, <2>2 DEF Refreshed
<1>2. g.tables = IF exit THEN f.tables ELSE RefreshStore(f.tables, snap, f.meta.state)
  <2> HIDE DEF snap
  <2> QED BY DEF Refreshed
<1>3. IsSnapshot(snap)
  BY SnapshotsAreSnapshots
<1>4. snap.sourceSig[1] = writes /\ ~ snap.lossy
  BY DEF Snapshot
<1>5. Succeeds(rec, snap)
  BY DEF Succeeds, Snapshot
<1>6. f.meta.state = ComputeState(f.basis)
  BY DEF FileOK
<1>7. g.whole => HoldsItsBasis(g)
  <2> SUFFICES ASSUME g.whole
               PROVE  HoldsItsBasis(g)
    OBVIOUS
  <2> HIDE DEF g, snap
  <2>1. f.whole /\ ~ f.basis.lossy /\ IsSnapshot(f.basis) /\ Succeeds(rec, f.basis)
    BY <1>1 DEF FileOK
  <2>2. PICK marks \in [Chain -> BOOLEAN] :
            /\ f.tables = TablesOf(f.basis, marks)
            /\ f.steady => \A k \in Chain : marks[k] = VoteSelf(f.basis)
    BY <2>1 DEF FileOK, HoldsItsBasis
  <2>3. g.steady => f.steady /\ (VoteSelf(snap) <=> VoteSelf(f.basis))
    BY <1>1, <1>6 DEF ComputeState
  <2>4. CASE exit
    <3>1. f.tables = TablesOf(snap, marks)
      BY <1>1, <2>2, <2>4, SameHoldsSameTables
    <3>2. g.steady => \A k \in Chain : marks[k] = VoteSelf(snap)
      BY <2>2, <2>3 DEF VoteSelf
    <3> QED
      BY <1>1, <1>2, <2>4, <3>1, <3>2 DEF HoldsItsBasis
  <2>5. CASE ~ exit
    <3> DEFINE remarked == RemarkedFrom(marks, snap, f.basis)
    <3>1. Succeeds(snap.rec, f.basis)
      BY <2>1, SnapshotIsNow DEF snap
    <3>2. g.tables = TablesOf(snap, remarked)
      BY <1>2, <1>3, <1>6, <2>1, <2>2, <2>5, <3>1, RefreshStoreIsTablesOf
    <3>3. remarked \in [Chain -> BOOLEAN]
      BY DEF RemarkedFrom, VoteSelf
    <3>4. g.steady => \A k \in Chain : remarked[k] = VoteSelf(snap)
      BY <2>2, <2>3 DEF RemarkedFrom, VoteSelf
    <3> HIDE DEF remarked
    <3> QED
      BY <1>1, <3>2, <3>3, <3>4 DEF HoldsItsBasis
  <2> QED
    BY <2>4, <2>5
<1> HIDE DEF g, snap
<1>8. snap.sourceSig[1] <= writes
  BY <1>4 DEF RecordsOK
<1>9. FileOK(g)
  BY <1>1, <1>3, <1>4, <1>5, <1>7, <1>8 DEF FileOK
<1> QED
  BY <1>9 DEF g, snap

-----------------------------------------------------------------------------
(* Directories: what each of the ways to make one does to the others.      *)

\* A file is neither of the two marks for the lack of one.
LEMMA FilesAreNotMarks ==
    ASSUME NEW snap, NEW f
    PROVE  IsFile(IngestToFile(snap)) /\ IsFile(Refreshed(f, snap))
<1>1. DOMAIN NoFile = {"kind"}
  BY DEF NoFile
<1>2. DOMAIN Torn = {"kind"}
  BY DEF Torn
<1>3. "tables" \in DOMAIN IngestToFile(snap)
  BY DEF IngestToFile
<1>4. "tables" \in DOMAIN Refreshed(f, snap)
  BY DEF Refreshed
<1> QED
  BY <1>1, <1>2, <1>3, <1>4 DEF IsFile

\* mkdtemp makes a directory that was not there.
LEMMA MadeDirIsNew ==
    ASSUME DirsNumbered, CanMakeDir, NEW f
    PROVE  /\ NextDir \notin DOMAIN disk /\ NextDir # 0
           /\ DOMAIN With(NextDir, f) = DOMAIN disk \union {NextDir}
           /\ \E n \in 0..MaxDirs : DOMAIN With(NextDir, f) = 1..n
           /\ With(NextDir, f)[NextDir] = f
           /\ \A d \in DOMAIN disk : With(NextDir, f)[d] = disk[d]
<1>1. PICK n \in 0..MaxDirs : DOMAIN disk = 1..n
  BY DEF DirsNumbered
<1>2. Cardinality(DOMAIN disk) = n
  <2>1. Cardinality(1..n) = n
    <3>1. 1..n = {} \/ n >= 1
      BY Bounds
    <3> QED BY Bounds, FS_Interval
  <2> QED BY <1>1, <2>1
<1>3. NextDir = n + 1 /\ n + 1 \in 0..MaxDirs
  BY <1>2, Bounds DEF NextDir, CanMakeDir
<1>4. n + 1 \notin DOMAIN disk /\ DOMAIN disk \union {n + 1} = 1..(n + 1)
  BY <1>1, Bounds
<1> QED
  BY <1>3, <1>4 DEF With

\* There are finitely many directories.
LEMMA DirsAreFinite ==
    ASSUME DirsNumbered
    PROVE  IsFiniteSet(DOMAIN disk)
  BY FS_Interval, Bounds DEF DirsNumbered

\* What a step does to the files: those there are stay as they are or are
\* closed, and a new one is f.
FilesStayBut(f) ==
    /\ \A d \in Files : disk'[d] \in {disk[d], NoFile}
    /\ \A d \in Files' : disk'[d] = f \/ (d \in Files /\ disk'[d] = disk[d])

\* The new file is served, and the old one closed.
LEMMA SwapKeepsDirs ==
    ASSUME DirsNumbered, ServesAFile, OneStoreFile, FlagsOK, CanMakeDir,
           faults' \in Nat, faults' >= faults,
           NEW f, IsFile(f), disk' = Closed(With(NextDir, f), cur.dir), cur'.dir = NextDir
    PROVE  DirsNumbered' /\ ServesAFile' /\ OneStoreFile' /\ FilesStayBut(f)
<1> DEFINE made == With(NextDir, f)
           Left == {d \in DOMAIN disk : disk[d] # NoFile} \ {cur.dir}
           Left1 == {d \in DOMAIN disk' : disk'[d] # NoFile} \ {cur'.dir}
<1>1. /\ NextDir \notin DOMAIN disk /\ NextDir # 0
      /\ DOMAIN made = DOMAIN disk \union {NextDir}
      /\ \E n \in 0..MaxDirs : DOMAIN made = 1..n
      /\ made[NextDir] = f
      /\ \A d \in DOMAIN disk : made[d] = disk[d]
  BY MadeDirIsNew
<1>2. cur.dir # NextDir
  BY <1>1 DEF ServesAFile, Files
<1> HIDE DEF made
<1>3. /\ DOMAIN disk' = DOMAIN made
      /\ disk'[NextDir] = f
      /\ \A d \in DOMAIN disk : disk'[d] = IF d = cur.dir /\ cur.dir # 0 THEN NoFile ELSE disk[d]
  <2>1. disk' = IF cur.dir = 0 THEN made ELSE [made EXCEPT ![cur.dir] = NoFile]
    BY DEF Closed, made
  <2> QED
    BY <1>1, <1>2, <2>1
<1>4. DirsNumbered'
  BY <1>1, <1>3 DEF DirsNumbered
<1>5. ServesAFile'
  BY <1>1, <1>3 DEF ServesAFile, Files
<1>6. OneStoreFile'
  <2>1. Left1 \subseteq Left
    BY <1>1, <1>3
  <2>2. IsFiniteSet(Left)
    BY DirsAreFinite, FS_Subset
  <2>3. Cardinality(Left1) <= Cardinality(Left) /\ Cardinality(Left1) \in Nat /\ Cardinality(Left) \in Nat
    BY <2>1, <2>2, FS_Subset, FS_CardinalityType
  <2>4. Cardinality(Left) <= faults /\ faults \in Nat
    BY Bounds DEF OneStoreFile, FlagsOK
  <2>5. Cardinality(Left1) <= faults'
    BY <2>3, <2>4
  <2> QED
    BY <2>5 DEF OneStoreFile
<1>7. FilesStayBut(f)
  BY <1>1, <1>3 DEF FilesStayBut, Files, IsFile
<1> QED
  BY <1>4, <1>5, <1>6, <1>7

\* The new file is closed: it was no better.
LEMMA KeepKeepsDirs ==
    ASSUME DirsNumbered, ServesAFile, OneStoreFile, FlagsOK, CanMakeDir,
           faults' \in Nat, faults' >= faults,
           NEW f, disk' = Closed(With(NextDir, f), NextDir), cur' = cur
    PROVE  DirsNumbered' /\ ServesAFile' /\ OneStoreFile' /\ FilesStayBut(f)
<1> DEFINE made == With(NextDir, f)
           Left == {d \in DOMAIN disk : disk[d] # NoFile} \ {cur.dir}
           Left1 == {d \in DOMAIN disk' : disk'[d] # NoFile} \ {cur'.dir}
<1>1. /\ NextDir \notin DOMAIN disk /\ NextDir # 0
      /\ DOMAIN made = DOMAIN disk \union {NextDir}
      /\ \E n \in 0..MaxDirs : DOMAIN made = 1..n
      /\ \A d \in DOMAIN disk : made[d] = disk[d]
  BY MadeDirIsNew
<1> HIDE DEF made
<1>2. /\ DOMAIN disk' = DOMAIN made
      /\ disk'[NextDir] = NoFile
      /\ \A d \in DOMAIN disk : disk'[d] = disk[d]
  <2>1. disk' = [made EXCEPT ![NextDir] = NoFile]
    BY <1>1 DEF Closed, made
  <2> QED
    BY <1>1, <2>1
<1>3. DirsNumbered'
  BY <1>1, <1>2 DEF DirsNumbered
<1>4. ServesAFile'
  BY <1>1, <1>2 DEF ServesAFile, Files
<1>5. OneStoreFile'
  <2>1. Left1 = Left
    BY <1>1, <1>2
  <2>2. Cardinality(Left) \in Nat
    BY DirsAreFinite, FS_Subset, FS_CardinalityType
  <2>3. Cardinality(Left) <= faults /\ faults \in Nat
    BY Bounds DEF OneStoreFile, FlagsOK
  <2>4. Cardinality(Left1) <= faults'
    BY <2>1, <2>2, <2>3
  <2> QED
    BY <2>4 DEF OneStoreFile
<1>6. FilesStayBut(f)
  BY <1>1, <1>2 DEF FilesStayBut, Files, IsFile
<1> QED
  BY <1>3, <1>4, <1>5, <1>6

\* A call that throws leaves a directory, and is one more fault.
LEMMA ThrowKeepsDirs ==
    ASSUME DirsNumbered, ServesAFile, OneStoreFile, FlagsOK, CanMakeDir,
           faults' = faults + 1,
           NEW f \in {NoFile, Torn}, disk' = With(NextDir, f), cur' = cur
    PROVE  DirsNumbered' /\ ServesAFile' /\ OneStoreFile' /\ FilesStayBut(f)
<1> DEFINE made == With(NextDir, f)
           Left == {d \in DOMAIN disk : disk[d] # NoFile} \ {cur.dir}
           Left1 == {d \in DOMAIN disk' : disk'[d] # NoFile} \ {cur'.dir}
<1>1. /\ NextDir \notin DOMAIN disk /\ NextDir # 0
      /\ DOMAIN disk' = DOMAIN disk \union {NextDir}
      /\ \E n \in 0..MaxDirs : DOMAIN disk' = 1..n
      /\ disk'[NextDir] = f
      /\ \A d \in DOMAIN disk : disk'[d] = disk[d]
  BY MadeDirIsNew
<1>2. DirsNumbered'
  BY <1>1 DEF DirsNumbered
<1>3. ServesAFile'
  BY <1>1 DEF ServesAFile, Files
<1>4. OneStoreFile'
  <2>1. Left1 \subseteq Left \union {NextDir}
    BY <1>1
  <2>2. IsFiniteSet(Left)
    BY DirsAreFinite, FS_Subset
  <2>3. NextDir \notin Left
    BY <1>1
  <2>4. IsFiniteSet(Left \union {NextDir}) /\ Cardinality(Left \union {NextDir}) = Cardinality(Left) + 1
    <3> HIDE DEF Left
    <3> QED BY <2>2, <2>3, FS_AddElement
  <2>5. Cardinality(Left1) <= Cardinality(Left \union {NextDir}) /\ Cardinality(Left1) \in Nat
    <3> HIDE DEF Left, Left1
    <3> QED BY <2>1, <2>4, FS_Subset, FS_CardinalityType
  <2>6. Cardinality(Left) <= faults /\ faults \in Nat /\ Cardinality(Left) \in Nat
    <3>1. Cardinality(Left) \in Nat
      <4> HIDE DEF Left
      <4> QED BY <2>2, FS_CardinalityType
    <3> QED BY <3>1, Bounds DEF OneStoreFile, FlagsOK
  <2>7. Cardinality(Left1) <= faults'
    <3> HIDE DEF Left, Left1
    <3> QED BY <2>4, <2>5, <2>6
  <2> QED
    BY <2>7 DEF OneStoreFile
<1>5. FilesStayBut(f)
  BY <1>1 DEF FilesStayBut, Files, IsFile
<1> QED
  BY <1>2, <1>3, <1>4, <1>5

-----------------------------------------------------------------------------
(* Steps.                                                                  *)

FilesStay == \A d \in Files : disk'[d] \in {disk[d], NoFile}

\* The invariant holds at first.
LEMMA InitIsOK == Init => IInv
<1> SUFFICES ASSUME Init
             PROVE  IInv
  OBVIOUS
<1> USE DEF Init
<1>1. disk = [d \in {} |-> NoFile] /\ DOMAIN disk = {}
  OBVIOUS
<1>2. Files = {}
  BY <1>1 DEF Files
<1>3. RecordsOK
  <2> DEFINE S == {0} \union {rec[k].seq : k \in Key}
             Opened == {Opening[k].seq : k \in DOMAIN Opening}
  <2>1. IsFiniteSet(Opened) /\ Opened \in SUBSET Nat
    <3> DEFINE seq == [k \in DOMAIN Opening |-> Opening[k].seq]
    <3>1. seq \in Surjection(DOMAIN Opening, Opened)
      BY DEF Surjection
    <3> HIDE DEF seq, Init
    <3>2. IsFiniteSet(Opened)
      <4> HIDE DEF Opened
      <4> QED BY <3>1, OpeningNumbered, FS_Surjection
    <3> QED BY <3>2, OpeningNumbered
  <2>2. PICK n \in Nat : \A x \in Opened : x <= n
    BY <2>1, FiniteIsBounded
  <2>3. \A k \in Key : rec[k].seq \in Opened \union {0}
    BY AbsentIsNotLive
  <2>4. S \in SUBSET (0..n) /\ S # {}
    BY <2>1, <2>2, <2>3
  <2>5. Max(S) \in S /\ \A x \in S : x <= Max(S)
    <3> HIDE DEF S
    <3> QED BY <2>4, MaxIsGreatest
  <2>6. writes = Max(S)
    OBVIOUS
  <2>7. writes \in Nat /\ \A x \in S : x \in Nat /\ x <= writes
    <3> HIDE DEF S
    <3>1. writes \in S /\ \A x \in S : x <= writes
      BY <2>5, <2>6
    <3>2. \A x \in S : x \in Nat
      BY <2>4
    <3> QED BY <3>1, <3>2
  <2>8. \A k \in Key : rec[k].seq \in 0..writes
    <3> SUFFICES ASSUME NEW k \in Key
                 PROVE  rec[k].seq \in 0..writes
      OBVIOUS
    <3>1. rec[k].seq \in S
      OBVIOUS
    <3> HIDE DEF S, Init
    <3> QED BY <2>7, <3>1
  <2>9. DOMAIN rec = Key /\ gen \in 0..writes
    <3>1. DOMAIN rec = Key /\ gen = 0
      OBVIOUS
    <3> HIDE DEF S, Init
    <3> QED BY <2>7, <3>1
  <2> QED
    BY <2>7, <2>8, <2>9 DEF RecordsOK
<1>4. FlagsOK
  <2>1. gen = 0 /\ cache = {} /\ due = FALSE /\ faults = 0
    OBVIOUS
  <2> HIDE DEF Init
  <2>2. cache \subseteq 0..gen /\ due \in BOOLEAN
    BY <2>1
  <2>3. faults \in 0..MaxFaults
    BY <2>1, Bounds
  <2> QED
    BY <2>2, <2>3 DEF FlagsOK
<1>5. DirsNumbered
  <2>1. 0 \in 0..MaxDirs /\ 1..0 = {}
    BY Bounds
  <2> QED
    BY <1>1, <2>1 DEF DirsNumbered
<1>6. ServesAFile
  BY DEF ServesAFile, NoStore
<1>7. OneStoreFile
  <2>1. {d \in DOMAIN disk : disk[d] # NoFile} \ {cur.dir} = {}
    BY <1>1
  <2>2. Cardinality({}) = 0
    BY FS_EmptySet
  <2>3. faults = 0
    OBVIOUS
  <2> QED
    BY <2>1, <2>2, <2>3 DEF OneStoreFile
<1>8. FilesOK
  BY <1>2 DEF FilesOK
<1> QED
  BY <1>3, <1>4, <1>5, <1>6, <1>7, <1>8 DEF IInv

\* What Teams does keeps the files as they are, and what is there now still
\* came after what they are of.
LEMMA SourceStep ==
    ASSUME IInv,
           writes' \in Nat, writes <= writes', gen' \in 0..writes', gen <= gen',
           DOMAIN rec' = Key,
           \A k \in Key : \/ rec'[k] = rec[k]
                          \/ rec'[k] = Absent
                          \/ rec'[k].seq = writes' /\ writes' > writes,
           UNCHANGED <<disk, cur, cache, due, faults>>
    PROVE  IInv' /\ FilesStay
<1> USE DEF IInv
<1>1. RecordsOK'
  <2>1. \A k \in Key : rec'[k].seq \in 0..writes'
    BY AbsentIsNotLive DEF RecordsOK
  <2> QED
    BY <2>1 DEF RecordsOK
<1>2. FlagsOK'
  <2>1. cache' \subseteq 0..gen'
    BY DEF FlagsOK, RecordsOK
  <2> QED
    BY <2>1 DEF FlagsOK
<1>3. Files' = Files
  BY DEF Files
<1>4. DirsNumbered' /\ ServesAFile' /\ OneStoreFile'
  BY <1>3 DEF DirsNumbered, ServesAFile, OneStoreFile
<1>5. FilesOK'
  <2> SUFFICES ASSUME NEW d \in Files
               PROVE  FileOK(disk[d])'
    BY <1>3 DEF FilesOK
  <2> DEFINE f == disk[d]
             basis == f.basis
  <2>1. FileOK(f)
    BY DEF FilesOK
  <2>2. f' = f
    OBVIOUS
  <2>3. basis.sourceSig[1] \in Nat /\ basis.sourceSig[1] <= writes
    BY <2>1 DEF FileOK, IsSnapshot
  <2>4. Succeeds(rec, basis) => Succeeds(rec', basis)
    <3> HIDE DEF basis
    <3> SUFFICES ASSUME Succeeds(rec, basis), NEW k \in Key
                 PROVE  \/ rec'[k] \in {basis.rec[k], Absent}
                        \/ rec'[k].seq > basis.sourceSig[1]
      BY DEF Succeeds
    <3>1. writes \in Nat
      BY DEF RecordsOK
    <3> QED
      BY <3>1, <2>3 DEF Succeeds
  <2>5. basis.sourceSig[1] <= writes'
    <3> HIDE DEF basis
    <3> QED BY <2>3 DEF RecordsOK
  <2>6. PICK g : g = f
    OBVIOUS
  <2>7. /\ IsSnapshot(g.basis) /\ g.basis.sourceSig[1] <= writes'
        /\ g.meta.state = ComputeState(g.basis)
        /\ ~ g.basis.lossy => Succeeds(rec', g.basis)
        /\ g.whole => ~ g.basis.lossy /\ HoldsItsBasis(g)
    BY <2>1, <2>4, <2>5, <2>6 DEF FileOK
  <2>8. FileOK(g)'
    BY <2>7 DEF FileOK
  <2>9. disk'[d] = g
    BY <2>2, <2>6
  <2> QED
    BY <2>8, <2>9
<1>6. FilesStay
  BY DEF FilesStay
<1> QED
  BY <1>1, <1>2, <1>4, <1>5, <1>6

\* A step that leaves the source alone keeps every file what it was, and the
\* new one is fine if it was.
LEMMA FilesStep ==
    ASSUME FilesOK, UNCHANGED source,
           NEW f, FilesStayBut(f), FileOK(f) \/ ~ IsFile(f)
    PROVE  FilesOK'
<1>1. ASSUME NEW g, FileOK(g)
      PROVE  FileOK(g)'
  BY <1>1 DEF FileOK, source
<1> SUFFICES ASSUME NEW d \in Files'
             PROVE  FileOK(disk[d])'
  BY DEF FilesOK
<1>2. PICK g : g = disk'[d]
  OBVIOUS
<1>3. IsFile(g)
  BY <1>2 DEF Files, IsFile
<1>4. FileOK(g)
  BY <1>2, <1>3 DEF FilesStayBut, FilesOK
<1> QED
  BY <1>1, <1>2, <1>4

\* A step with or without a fault keeps their number within its bound.
LEMMA FaultCounts ==
    ASSUME FlagsOK, NEW b, FaultIf(b)
    PROVE  faults' \in 0..MaxFaults /\ faults' \in Nat /\ faults' >= faults
<1>1. CASE b
  BY <1>1, Bounds DEF FlagsOK, FaultIf, Fault
<1>2. CASE ~ b
  BY <1>2, Bounds DEF FlagsOK, FaultIf
<1> QED
  BY <1>1, <1>2

\* A full build keeps the invariant.
LEMMA FullStep == IInv /\ Full => IInv' /\ FilesStay
<1> SUFFICES ASSUME IInv, Full
             PROVE  IInv' /\ FilesStay
  OBVIOUS
<1> USE DEF IInv
<1>1. PICK lost, snap, f :
        /\ lost \in Losses /\ snap = Snapshot(lost) /\ f = IngestToFile(snap)
        /\ FaultIf(snap.lossy)
        /\ \/ /\ disk' = Closed(With(NextDir, f), NextDir)
              /\ cur' = cur /\ cache' = cache
           \/ /\ disk' = Closed(With(NextDir, f), cur.dir)
              /\ cur'.dir = NextDir /\ cache' = {}
  <2>1. PICK lost \in Losses :
          LET snap == Snapshot(lost)
              keep == snap.lossy /\ cur.matched
              made == With(NextDir, IngestToFile(snap))
          IN /\ FaultIf(snap.lossy)
             /\ disk' = IF keep THEN Closed(made, NextDir) ELSE Closed(made, cur.dir)
             /\ cur' = IF keep THEN cur ELSE [dir |-> NextDir, matched |-> snap.target # 0]
             /\ cache' = IF keep THEN cache ELSE {}
    BY DEF Full
  <2>2. PICK snap : snap = Snapshot(lost)
    OBVIOUS
  <2>3. PICK f : f = IngestToFile(snap)
    OBVIOUS
  <2>4. CASE snap.lossy /\ cur.matched
    BY <2>1, <2>2, <2>3, <2>4
  <2>5. CASE ~ (snap.lossy /\ cur.matched)
    BY <2>1, <2>2, <2>3, <2>5
  <2> QED
    BY <2>4, <2>5
<1>2. CanMakeDir /\ due' = FALSE /\ UNCHANGED source
  BY DEF Full
<1>3. faults' \in 0..MaxFaults /\ faults' \in Nat /\ faults' >= faults
  BY <1>1, FaultCounts
<1>4. FileOK(f) /\ IsFile(f)
  BY <1>1, BuildIsOK, FilesAreNotMarks
<1>5. DirsNumbered' /\ ServesAFile' /\ OneStoreFile' /\ FilesStayBut(f)
  BY <1>1, <1>2, <1>3, <1>4, KeepKeepsDirs, SwapKeepsDirs
<1>6. FilesOK'
  BY <1>2, <1>4, <1>5, FilesStep
<1>7. RecordsOK' /\ FlagsOK'
  BY <1>1, <1>2, <1>3 DEF RecordsOK, FlagsOK, source
<1> QED
  BY <1>5, <1>6, <1>7 DEF FilesStayBut, FilesStay

\* A call that throws.
LEMMA ThrowStep ==
    ASSUME IInv, CanMakeDir, Fault, NEW f \in {NoFile, Torn}, disk' = With(NextDir, f),
           due' \in BOOLEAN, UNCHANGED <<source, cur, cache>>
    PROVE  IInv' /\ FilesStay
<1> USE DEF IInv
<1>1. faults' = faults + 1 /\ faults' \in 0..MaxFaults
  BY Bounds DEF Fault, FlagsOK
<1>2. DirsNumbered' /\ ServesAFile' /\ OneStoreFile' /\ FilesStayBut(f)
  BY <1>1, ThrowKeepsDirs
<1>3. FilesOK'
  BY <1>2, FilesStep DEF IsFile
<1>4. RecordsOK' /\ FlagsOK'
  BY <1>1 DEF RecordsOK, FlagsOK, source
<1> QED
  BY <1>2, <1>3, <1>4 DEF FilesStayBut, FilesStay

\* A call that changes neither the files nor the one served.
LEMMA IdleStep ==
    ASSUME IInv, NEW b, FaultIf(b), due' \in BOOLEAN, cache' \subseteq 0..gen,
           UNCHANGED <<source, disk, cur>>
    PROVE  IInv' /\ FilesStay
<1> USE DEF IInv
<1>1. faults' \in 0..MaxFaults /\ faults' \in Nat /\ faults' >= faults
  BY FaultCounts
<1>2. Files' = Files
  BY DEF Files
<1>3. RecordsOK' /\ FlagsOK'
  BY <1>1 DEF RecordsOK, FlagsOK, source
<1>4. DirsNumbered' /\ ServesAFile'
  BY <1>2 DEF DirsNumbered, ServesAFile
<1>5. OneStoreFile'
  <2> DEFINE Left == {d \in DOMAIN disk : disk[d] # NoFile} \ {cur.dir}
  <2>1. Cardinality(Left) \in Nat /\ faults \in Nat
    BY DirsAreFinite, FS_Subset, FS_CardinalityType, Bounds DEF FlagsOK
  <2>2. Left' = Left
    OBVIOUS
  <2>3. Cardinality(Left) <= faults
    BY DEF OneStoreFile
  <2> HIDE DEF Left
  <2>4. Cardinality(Left)' <= faults'
    BY <1>1, <2>1, <2>2, <2>3
  <2> QED
    BY <2>4 DEF OneStoreFile, Left
<1>6. FilesStayBut(NoFile)
  BY DEF FilesStayBut, Files
<1>7. FilesOK'
  BY <1>6, FilesStep DEF IsFile
<1> QED
  BY <1>3, <1>4, <1>5, <1>6, <1>7 DEF FilesStayBut, FilesStay

\* A refresh past its first checks.
LEMMA RefreshFromStep ==
    ASSUME IInv, CanRefresh, NEW lost \in Losses, RefreshFrom(Snapshot(lost)),
           FaultIf(lost # {}), cache' \subseteq 0..gen, UNCHANGED source
    PROVE  IInv' /\ FilesStay
<1> USE DEF IInv
<1> DEFINE snap == Snapshot(lost)
<1>1. faults' \in 0..MaxFaults /\ faults' \in Nat /\ faults' >= faults
  BY FaultCounts
<1>2. RecordsOK'
  BY DEF RecordsOK, source
<1>3. CASE UNCHANGED <<disk, cur>> /\ due' \in BOOLEAN
  <2> HIDE DEF IInv
  <2> QED BY <1>3, IdleStep
<1>4. CASE ~ (File.meta.known /\ snap.lossy) /\ ~ NeedsFull(snap) /\ UNCHANGED due /\ Swap(Refreshed(File, snap))
  <2>1. File.meta.known /\ lost = {}
    BY <1>4 DEF NeedsFull, Snapshot
  <2>2. PICK old : old = File
    OBVIOUS
  <2>3. FileOK(old)
    BY <2>2 DEF FilesOK, File, ServesAFile, CanRefresh, Served
  <2>4. PICK f : f = Refreshed(old, snap)
    OBVIOUS
  <2>5. FileOK(f) /\ IsFile(f)
    BY <2>1, <2>2, <2>3, <2>4, RefreshIsOK, FilesAreNotMarks
  <2>6. disk' = Closed(With(NextDir, f), cur.dir) /\ cur'.dir = NextDir
    BY <1>4, <2>2, <2>4 DEF Swap
  <2>7. CanMakeDir
    BY DEF CanRefresh
  <2>8. DirsNumbered' /\ ServesAFile' /\ OneStoreFile' /\ FilesStayBut(f)
    BY <1>1, <2>5, <2>6, <2>7, SwapKeepsDirs
  <2>9. FilesOK'
    BY <2>5, <2>8, FilesStep
  <2>10. FlagsOK'
    BY <1>1, <1>4 DEF FlagsOK, source
  <2> QED
    BY <1>2, <2>8, <2>9, <2>10 DEF FilesStayBut, FilesStay
<1> QED
  <2>1. due \in BOOLEAN
    BY DEF FlagsOK
  <2> HIDE DEF snap, IInv
  <2> QED
    BY <1>3, <1>4, <2>1 DEF RefreshFrom, snap

\* Every step keeps it, and leaves finished files as they are or removes them.
LEMMA Step == IInv /\ [Next]_vars => IInv' /\ FilesStay
<1> SUFFICES ASSUME IInv, [Next]_vars
             PROVE  IInv' /\ FilesStay
  OBVIOUS
<1> USE DEF IInv
<1>1. ASSUME NEW w \in Writes, Write(w[1], w[2])
      PROVE  IInv' /\ FilesStay
  <2>1. /\ writes' = writes + 1 /\ gen' = gen
        /\ rec' = [rec EXCEPT ![w[1]] = [seq |-> writes + 1, value |-> w[2]]]
        /\ UNCHANGED <<disk, cur, cache, due, faults>>
    BY <1>1 DEF Write
  <2>2. writes' \in Nat /\ writes <= writes' /\ writes' > writes /\ gen' \in 0..writes' /\ gen <= gen'
    BY <2>1 DEF RecordsOK
  <2>3. DOMAIN rec' = Key /\ \A k \in Key : rec'[k] = rec[k] \/ rec'[k].seq = writes'
    BY <2>1 DEF RecordsOK
  <2> HIDE DEF IInv
  <2> QED
    BY <2>1, <2>2, <2>3, SourceStep
<1>2. CASE Compact
  <2>1. /\ writes' = writes /\ gen' = writes /\ gen < writes
        /\ rec' = [k \in Key |-> IF rec[k].value = Tombstone THEN Absent ELSE rec[k]]
        /\ UNCHANGED <<disk, cur, cache, due, faults>>
    BY <1>2 DEF Compact
  <2>2. writes' \in Nat /\ writes <= writes' /\ gen' \in 0..writes' /\ gen <= gen'
    BY <2>1 DEF RecordsOK
  <2>3. DOMAIN rec' = Key /\ \A k \in Key : rec'[k] = rec[k] \/ rec'[k] = Absent
    BY <2>1
  <2> HIDE DEF IInv
  <2> QED
    BY <2>1, <2>2, <2>3, SourceStep
<1>3. ASSUME NEW t \in Targets, Migrate(t)
      PROVE  IInv' /\ FilesStay
  <2>1. /\ writes' = writes + 1 /\ gen' = gen
        /\ rec' = [k \in Key |-> IF k \in Chain \union Conv THEN Absent ELSE rec[k]]
        /\ UNCHANGED <<disk, cur, cache, due, faults>>
    BY <1>3 DEF Migrate
  <2>2. writes' \in Nat /\ writes <= writes' /\ gen' \in 0..writes' /\ gen <= gen'
    BY <2>1 DEF RecordsOK
  <2>3. DOMAIN rec' = Key /\ \A k \in Key : rec'[k] = rec[k] \/ rec'[k] = Absent
    BY <2>1
  <2> HIDE DEF IInv
  <2> QED
    BY <2>1, <2>2, <2>3, SourceStep
<1>4. CASE Full
  BY <1>4, FullStep
<1>5. CASE FullThrows
  <2>1. PICK f \in {NoFile, Torn} : disk' = With(NextDir, f)
    BY <1>5 DEF FullThrows
  <2>2. CanMakeDir /\ Fault /\ due' \in BOOLEAN /\ UNCHANGED <<source, cur, cache>>
    BY <1>5 DEF FullThrows
  <2> HIDE DEF IInv
  <2> QED
    BY <2>1, <2>2, ThrowStep
<1>6. CASE Refresh
  <2>1. CanRefresh /\ UNCHANGED source /\ cache' = cache
    BY <1>6 DEF Refresh
  <2>2. PICK lost \in Losses : FaultIf(lost # {}) /\ RefreshFrom(Snapshot(lost))
    BY <1>6 DEF Refresh
  <2>3. cache' \subseteq 0..gen
    BY <2>1 DEF FlagsOK
  <2> HIDE DEF IInv
  <2> QED
    BY <2>1, <2>2, <2>3, RefreshFromStep
<1>7. CASE ReuseRefresh
  <2>1. CanRefresh /\ UNCHANGED source
    BY <1>7 DEF ReuseRefresh
  <2>2. PICK lost \in Losses :
          /\ FaultIf(lost # {})
          /\ cache' \in {cache, {}, {gen}}
          /\ UNCHANGED <<disk, cur, due>> \/ RefreshFrom(Snapshot(lost))
    <3>1. PICK lost \in Losses :
            LET snap == Snapshot(lost)
            IN /\ FaultIf(lost # {})
               /\ cache' = IF ~File.meta.known THEN cache ELSE IF snap.lossy THEN {} ELSE {gen}
               /\ IF File.meta.known /\ ~(cache \subseteq {gen})
                  THEN UNCHANGED <<disk, cur, due>>
                  ELSE RefreshFrom(snap)
      BY <1>7 DEF ReuseRefresh
    <3>2. PICK snap : snap = Snapshot(lost)
      OBVIOUS
    <3>3. cache' \in {cache, {}, {gen}}
      BY <3>1, <3>2
    <3> QED
      BY <3>1, <3>3
  <2>3. cache' \subseteq 0..gen
    BY <2>2 DEF FlagsOK, RecordsOK
  <2>4. CASE RefreshFrom(Snapshot(lost))
    <3> HIDE DEF IInv
    <3> QED BY <2>1, <2>2, <2>3, <2>4, RefreshFromStep
  <2>5. CASE UNCHANGED <<disk, cur, due>>
    <3>1. due' \in BOOLEAN
      BY <2>5 DEF FlagsOK
    <3> HIDE DEF IInv
    <3> QED BY <2>1, <2>2, <2>3, <2>5, <3>1, IdleStep
  <2> QED
    BY <2>2, <2>4, <2>5
<1>8. CASE RefreshThrows
  <2>1. PICK f \in {NoFile, Torn} : disk' = With(NextDir, f)
    BY <1>8 DEF RefreshThrows
  <2>2. CanMakeDir /\ Fault /\ due' \in BOOLEAN /\ UNCHANGED <<source, cur, cache>>
    BY <1>8 DEF RefreshThrows, CanRefresh
  <2> HIDE DEF IInv
  <2> QED
    BY <2>1, <2>2, ThrowStep
<1>9. CASE UNCHANGED vars
  <2>1. UNCHANGED <<source, disk, cur, cache, due, faults>>
    BY <1>9 DEF vars, source
  <2>2. due' \in BOOLEAN /\ cache' \subseteq 0..gen
    BY <2>1 DEF FlagsOK
  <2>3. FaultIf(FALSE)
    BY <2>1 DEF FaultIf
  <2> HIDE DEF IInv
  <2> QED
    BY <2>1, <2>2, <2>3, IdleStep
<1> QED
  BY <1>1, <1>2, <1>3, <1>4, <1>5, <1>6, <1>7, <1>8, <1>9 DEF Next

-----------------------------------------------------------------------------
(* What the invariant implies.                                             *)

\* The type invariant follows from it.
LEMMA TypesHold == IInv => TypeOK
<1> SUFFICES ASSUME IInv
             PROVE  TypeOK
  OBVIOUS
<1>1. PICK n \in 0..MaxDirs : DOMAIN disk = 1..n
  BY DEF IInv, DirsNumbered
<1>2. Cardinality(DOMAIN disk) = n
  <2>1. 1..n = {} \/ n >= 1
    BY Bounds
  <2> QED BY <1>1, <2>1, Bounds, FS_Interval
<1>3. DOMAIN disk = 1..Cardinality(DOMAIN disk) /\ Cardinality(DOMAIN disk) =< MaxDirs
  BY <1>1, <1>2, Bounds
<1>4. \A d \in Files : disk[d].meta.state.maxSeq \in 0..writes
  <2> SUFFICES ASSUME NEW d \in Files
               PROVE  disk[d].meta.state.maxSeq \in 0..writes
    OBVIOUS
  <2>1. FileOK(disk[d]) /\ writes \in Nat
    BY DEF IInv, FilesOK, RecordsOK
  <2>2. PICK f : f = disk[d]
    OBVIOUS
  <2>3. f.meta.state.maxSeq = f.basis.maxSeq
    BY <2>1, <2>2 DEF FileOK, ComputeState
  <2>4. f.basis.maxSeq \in 0..writes
    BY <2>1, <2>2 DEF FileOK, IsSnapshot
  <2> QED
    BY <2>2, <2>3, <2>4
<1> QED
  BY <1>3, <1>4 DEF IInv, FlagsOK, ServesAFile, TypeOK

\* What is left of tables when it does not matter whose a message is.
LEMMA UnmarkedOf ==
    ASSUME NEW r, NEW c, NEW p, NEW i, NEW x, x = [k \in Chain |-> r[k].text],
           NEW t, t = [messages |-> r, convs |-> c, plain |-> p, derived |-> r, fts |-> i]
    PROVE  Unmarked(t) = [messages |-> x, convs |-> c, plain |-> p, derived |-> x, fts |-> i]
<1>1. PICK u : u = Unmarked(t)
  OBVIOUS
<1>2. x = [k \in Chain |-> t.messages[k].text] /\ x = [k \in Chain |-> t.derived[k].text]
  OBVIOUS
<1>3. u = [t EXCEPT !.messages = x, !.derived = x]
  BY <1>1, <1>2, Zenon DEF Unmarked
<1>4. u = [messages |-> x, convs |-> c, plain |-> p, derived |-> x, fts |-> i]
  BY <1>3
<1> QED
  BY <1>1, <1>4

\* FileIsRebuild follows from it.
LEMMA RebuildHolds == IInv => FileIsRebuild
<1> SUFFICES ASSUME IInv, NEW d \in Files, NEW f, f = disk[d], f.whole,
                    NEW rebuilt, rebuilt = IF f.meta.known THEN Populate(f.basis) ELSE NoTables
             PROVE  IF f.steady THEN f.tables = rebuilt ELSE Unmarked(f.tables) = Unmarked(rebuilt)
  BY Zenon DEF FileIsRebuild
<1>1. HoldsItsBasis(f)
  BY DEF IInv, FilesOK, FileOK
<1>2. CASE ~ f.meta.known
  BY <1>1, <1>2 DEF HoldsItsBasis
<1>3. CASE f.meta.known
  <2> DEFINE votes == [k \in Chain |-> VoteSelf(f.basis)]
  <2>1. PICK marks \in [Chain -> BOOLEAN] :
            /\ f.tables = TablesOf(f.basis, marks)
            /\ f.steady => \A k \in Chain : marks[k] = VoteSelf(f.basis)
    BY <1>1, <1>3 DEF HoldsItsBasis
  <2>2. rebuilt = TablesOf(f.basis, votes)
    BY <1>3, PopulateIsTablesOf
  <2>3. ASSUME f.steady
        PROVE  f.tables = rebuilt
    <3>1. MessagesOf(f.basis, marks) = MessagesOf(f.basis, votes)
      <4>1. \A k \in Chain : marks[k] = votes[k]
        BY <2>1, <2>3
      <4> HIDE DEF votes
      <4> QED BY <4>1 DEF MessagesOf
    <3> HIDE DEF votes
    <3> QED
      BY <2>1, <2>2, <3>1 DEF TablesOf
  <2>4. Unmarked(f.tables) = Unmarked(rebuilt)
    <3> HIDE DEF votes
    <3> DEFINE Texts(m) == [k \in Chain |-> MessagesOf(f.basis, m)[k].text]
    <3>1. Texts(marks) = Texts(votes)
      BY RowsAreRows DEF MessagesOf
    <3>2. \A m : Unmarked(TablesOf(f.basis, m))
                 = [messages |-> Texts(m), convs |-> ConvsOf(f.basis), plain |-> PlainOf(f.basis),
                    derived |-> Texts(m), fts |-> FtsOf(f.basis)]
      BY UnmarkedOf DEF TablesOf
    <3> HIDE DEF Texts
    <3> QED
      BY <2>1, <2>2, <3>1, <3>2
  <2> QED
    BY <2>3, <2>4
<1> QED
  BY <1>2, <1>3

\* SigsAreSound follows from it.
LEMMA SigsHold == IInv => SigsAreSound
<1> SUFFICES ASSUME IInv, Served, File.meta.known, ~ File.basis.lossy, NEW s \in Stores,
                    EntitySig(Snapshot({}), s) = File.meta.state.sigs[s], NEW k \in Plain[s]
             PROVE  Holds(Snapshot({}))[k] = Holds(File.basis)[k]
  BY DEF SigsAreSound
<1>1. PICK basis : basis = File.basis
  OBVIOUS
<1>2. PICK snap : snap = Snapshot({})
  OBVIOUS
<1>3. FileOK(File)
  BY DEF IInv, FilesOK, File, ServesAFile, Served
<1>4. File.meta.state.sigs[s] = EntitySig(basis, s)
  BY <1>1, <1>3 DEF FileOK, ComputeState, StoreSigs
<1>5. IsSnapshot(basis) /\ IsSnapshot(snap) /\ Succeeds(snap.rec, basis)
  BY <1>1, <1>2, <1>3, SnapshotsAreSnapshots, SnapshotIsNow DEF FileOK, IInv
<1>6. /\ IsLive(snap.rec[k]) <=> IsLive(basis.rec[k])
      /\ IsLive(snap.rec[k]) => snap.rec[k] = basis.rec[k]
  BY <1>2, <1>4, <1>5, SameSigSameStore
<1>7. k \in Key
  BY PlainIsKey
<1>8. Holds(snap)[k] = Holds(basis)[k]
  BY <1>6, <1>7 DEF Holds
<1> QED
  BY <1>1, <1>2, <1>8

-----------------------------------------------------------------------------
(* The theorems.                                                           *)

\* The invariant holds in every state NativeStore can reach: a file agrees with
\* its own row of _meta, and the source with the file.
THEOREM Inductive == Spec => []IInv
<1>1. IInv /\ [Next]_vars => IInv'
  BY Step
<1> QED
  BY InitIsOK, <1>1, PTL DEF Spec

\* What is served is a finished file, and every finished file's state is of a
\* snapshot Teams has had (native.ts:100-160, session.ts:232-260).
THEOREM TypeCorrect == Spec => []TypeOK
  BY Inductive, TypesHold, PTL

\* A file refreshed any number of times holds what a full build of the same
\* snapshot would hold (refresh.rs:1-8, 140-262).
THEOREM RebuildCorrect == Spec => []FileIsRebuild
  BY Inductive, RebuildHolds, PTL

\* A store skipped because its signature is the old one holds what it held
\* (refresh.rs:66-90).
THEOREM SigsCorrect == Spec => []SigsAreSound
  BY Inductive, SigsHold, PTL

\* No store file is left but the one served and one for each call that threw
\* (native.ts:100-116, session.ts:232-237).
THEOREM OneStoreFileCorrect == Spec => []OneStoreFile
<1>1. IInv => OneStoreFile
  BY DEF IInv
<1> QED
  BY Inductive, <1>1, PTL

\* A finished file is never written again, only removed (refresh.rs:412-419).
THEOREM NeverMutatedCorrect == Spec => NeverMutated
<1>1. IInv /\ [Next]_vars => [\A d \in Files : disk'[d] \in {disk[d], NoFile}]_vars
  BY Step DEF FilesStay
<1> QED
  BY Inductive, <1>1, PTL DEF Spec, NeverMutated
=============================================================================
