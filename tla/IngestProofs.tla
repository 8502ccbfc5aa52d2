---------------------------- MODULE IngestProofs ----------------------------
(***************************************************************************)
(* Type correctness, the equivalence invariant and the safety properties   *)
(* of Ingest, for every set of chains, conversations, messages, contents   *)
(* and any number of writes.                                               *)
(***************************************************************************)
EXTENDS Ingest, NumberFacts, TLAPS

-----------------------------------------------------------------------------
(* The inductive invariant, part by part.                                  *)

\* No record and no watermark is newer than the last write.
SeqsBounded ==
    /\ \A c \in Chain : rec[c].seq <= writes
    /\ \A v \in Conv : convRec[v].seq <= writes
    /\ otherRec.seq <= writes
    /\ state.maxSeq <= writes

\* Only a put holds entries.
OnlyPutsHold ==
    \A c \in Chain, k \in Key : rec[c].entries[k] # None => rec[c].kind = "put"

\* A migration away from the store's targets leaves a record past the watermark.
MoveIsNewer == (served /\ target # state.target) => otherRec.seq > state.maxSeq

\* A row of a chain that is gone without a trace is no secret: something newer
\* than the watermark tells there is work to do.
GoneChainIsNoticed ==
    (/\ served /\ target = state.target
     /\ taint \cap {"lossy", "shared", "elided"} = {}
     /\ IsMaxSeq(state.maxSeq, rec, convRec, otherRec)) =>
        \A k \in Key : messages[k] # None => rec[messages[k].chain].kind # "absent"

\* Conversations at or below the watermark are as a full build makes them,
\* but for the message-only rows a torn apply had no time to add.
ConvsFollow ==
    (served /\ taint \cap {"lossy", "torn"} = {}) =>
        \A v \in Conv : convRec[v].seq <= state.maxSeq =>
            \/ convs[v] = FullConvs(convRec, messages)[v]
            \/ needFull /\ convs[v] = None /\ convRec[v].topic = None

OthersFollow == (served /\ otherRec.seq <= state.maxSeq) => others = otherRec.value

IInv ==
    /\ TypeOK
    /\ SeqsBounded
    /\ OnlyPutsHold
    /\ MoveIsNewer
    /\ WatermarkCoversStore
    /\ GoneChainIsNoticed
    /\ ConvsFollow
    /\ OthersFollow
    /\ DerivedFollowsMessages

-----------------------------------------------------------------------------
(* Facts about the operators.                                              *)

\* The winner of a message is one of the chains that hold it.
LEMMA WinnerIsHolder ==
    ASSUME NEW r \in [Chain -> ChainRecord], NEW k \in Key,
           NEW cs \in SUBSET Chain, cs # {},
           \A c \in cs : r[c].entries[k] # None
    PROVE  Winner(r, cs, k) \in cs
<1> DEFINE ver(c) == Version[r[c].entries[k]]
           Vs == {ver(c) : c \in cs}
<1>1. \A c \in cs : r[c].entries[k] \in Content
  BY DEF ChainRecord, Entries
<1>2. PICK n \in Nat : Version \in [Content -> 0..n]
  BY VersionsAreNumbers
<1>3. Vs \in SUBSET (0..n) /\ Vs # {}
  BY <1>1, <1>2
<1>4. PICK v \in Vs : \A w \in Vs : w <= v
  <2> HIDE DEF Vs
  <2> QED BY <1>2, <1>3, BoundedHasMax
<1> DEFINE best == {c \in cs : ver(c) = v}
<1>5. PICK m \in Nat : Chain \subseteq 0..m
  BY ChainsNumbered
<1>6. best \in SUBSET (0..m) /\ best # {}
  BY <1>4, <1>5
<1>7. PICK c \in best : \A d \in best : d <= c
  <2> HIDE DEF best
  <2> QED BY <1>5, <1>6, BoundedHasMax
<1>8. \A d \in cs : ver(d) < ver(c) \/ (ver(d) = ver(c) /\ d <= c)
  <2> TAKE d \in cs
  <2>1. ver(d) \in Vs /\ ver(d) <= v /\ ver(c) = v
    BY <1>4, <1>7
  <2>2. ver(d) \in Nat /\ v \in Nat
    BY <1>3, <2>1
  <2> QED
    BY <1>7, <2>1, <2>2
<1> QED
  BY <1>7, <1>8 DEF Winner

LEMMA AbsentType == Absent \in ChainRecord /\ NoEntries \in Entries
  BY DEF Absent, ChainRecord, NoEntries, Entries

LEMMA SnapshotType ==
    ASSUME TypeOK, NEW cs \in SUBSET Chain, NEW vs \in SUBSET Conv
    PROVE  /\ WithoutChains(cs) \in [Chain -> ChainRecord]
           /\ WithoutConvs(vs) \in [Conv -> [topic : Topic \cup {None}, seq : Nat]]
           /\ Source \in [Chain -> ChainRecord]
  BY AbsentType DEF TypeOK, WithoutChains, WithoutConvs, Source

LEMMA HoldersInChain ==
    ASSUME NEW r \in [Chain -> ChainRecord], NEW k \in Key
    PROVE  Holders(r, k) = {c \in Chain : r[c].entries[k] # None}
  BY DEF Holders

LEMMA RowOfType ==
    ASSUME NEW r \in [Chain -> ChainRecord], NEW k \in Key, NEW c \in Chain,
           r[c].entries[k] # None, NEW self \in BOOLEAN
    PROVE  /\ RowOf(r, c, k, self) \in Row
           /\ RowOf(r, c, k, self) # None
           /\ RowOf(r, c, k, self).chain = c
<1>1. r[c].entries[k] \in Content
  BY DEF ChainRecord, Entries
<1>2. RowOf(r, c, k, self) \in Row
  BY <1>1 DEF RowOf, Row
<1> QED
  BY <1>2, NoneIsNoRow DEF RowOf

LEMMA FullMessagesType ==
    ASSUME NEW r \in [Chain -> ChainRecord], NEW self \in BOOLEAN
    PROVE  FullMessages(r, self) \in [Key -> Row \cup {None}]
<1> SUFFICES ASSUME NEW k \in Key, Holders(r, k) # {}
             PROVE  RowOf(r, Winner(r, Holders(r, k), k), k, self) \in Row
  BY DEF FullMessages
<1>1. Winner(r, Holders(r, k), k) \in Holders(r, k)
  BY HoldersInChain, WinnerIsHolder
<1> QED
  BY <1>1, HoldersInChain, RowOfType

LEMMA FullConvsType ==
    ASSUME NEW cr \in [Conv -> [topic : Topic \cup {None}, seq : Nat]], NEW m
    PROVE  FullConvs(cr, m) \in [Conv -> Topic \cup {NoTopic, None}]
<1> SUFFICES ASSUME NEW v \in Conv
             PROVE  FullConvs(cr, m)[v] \in Topic \cup {NoTopic, None}
  BY DEF FullConvs
<1>1. cr[v].topic \in Topic \cup {None}
  OBVIOUS
<1> QED
  BY <1>1 DEF FullConvs

LEMMA IndexType ==
    ASSUME NEW m \in [Key -> Row \cup {None}], NEW ks \in SUBSET Key
    PROVE  IndexOf(m, ks) \in SUBSET (Key \X Content)
  BY DEF IndexOf, Row

LEMMA AppliedType ==
    ASSUME TypeOK
    PROVE  /\ AppliedMessages \in [Key -> Row \cup {None}]
           /\ AppliedConvs \in [Conv -> Topic \cup {NoTopic, None}]
<1>1. ASSUME NEW k \in Key
      PROVE  Upserted(k) \in Row \cup {None}
  <2> DEFINE hs == Holders(Source, k) \cap Changed
  <2>1. messages[k] \in Row \cup {None}
    BY DEF TypeOK
  <2>2. CASE hs = {}
    BY <2>1, <2>2 DEF Upserted
  <2>3. CASE hs # {}
    <3>1. Source \in [Chain -> ChainRecord] /\ state.self \in BOOLEAN
      BY SnapshotType DEF TypeOK
    <3>2. hs \in SUBSET Chain /\ \A c \in hs : Source[c].entries[k] # None
      BY <3>1, HoldersInChain
    <3>3. Winner(Source, hs, k) \in hs
      <4> HIDE DEF hs
      <4> QED BY <2>3, <3>1, <3>2, WinnerIsHolder
    <3>4. RowOf(Source, Winner(Source, hs, k), k, state.self) \in Row
      <4> HIDE DEF hs
      <4> QED BY <3>1, <3>2, <3>3, RowOfType
    <3> QED
      BY <2>1, <2>3, <3>4 DEF Upserted
  <2> QED
    BY <2>2, <2>3
<1>2. AppliedMessages \in [Key -> Row \cup {None}]
  BY <1>1 DEF AppliedMessages
<1>3. AppliedConvs \in [Conv -> Topic \cup {NoTopic, None}]
  <2>1. FullConvs(convRec, AppliedMessages) \in [Conv -> Topic \cup {NoTopic, None}]
    BY FullConvsType DEF TypeOK
  <2> QED
    BY <2>1 DEF AppliedConvs
<1> QED
  BY <1>2, <1>3
LEMMA SeqsType ==
    ASSUME NEW r \in [Chain -> ChainRecord],
           NEW cr \in [Conv -> [topic : Topic \cup {None}, seq : Nat]],
           NEW o \in [value : Other, seq : Nat],
           NEW n \in Seqs(r, cr, o)
    PROVE  n \in Nat
  BY DEF Seqs, ChainRecord

LEMMA VoteType == ASSUME NEW r PROVE VoteSelf(r) \in BOOLEAN
  BY DEF VoteSelf

-----------------------------------------------------------------------------
(* Type correctness.                                                       *)

LEMMA InitType == Init => TypeOK
<1> SUFFICES ASSUME Init PROVE TypeOK
  OBVIOUS
<1>1. rec \in [Chain -> ChainRecord]
  BY AbsentType DEF Init
<1>2. /\ convRec \in [Conv -> [topic : Topic \cup {None}, seq : Nat]]
      /\ otherRec \in [value : Other, seq : Nat]
  BY DEF Init
<1>3. /\ messages \in [Key -> Row \cup {None}]
      /\ derived \in [Key -> Row \cup {None}]
      /\ convs \in [Conv -> Topic \cup {NoTopic, None}]
  BY DEF Init
<1>4. /\ target \in Target /\ writes \in Nat /\ served \in BOOLEAN
      /\ others \in Other \cup {None} /\ fts \in SUBSET (Key \X Content)
      /\ meta \in [lossy : BOOLEAN] /\ needFull \in BOOLEAN
      /\ state \in [maxSeq : Nat, self : BOOLEAN, target : Target]
      /\ taint \in SUBSET {"lossy", "shared", "torn", "elided"}
  BY DEF Init
<1> QED
  BY <1>1, <1>2, <1>3, <1>4 DEF TypeOK

LEMMA SourceStepType == TypeOK /\ SourceStep => TypeOK'
<1> SUFFICES ASSUME TypeOK, SourceStep PROVE TypeOK'
  OBVIOUS
<1> USE AbsentType DEF TypeOK, KeepStore, tables, Written, NextSeq
<1>1. ASSUME NEW c \in Chain, NEW e \in Entries, PutChain(c, e) PROVE TypeOK'
  BY <1>1 DEF PutChain, ChainRecord
<1>2. ASSUME NEW c \in Chain, DeleteChain(c) PROVE TypeOK'
  BY <1>2 DEF DeleteChain, ChainRecord
<1>3. ASSUME NEW c \in Chain, ElideTombstone(c) PROVE TypeOK'
  BY <1>3 DEF ElideTombstone
<1>4. ASSUME NEW v \in Conv, NEW t \in Topic \cup {None}, PutConv(v, t) PROVE TypeOK'
  BY <1>4 DEF PutConv
<1>5. ASSUME NEW o \in Other, PutOther(o) PROVE TypeOK'
  BY <1>5 DEF PutOther
<1>6. ASSUME NEW t \in Target, Migrate(t) PROVE TypeOK'
  BY <1>6 DEF Migrate
<1> QED
  BY <1>1, <1>2, <1>3, <1>4, <1>5, <1>6 DEF SourceStep

LEMMA FullStepType == TypeOK /\ FullStep => TypeOK'
<1> SUFFICES ASSUME TypeOK, FullStep PROVE TypeOK'
  OBVIOUS
<1>1. ASSUME NEW cs \in SUBSET Chain, NEW vs \in SUBSET Conv, NEW loss \in Loss,
             FullAdopt(cs, vs, loss)
      PROVE  TypeOK'
  <2> DEFINE r == WithoutChains(cs)
             cr == WithoutConvs(vs)
             built == FullMessages(r, VoteSelf(r))
  <2>1. /\ r \in [Chain -> ChainRecord]
        /\ cr \in [Conv -> [topic : Topic \cup {None}, seq : Nat]]
        /\ VoteSelf(r) \in BOOLEAN
    BY SnapshotType, VoteType
  <2>2. built \in [Key -> Row \cup {None}]
    <3> HIDE DEF r
    <3> QED BY <2>1, FullMessagesType
  <2>3. FullConvs(cr, built) \in [Conv -> Topic \cup {NoTopic, None}]
    <3> HIDE DEF cr, built
    <3> QED BY <2>1, FullConvsType
  <2>4. IndexOf(built, Key) \in SUBSET (Key \X Content)
    <3> HIDE DEF built
    <3> QED BY <2>2, IndexType
  <2>5. state' \in [maxSeq : Nat, self : BOOLEAN, target : Target]
    <3>1. PICK n \in Seqs(r, cr, otherRec) :
             state' = [maxSeq |-> n, self |-> VoteSelf(r), target |-> target]
      BY <1>1 DEF FullAdopt
    <3>2. n \in Nat
      <4> HIDE DEF r, cr
      <4> QED BY <2>1, <3>1, SeqsType DEF TypeOK
    <3> QED
      BY <2>1, <3>1, <3>2 DEF TypeOK
  <2>6. taint' \in SUBSET {"lossy", "shared", "torn", "elided"}
    BY <1>1 DEF FullAdopt, FullTaint
  <2>7. /\ messages' = built /\ derived' = built /\ fts' = IndexOf(built, Key)
        /\ convs' = FullConvs(cr, built) /\ others' = otherRec.value
        /\ meta' \in [lossy : BOOLEAN] /\ served' = TRUE /\ needFull' = FALSE
        /\ UNCHANGED sourceVars
    BY <1>1 DEF FullAdopt
  <2> HIDE DEF r, cr, built
  <2> QED
    BY <2>2, <2>3, <2>4, <2>5, <2>6, <2>7 DEF TypeOK, sourceVars
<1>2. ASSUME FullKept PROVE TypeOK'
  BY <1>2 DEF FullKept, TypeOK, sourceVars, tables
<1> QED
  BY <1>1, <1>2 DEF FullStep

LEMMA IncrementalStepType == TypeOK /\ IncrementalStep => TypeOK'
<1> SUFFICES ASSUME TypeOK, IncrementalStep PROVE TypeOK'
  OBVIOUS
<1>1. CASE TripFull
  BY <1>1 DEF TripFull, TypeOK, sourceVars, tables
<1>2. CASE NoOpExit
  BY <1>2 DEF NoOpExit, TypeOK, sourceVars, tables
<1>3. CASE ApplyRolledBack
  BY <1>3 DEF ApplyRolledBack, TypeOK, sourceVars, tables
<1>a. /\ AppliedMessages \in [Key -> Row \cup {None}]
      /\ FullConvs(convRec, AppliedMessages) \in [Conv -> Topic \cup {NoTopic, None}]
      /\ AppliedConvs \in [Conv -> Topic \cup {NoTopic, None}]
  BY AppliedType, FullConvsType DEF TypeOK
<1>b. RefreshedFts(AppliedMessages, FtsIds) \in SUBSET (Key \X Content)
  <2>1. IndexOf(AppliedMessages, {k \in Key : k[2] \in FtsIds}) \in SUBSET (Key \X Content)
    BY <1>a, IndexType
  <2> QED
    BY <2>1 DEF RefreshedFts, TypeOK
<1>4. CASE Apply
  <2>1. state' \in [maxSeq : Nat, self : BOOLEAN, target : Target]
    <3>1. PICK n \in Seqs(Source, convRec, otherRec) : state' = [state EXCEPT !.maxSeq = n]
      BY <1>4 DEF Apply
    <3>2. n \in Nat
      BY SnapshotType, SeqsType DEF TypeOK
    <3> QED
      BY <3>1, <3>2 DEF TypeOK
  <2> QED
    BY <1>4, <1>a, <1>b, <2>1 DEF Apply, Transaction, TypeOK, sourceVars
<1>5. CASE ApplyTorn
  BY <1>5, <1>a DEF ApplyTorn, Transaction, TypeOK, sourceVars
<1> QED
  BY <1>1, <1>2, <1>3, <1>4, <1>5 DEF IncrementalStep

LEMMA StepType == TypeOK /\ [Next]_vars => TypeOK'
<1>1. TypeOK /\ UNCHANGED vars => TypeOK'
  BY DEF TypeOK, vars
<1> QED
  BY <1>1, SourceStepType, FullStepType, IncrementalStepType DEF Next

\* Every variable of the store and of its source keeps its type.
THEOREM TypeCorrect == Spec => []TypeOK
  BY InitType, StepType, PTL DEF Spec

-----------------------------------------------------------------------------
(* The invariant holds initially and every step of the source keeps it: a  *)
(* write leaves its record above the watermark, where nothing is claimed.  *)

LEMMA InitInv == Init => IInv
<1> SUFFICES ASSUME Init PROVE IInv
  OBVIOUS
<1>1. TypeOK
  BY InitType
<1>2. SeqsBounded
  BY DEF Init, SeqsBounded, Absent
<1>3. OnlyPutsHold
  BY DEF Init, OnlyPutsHold, Absent, NoEntries
<1>4. served = FALSE
  BY DEF Init
<1> QED
  BY <1>1, <1>2, <1>3, <1>4 DEF IInv, MoveIsNewer, WatermarkCoversStore, GoneChainIsNoticed,
     ConvsFollow, OthersFollow, DerivedFollowsMessages

\* A fresh record above the watermark: the watermark is not the newest.
LEMMA FreshNotMax ==
    ASSUME NEW n \in Nat, NEW r, NEW cr, NEW o, NEW s \in Seqs(r, cr, o), s \in Nat, s > n
    PROVE  ~ IsMaxSeq(n, r, cr, o)
  BY DEF IsMaxSeq

\* A write to one chain.
LEMMA ChainWriteInv ==
    ASSUME IInv, TypeOK', NEW c \in Chain, NEW kind \in {"put", "tombstone"}, NEW e \in Entries,
           kind = "tombstone" => e = NoEntries,
           rec' = [rec EXCEPT ![c] = [kind |-> kind, seq |-> NextSeq, entries |-> e]],
           Written, UNCHANGED <<convRec, otherRec, target, taint>>, KeepStore
    PROVE  IInv'
<1> USE DEF KeepStore, tables, Written, NextSeq
<1>0. TypeOK /\ SeqsBounded
  BY DEF IInv
<1>1. /\ rec'[c].seq = writes + 1 /\ rec'[c].kind = kind /\ rec'[c].entries = e
      /\ \A d \in Chain : d # c => rec'[d] = rec[d]
      /\ DOMAIN rec' = Chain
  BY <1>0 DEF TypeOK
<1>2. SeqsBounded'
  <2>1. \A d \in Chain : rec[d].seq \in Nat /\ rec[d].seq <= writes
    BY <1>0 DEF TypeOK, SeqsBounded, ChainRecord
  <2>2. \A v \in Conv : convRec[v].seq \in Nat /\ convRec[v].seq <= writes
    BY <1>0 DEF TypeOK, SeqsBounded
  <2>3. \A d \in Chain : rec'[d].seq <= writes'
    <3> TAKE d \in Chain
    <3>1. CASE d = c BY <3>1, <1>0, <1>1 DEF TypeOK
    <3>2. CASE d # c BY <3>2, <2>1, <1>0, <1>1 DEF TypeOK
    <3> QED BY <3>1, <3>2
  <2> QED
    BY <2>2, <2>3, <1>0 DEF TypeOK, SeqsBounded
<1>3. OnlyPutsHold'
  BY <1>1 DEF IInv, OnlyPutsHold, NoEntries
<1>4. WatermarkCoversStore'
  <2>1. state.maxSeq \in Nat /\ writes \in Nat /\ state.maxSeq <= writes
    BY <1>0 DEF TypeOK, SeqsBounded
  <2>2. ~ (rec'[c].seq <= state'.maxSeq)
    BY <1>1, <2>1
  <2> QED
    BY <1>1, <2>2 DEF IInv, WatermarkCoversStore, RowOf
<1>5. GoneChainIsNoticed'
  <2>1. state.maxSeq \in Nat /\ writes \in Nat /\ state.maxSeq <= writes
    BY <1>0 DEF TypeOK, SeqsBounded
  <2>2. rec'[c].seq \in Seqs(rec', convRec', otherRec')
    BY <1>1 DEF Seqs
  <2>3. ~ IsMaxSeq(state'.maxSeq, rec', convRec', otherRec')
    BY <1>1, <2>1, <2>2, FreshNotMax
  <2> QED
    BY <2>3 DEF GoneChainIsNoticed
<1>6. MoveIsNewer' /\ ConvsFollow' /\ OthersFollow' /\ DerivedFollowsMessages'
  BY DEF IInv, MoveIsNewer, ConvsFollow, OthersFollow, DerivedFollowsMessages, FullConvs, HasMessages
<1> QED
  BY <1>2, <1>3, <1>4, <1>5, <1>6 DEF IInv

\* A write outside the reply chains.
LEMMA OtherWriteInv ==
    ASSUME IInv, TypeOK', Written, UNCHANGED <<rec, target, taint>>, KeepStore,
           \/ /\ UNCHANGED otherRec
              /\ \E v \in Conv, t \in Topic \cup {None} :
                    convRec' = [convRec EXCEPT ![v] = [topic |-> t, seq |-> NextSeq]]
           \/ UNCHANGED convRec /\ otherRec'.seq = NextSeq
    PROVE  IInv'
<1> USE DEF KeepStore, tables, Written, NextSeq
<1>0. /\ TypeOK /\ SeqsBounded
      /\ state.maxSeq \in Nat /\ writes \in Nat /\ state.maxSeq <= writes
  BY DEF IInv, TypeOK, SeqsBounded
<1>1. SeqsBounded'
  <2>1. \A d \in Chain : rec[d].seq \in Nat /\ rec[d].seq <= writes
    BY <1>0 DEF TypeOK, SeqsBounded, ChainRecord
  <2>2. \A v \in Conv : convRec'[v].seq <= writes + 1
    BY <1>0 DEF TypeOK, SeqsBounded
  <2>3. otherRec'.seq <= writes + 1
    BY <1>0 DEF TypeOK, SeqsBounded
  <2> QED
    BY <2>1, <2>2, <2>3, <1>0 DEF SeqsBounded
<1>2. OnlyPutsHold' /\ WatermarkCoversStore' /\ DerivedFollowsMessages'
  BY DEF IInv, OnlyPutsHold, WatermarkCoversStore, DerivedFollowsMessages, RowOf
<1>3. GoneChainIsNoticed'
  <2>1. \E s \in Seqs(rec', convRec', otherRec') : s = writes + 1
    BY <1>0 DEF Seqs, TypeOK
  <2>2. ~ IsMaxSeq(state'.maxSeq, rec', convRec', otherRec')
    BY <1>0, <2>1, FreshNotMax
  <2> QED
    BY <2>2 DEF GoneChainIsNoticed
<1>4. MoveIsNewer' /\ OthersFollow'
  BY <1>0 DEF IInv, MoveIsNewer, OthersFollow
<1>5. ConvsFollow'
  <2> SUFFICES ASSUME served, taint \cap {"lossy", "torn"} = {},
                      NEW v \in Conv, convRec'[v].seq <= state.maxSeq
               PROVE  \/ convs[v] = FullConvs(convRec', messages)[v]
                      \/ needFull /\ convs[v] = None /\ convRec'[v].topic = None
    BY DEF ConvsFollow
  <2>1. convRec'[v] = convRec[v]
    BY <1>0 DEF TypeOK
  <2>2. \/ convs[v] = FullConvs(convRec, messages)[v]
        \/ needFull /\ convs[v] = None /\ convRec[v].topic = None
    BY <2>1 DEF IInv, ConvsFollow
  <2> QED
    BY <2>1, <2>2 DEF FullConvs
<1> QED
  BY <1>1, <1>2, <1>3, <1>4, <1>5 DEF IInv

LEMMA MigrateInv ==
    ASSUME IInv, TypeOK', NEW t \in Target, Migrate(t)
    PROVE  IInv'
<1> USE DEF Migrate, KeepStore, tables, Written, NextSeq
<1>0. /\ TypeOK /\ SeqsBounded
      /\ state.maxSeq \in Nat /\ writes \in Nat /\ state.maxSeq <= writes
      /\ \A d \in Chain : rec'[d] = Absent
      /\ otherRec'.seq = writes + 1
  BY DEF IInv, TypeOK, SeqsBounded
<1>1. SeqsBounded'
  <2>1. \A v \in Conv : convRec[v].seq <= writes + 1
    BY <1>0 DEF TypeOK, SeqsBounded
  <2> QED
    BY <1>0, <2>1 DEF SeqsBounded, Absent
<1>2. OnlyPutsHold' /\ WatermarkCoversStore'
  BY <1>0 DEF OnlyPutsHold, WatermarkCoversStore, Absent, NoEntries
<1>3. GoneChainIsNoticed'
  <2>1. otherRec'.seq \in Seqs(rec', convRec', otherRec')
    BY DEF Seqs
  <2>2. ~ IsMaxSeq(state'.maxSeq, rec', convRec', otherRec')
    BY <1>0, <2>1, FreshNotMax
  <2> QED
    BY <2>2 DEF GoneChainIsNoticed
<1>4. MoveIsNewer' /\ OthersFollow'
  BY <1>0 DEF MoveIsNewer, OthersFollow
<1>5. ConvsFollow' /\ DerivedFollowsMessages'
  BY DEF IInv, ConvsFollow, DerivedFollowsMessages, FullConvs, HasMessages
<1> QED
  BY <1>1, <1>2, <1>3, <1>4, <1>5 DEF IInv

\* A compaction: if the store had seen the deletion it holds no row of the
\* chain, and if it had not, "elided" says so.
LEMMA ElideInv ==
    ASSUME IInv, TypeOK', NEW c \in Chain, ElideTombstone(c)
    PROVE  IInv'
<1> USE DEF KeepStore, tables
<1>0. /\ TypeOK
      /\ rec[c].kind = "tombstone" /\ rec' = [rec EXCEPT ![c] = Absent]
      /\ UNCHANGED <<convRec, otherRec, target, writes, served, messages, convs, others,
                     derived, fts, meta, state, needFull>>
      /\ \A x \in {"lossy", "shared", "torn"} : x \in taint' <=> x \in taint
      /\ "elided" \in taint => "elided" \in taint'
  BY DEF IInv, ElideTombstone
<1>1. /\ rec'[c] = Absent /\ DOMAIN rec' = Chain /\ DOMAIN rec = Chain
      /\ \A d \in Chain : d # c => rec'[d] = rec[d]
  BY <1>0 DEF TypeOK
<1>2. SeqsBounded'
  BY <1>0, <1>1 DEF IInv, SeqsBounded, TypeOK, Absent
<1>3. OnlyPutsHold'
  BY <1>1 DEF IInv, OnlyPutsHold, Absent, NoEntries
<1>4. WatermarkCoversStore'
  BY <1>0, <1>1 DEF IInv, WatermarkCoversStore, RowOf, Absent
<1>5. GoneChainIsNoticed'
  <2> SUFFICES ASSUME served, target = state.target,
                      taint' \cap {"lossy", "shared", "elided"} = {},
                      IsMaxSeq(state.maxSeq, rec', convRec, otherRec),
                      NEW k \in Key, messages[k] # None
               PROVE  rec'[messages[k].chain].kind # "absent"
    BY <1>0 DEF GoneChainIsNoticed
  <2>0. /\ state.maxSeq \in Nat /\ rec[c].seq \in Nat
        /\ messages[k].chain \in Chain
    BY <1>0 DEF TypeOK, ChainRecord, Row
  <2>1. rec[c].seq <= state.maxSeq
    <3>1. ~(rec[c].seq > state.maxSeq)
      <4>1. taint' = IF /\ served /\ rec[c].seq > state.maxSeq
                        /\ IsMaxSeq(state.maxSeq, rec', convRec, otherRec)
                     THEN taint \cup {"elided"} ELSE taint
        BY DEF ElideTombstone
      <4> QED
        BY <4>1
    <3> QED
      BY <2>0, <3>1
  <2>2. IsMaxSeq(state.maxSeq, rec, convRec, otherRec)
    <3>1. state.maxSeq \in Seqs(rec, convRec, otherRec)
      BY <1>1 DEF IsMaxSeq, Seqs, Absent
    <3>2. \A s \in Seqs(rec, convRec, otherRec) : s <= state.maxSeq
      BY <1>1, <2>1 DEF IsMaxSeq, Seqs
    <3> QED
      BY <3>1, <3>2 DEF IsMaxSeq
  <2>3. rec[messages[k].chain].kind # "absent"
    BY <1>0, <2>2 DEF IInv, GoneChainIsNoticed
  <2>4. messages[k].chain # c
    <3>1. rec[c].entries[k] = None
      BY <1>0 DEF IInv, OnlyPutsHold
    <3> QED
      BY <1>0, <2>1, <3>1 DEF IInv, WatermarkCoversStore
  <2> QED
    BY <1>1, <2>0, <2>3, <2>4
<1>6. MoveIsNewer' /\ ConvsFollow' /\ OthersFollow' /\ DerivedFollowsMessages'
  BY <1>0 DEF IInv, MoveIsNewer, ConvsFollow, OthersFollow, DerivedFollowsMessages,
     FullConvs, HasMessages
<1> QED
  BY <1>2, <1>3, <1>4, <1>5, <1>6 DEF IInv

LEMMA SourceStepInv == IInv /\ SourceStep => IInv'
<1> SUFFICES ASSUME IInv, SourceStep PROVE IInv'
  OBVIOUS
<1>0. TypeOK'
  BY SourceStepType DEF IInv
<1>1. ASSUME NEW c \in Chain, NEW e \in Entries, PutChain(c, e) PROVE IInv'
  BY <1>0, <1>1, ChainWriteInv DEF PutChain
<1>2. ASSUME NEW c \in Chain, DeleteChain(c) PROVE IInv'
  <2>1. NoEntries \in Entries
    BY AbsentType
  <2> QED
    BY <1>0, <1>2, <2>1, ChainWriteInv DEF DeleteChain
<1>3. ASSUME NEW c \in Chain, ElideTombstone(c) PROVE IInv'
  BY <1>0, <1>3, ElideInv
<1>4. ASSUME NEW v \in Conv, NEW t \in Topic \cup {None}, PutConv(v, t) PROVE IInv'
  BY <1>0, <1>4, OtherWriteInv DEF PutConv
<1>5. ASSUME NEW o \in Other, PutOther(o) PROVE IInv'
  BY <1>0, <1>5, OtherWriteInv DEF PutOther
<1>6. ASSUME NEW t \in Target, Migrate(t) PROVE IInv'
  BY <1>0, <1>6, MigrateInv
<1> QED
  BY <1>1, <1>2, <1>3, <1>4, <1>5, <1>6 DEF SourceStep

-----------------------------------------------------------------------------
(* A full build restores every part; one that is not adopted forgets the   *)
(* demand for itself, and "torn" remembers what that leaves.               *)

\* Where one chain lists a message, it is that message's winner.
LEMMA OnlyHolderWins ==
    ASSUME NEW r \in [Chain -> ChainRecord], OneChainPerMessage(r), NEW k \in Key,
           NEW c \in Chain, r[c].entries[k] # None
    PROVE  Holders(r, k) = {c} /\ Winner(r, Holders(r, k), k) = c
<1>1. c \in Holders(r, k)
  BY HoldersInChain
<1>2. Holders(r, k) = {c}
  BY <1>1 DEF OneChainPerMessage
<1>3. Winner(r, Holders(r, k), k) \in Holders(r, k)
  BY <1>1, HoldersInChain, WinnerIsHolder
<1> QED
  BY <1>2, <1>3

LEMMA FullAdoptInv ==
    ASSUME IInv, TypeOK', NEW cs \in SUBSET Chain, NEW vs \in SUBSET Conv,
           NEW loss \in Loss, FullAdopt(cs, vs, loss)
    PROVE  IInv'
<1> DEFINE r == WithoutChains(cs)
           cr == WithoutConvs(vs)
           built == FullMessages(r, VoteSelf(r))
<1>0. TypeOK /\ SeqsBounded /\ OnlyPutsHold
  BY DEF IInv
<1>1. /\ messages' = built /\ derived' = built /\ fts' = IndexOf(built, Key)
      /\ convs' = FullConvs(cr, built) /\ others' = otherRec.value
      /\ served' = TRUE /\ needFull' = FALSE
      /\ UNCHANGED <<rec, convRec, otherRec, target, writes>>
      /\ taint' = FullTaint(r, loss)
  BY DEF FullAdopt, sourceVars
<1>2. PICK n \in Seqs(r, cr, otherRec) :
         /\ IsMaxSeq(n, r, cr, otherRec)
         /\ state' = [maxSeq |-> n, self |-> VoteSelf(r), target |-> target]
  BY DEF FullAdopt
<1>3. "lossy" \notin taint' => r = rec /\ cr = convRec
  <2> SUFFICES ASSUME "lossy" \notin taint' PROVE r = rec /\ cr = convRec
    OBVIOUS
  <2>1. cs = {} /\ vs = {}
    BY <1>1 DEF FullAdopt, FullTaint
  <2> QED
    BY <1>0, <2>1 DEF TypeOK, WithoutChains, WithoutConvs
<1>4. "shared" \notin taint' => OneChainPerMessage(r)
  BY <1>1 DEF FullTaint
<1>5. SeqsBounded'
  <2>1. n <= writes
    <3>1. DOMAIN r = Chain /\ \A c \in Chain : r[c].seq <= writes
      BY <1>0 DEF TypeOK, SeqsBounded, WithoutChains, Absent
    <3>2. DOMAIN cr = Conv /\ \A v \in Conv : cr[v].seq <= writes
      BY <1>0 DEF TypeOK, SeqsBounded, WithoutConvs
    <3>3. otherRec.seq <= writes /\ 0 <= writes
      BY <1>0 DEF TypeOK, SeqsBounded
    <3> HIDE DEF r, cr
    <3> QED
      BY <3>1, <3>2, <3>3 DEF Seqs
  <2> QED
    BY <1>0, <1>1, <1>2, <2>1 DEF SeqsBounded
<1>6. OnlyPutsHold'
  BY <1>0, <1>1 DEF OnlyPutsHold
<1>7. ASSUME taint' \cap {"lossy", "shared"} = {}, NEW c \in Chain, NEW k \in Key
      PROVE  /\ rec[c].entries[k] # None => messages'[k] = RowOf(rec, c, k, state'.self)
             /\ (messages'[k] # None /\ messages'[k].chain = c) => rec[c].entries[k] # None
  <2>0. /\ r = rec /\ OneChainPerMessage(rec) /\ rec \in [Chain -> ChainRecord]
        /\ messages' = FullMessages(rec, state'.self)
    BY <1>0, <1>1, <1>2, <1>3, <1>4, <1>7 DEF TypeOK
  <2> HIDE DEF r, cr, built
  <2>1. rec[c].entries[k] # None => messages'[k] = RowOf(rec, c, k, state'.self)
    BY <2>0, OnlyHolderWins DEF FullMessages
  <2>2. (messages'[k] # None /\ messages'[k].chain = c) => rec[c].entries[k] # None
    <3> SUFFICES ASSUME messages'[k] # None, messages'[k].chain = c
                 PROVE  rec[c].entries[k] # None
      OBVIOUS
    <3>1. /\ Holders(rec, k) # {}
          /\ messages'[k] = RowOf(rec, Winner(rec, Holders(rec, k), k), k, state'.self)
      BY <2>0 DEF FullMessages
    <3>2. Winner(rec, Holders(rec, k), k) \in Holders(rec, k)
      BY <2>0, <3>1, HoldersInChain, WinnerIsHolder
    <3>3. Winner(rec, Holders(rec, k), k) = c
      BY <3>1 DEF RowOf
    <3> QED
      BY <2>0, <3>2, <3>3, HoldersInChain
  <2> QED
    BY <2>1, <2>2
<1>8. WatermarkCoversStore'
  BY <1>1, <1>7 DEF WatermarkCoversStore, RowOf
<1>9. GoneChainIsNoticed'
  <2> SUFFICES ASSUME taint' \cap {"lossy", "shared"} = {},
                      NEW k \in Key, messages'[k] # None
               PROVE  rec[messages'[k].chain].kind # "absent"
    BY <1>1 DEF GoneChainIsNoticed
  <2>1. messages'[k].chain \in Chain
    BY DEF TypeOK, Row
  <2>2. rec[messages'[k].chain].entries[k] # None
    BY <1>7, <2>1
  <2> QED
    BY <1>0, <2>1, <2>2 DEF OnlyPutsHold
<1>10. ConvsFollow'
  BY <1>1, <1>3 DEF ConvsFollow
<1>11. MoveIsNewer' /\ OthersFollow' /\ DerivedFollowsMessages'
  BY <1>1, <1>2 DEF MoveIsNewer, OthersFollow, DerivedFollowsMessages
<1> QED
  BY <1>5, <1>6, <1>8, <1>9, <1>10, <1>11 DEF IInv

LEMMA FullKeptInv == ASSUME IInv, TypeOK', FullKept PROVE IInv'
<1> USE DEF FullKept, sourceVars, tables
<1>1. SeqsBounded' /\ OnlyPutsHold' /\ MoveIsNewer' /\ OthersFollow'
  BY DEF IInv, SeqsBounded, OnlyPutsHold, MoveIsNewer, OthersFollow
<1>2. \A x \in {"lossy", "shared", "elided"} : x \in taint' <=> x \in taint
  OBVIOUS
<1>3. WatermarkCoversStore' /\ GoneChainIsNoticed'
  BY <1>2 DEF IInv, WatermarkCoversStore, GoneChainIsNoticed, RowOf, IsMaxSeq, Seqs
<1>4. "torn" \notin taint' => ~Torn /\ "torn" \notin taint
  OBVIOUS
<1>5. DerivedFollowsMessages'
  BY <1>4 DEF Torn, DerivedFollowsMessages, IndexOf
<1>6. ConvsFollow'
  <2> SUFFICES ASSUME served, taint' \cap {"lossy", "torn"} = {},
                      NEW v \in Conv, convRec[v].seq <= state.maxSeq
               PROVE  convs[v] = FullConvs(convRec, messages)[v]
    BY DEF ConvsFollow, FullConvs, HasMessages
  <2>1. ~Torn /\ taint \cap {"lossy", "torn"} = {}
    BY <1>2, <1>4
  <2>2. \/ convs[v] = FullConvs(convRec, messages)[v]
        \/ convs[v] = None /\ convRec[v].topic = None
    BY <2>1 DEF IInv, ConvsFollow
  <2>3. convs[v] = None => ~HasMessages(messages, v)
    BY <2>1 DEF Torn
  <2> QED
    BY <2>2, <2>3 DEF FullConvs
<1> QED
  BY <1>1, <1>3, <1>5, <1>6 DEF IInv

LEMMA FullStepInv == IInv /\ FullStep => IInv'
<1> SUFFICES ASSUME IInv, FullStep PROVE IInv'
  OBVIOUS
<1>0. TypeOK'
  BY FullStepType DEF IInv
<1>1. ASSUME NEW cs \in SUBSET Chain, NEW vs \in SUBSET Conv, NEW loss \in Loss,
             FullAdopt(cs, vs, loss)
      PROVE  IInv'
  BY <1>0, <1>1, FullAdoptInv
<1>2. ASSUME FullKept PROVE IInv'
  BY <1>0, <1>2, FullKeptInv
<1> QED
  BY <1>1, <1>2 DEF FullStep

-----------------------------------------------------------------------------
(* The incremental apply.                                                  *)

\* Every row the transaction leaves stands for an entry the source holds:
\* a survivor by the watermark, a new row by the chain it was read from.
LEMMA AppliedRows ==
    ASSUME IInv, served, ~SchemaMoved, taint \cap {"lossy", "shared"} = {},
           NEW k \in Key, AppliedMessages[k] # None
    PROVE  /\ AppliedMessages[k].chain \in Chain
           /\ rec[AppliedMessages[k].chain].entries[k] # None
<1> DEFINE hs == Holders(Source, k) \cap Changed
           new == RowOf(Source, Winner(Source, hs, k), k, state.self)
<1>0. /\ TypeOK /\ Source = rec /\ rec \in [Chain -> ChainRecord] /\ target = state.target
  BY DEF IInv, TypeOK, Source, SchemaMoved
<1>1. AppliedMessages[k] = Upserted(k)
  BY DEF AppliedMessages
<1>2. CASE AppliedMessages[k] = messages[k] /\ Survives(k)
  <2>1. /\ messages[k] # None /\ messages[k].chain \in Chain
        /\ rec[messages[k].chain].kind = "put" /\ ~(rec[messages[k].chain].seq > state.maxSeq)
    BY <1>0, <1>2 DEF Survives, Live, Changed
  <2>2. rec[messages[k].chain].seq <= state.maxSeq
    BY <1>0, <2>1 DEF TypeOK, ChainRecord
  <2> QED
    BY <1>0, <1>2, <2>1, <2>2 DEF IInv, WatermarkCoversStore
<1>3. CASE hs # {} /\ AppliedMessages[k] = new
  <2>1. hs \in SUBSET Chain /\ \A c \in hs : rec[c].entries[k] # None
    BY <1>0, HoldersInChain
  <2>2. Winner(rec, hs, k) \in hs
    <3> HIDE DEF hs
    <3> QED BY <1>0, <1>3, <2>1, WinnerIsHolder
  <2> QED
    BY <1>0, <1>3, <2>1, <2>2 DEF RowOf
<1>4. \/ AppliedMessages[k] = messages[k] /\ Survives(k)
      \/ hs # {} /\ AppliedMessages[k] = new
  BY <1>1 DEF Upserted
<1> QED
  BY <1>2, <1>3, <1>4

\* Every entry of the source ends up in the store as the source has it.
LEMMA AppliedCovers ==
    ASSUME IInv, served, ~SchemaMoved, taint \cap {"lossy", "shared"} = {},
           OneChainPerMessage(rec), NEW c \in Chain, NEW k \in Key, rec[c].entries[k] # None
    PROVE  AppliedMessages[k] = RowOf(rec, c, k, state.self)
<1> DEFINE hs == Holders(rec, k) \cap Changed
<1>0. /\ TypeOK /\ Source = rec /\ rec \in [Chain -> ChainRecord] /\ target = state.target
      /\ AppliedMessages[k] = Upserted(k)
      /\ state.maxSeq \in Nat /\ \A d \in Chain : rec[d].seq \in Nat
  BY DEF IInv, TypeOK, Source, SchemaMoved, AppliedMessages, ChainRecord
<1>1. Holders(rec, k) = {c}
  BY <1>0, OnlyHolderWins
<1>2. c \in Live
  BY <1>0 DEF IInv, OnlyPutsHold, Live
<1>3. ASSUME Survives(k)
      PROVE  messages[k].chain = c /\ c \notin Changed
  <2>1. /\ messages[k] # None /\ messages[k].chain \in Live \ Changed
        /\ messages[k].chain \in Chain
    BY <1>3 DEF Survives, Live
  <2>2. rec[messages[k].chain].kind # "absent" /\ rec[messages[k].chain].seq <= state.maxSeq
    BY <1>0, <2>1 DEF Live, Changed
  <2>3. rec[messages[k].chain].entries[k] # None
    BY <1>0, <2>1, <2>2 DEF IInv, WatermarkCoversStore
  <2>4. messages[k].chain \in Holders(rec, k)
    BY <1>0, <2>1, <2>3, HoldersInChain
  <2> QED
    BY <1>1, <2>1, <2>4
<1>4. CASE c \in Changed
  <2>1. hs = {c}
    BY <1>1, <1>4
  <2>2. Winner(rec, hs, k) = c
    <3>1. Winner(rec, hs, k) \in hs
      BY <1>0, <2>1, WinnerIsHolder
    <3> QED
      BY <2>1, <3>1
  <2>3. ~Survives(k)
    BY <1>3, <1>4
  <2> QED
    BY <1>0, <2>1, <2>2, <2>3 DEF Upserted
<1>5. CASE c \notin Changed
  <2>1. hs = {} /\ rec[c].seq <= state.maxSeq /\ rec[c].kind # "absent"
    BY <1>0, <1>1, <1>2, <1>5 DEF Changed, Live
  <2>2. messages[k] = RowOf(rec, c, k, state.self)
    BY <1>0, <2>1 DEF IInv, WatermarkCoversStore
  <2>3. messages[k] # None /\ messages[k].chain = c
    BY <1>0, <2>2, RowOfType DEF TypeOK
  <2>4. Survives(k)
    BY <1>2, <1>5, <2>3 DEF Survives
  <2> QED
    BY <1>0, <2>1, <2>2, <2>4 DEF Upserted
<1> QED
  BY <1>4, <1>5

\* Refreshing the index for the deleted and upserted ids is enough: a message
\* of any other id is the row it was.
LEMMA DeltaIsEnough ==
    ASSUME TypeOK, fts = IndexOf(messages, Key)
    PROVE  RefreshedFts(AppliedMessages, FtsIds) = IndexOf(AppliedMessages, Key)
<1>1. ASSUME NEW k \in Key, k[2] \notin FtsIds
      PROVE  AppliedMessages[k] = messages[k]
  <2>1. Holders(Source, k) \cap Changed = {}
    BY <1>1 DEF FtsIds, AppliedIds
  <2>2. messages[k] = None \/ Survives(k)
    BY <1>1 DEF FtsIds, DeletedIds
  <2> QED
    BY <2>1, <2>2 DEF AppliedMessages, Upserted, Survives
<1> DEFINE hit == {k \in Key : k[2] \in FtsIds}
<1>2. {f \in fts : f[1][2] \notin FtsIds} = IndexOf(AppliedMessages, Key \ hit)
  <2>1. {f \in fts : f[1][2] \notin FtsIds} = IndexOf(messages, Key \ hit)
    BY DEF IndexOf
  <2>2. IndexOf(messages, Key \ hit) = IndexOf(AppliedMessages, Key \ hit)
    BY <1>1 DEF IndexOf
  <2> QED
    BY <2>1, <2>2
<1>3. IndexOf(AppliedMessages, Key \ hit) \cup IndexOf(AppliedMessages, hit)
        = IndexOf(AppliedMessages, Key)
  BY DEF IndexOf
<1> QED
  BY <1>2, <1>3 DEF RefreshedFts

\* What the transaction and the message rows alone re-establish, for a step
\* that moves the watermark to n or leaves it.
LEMMA TransactionInv ==
    ASSUME IInv, TypeOK', served, ~SchemaMoved, Transaction,
           UNCHANGED <<rec, convRec, otherRec, target, writes, served>>,
           taint' \cap {"lossy", "shared"} = {} =>
               taint \cap {"lossy", "shared"} = {} /\ OneChainPerMessage(rec),
           NEW n \in Nat, n <= writes, state' = [state EXCEPT !.maxSeq = n]
    PROVE  /\ SeqsBounded' /\ OnlyPutsHold' /\ MoveIsNewer'
           /\ WatermarkCoversStore' /\ GoneChainIsNoticed' /\ OthersFollow'
<1>0. /\ TypeOK /\ messages' = AppliedMessages /\ others' = otherRec.value
      /\ state'.maxSeq = n /\ state'.self = state.self /\ state'.target = target
  BY DEF IInv, TypeOK, Transaction, SchemaMoved
<1>1. SeqsBounded' /\ OnlyPutsHold' /\ MoveIsNewer' /\ OthersFollow'
  BY <1>0 DEF IInv, SeqsBounded, OnlyPutsHold, MoveIsNewer, OthersFollow
<1>2. ASSUME taint' \cap {"lossy", "shared"} = {}, NEW c \in Chain, NEW k \in Key
      PROVE  /\ rec[c].entries[k] # None => messages'[k] = RowOf(rec, c, k, state.self)
             /\ (messages'[k] # None /\ messages'[k].chain = c) => rec[c].entries[k] # None
  BY <1>0, <1>2, AppliedRows, AppliedCovers
<1>3. WatermarkCoversStore'
  BY <1>0, <1>2 DEF WatermarkCoversStore, RowOf
<1>4. GoneChainIsNoticed'
  <2> SUFFICES ASSUME taint' \cap {"lossy", "shared"} = {},
                      NEW k \in Key, messages'[k] # None
               PROVE  rec[messages'[k].chain].kind # "absent"
    BY DEF GoneChainIsNoticed
  <2>1. messages'[k].chain \in Chain /\ rec[messages'[k].chain].entries[k] # None
    BY <1>0, AppliedRows
  <2> QED
    BY <2>1 DEF IInv, OnlyPutsHold
<1> QED
  BY <1>1, <1>3, <1>4

LEMMA ApplyInv == ASSUME IInv, TypeOK', Apply PROVE IInv'
<1>0. /\ TypeOK /\ served /\ ~needFull /\ ~SchemaMoved /\ Transaction
      /\ convs' = FullConvs(convRec, AppliedMessages) /\ derived' = AppliedMessages
      /\ fts' = RefreshedFts(AppliedMessages, FtsIds)
      /\ UNCHANGED <<rec, convRec, otherRec, target, writes, served, needFull>>
  BY DEF IInv, Apply, CanRefresh, sourceVars
<1>1. /\ messages' = AppliedMessages
      /\ taint' = (taint \ {"elided"}) \cup (IF OneChainPerMessage(rec) THEN {} ELSE {"shared"})
  BY DEF Apply, Transaction
<1>2. PICK n \in Seqs(Source, convRec, otherRec) : state' = [state EXCEPT !.maxSeq = n]
  BY DEF Apply
<1>3. n \in Nat /\ n <= writes
  <2>1. Source = rec
    BY <1>0 DEF Source, SchemaMoved
  <2>2. n \in Seqs(rec, convRec, otherRec)
    BY <2>1
  <2>3. /\ \A c \in Chain : rec[c].seq \in Nat /\ rec[c].seq <= writes
        /\ \A v \in Conv : convRec[v].seq \in Nat /\ convRec[v].seq <= writes
        /\ otherRec.seq \in Nat /\ otherRec.seq <= writes
        /\ writes \in Nat /\ DOMAIN rec = Chain /\ DOMAIN convRec = Conv
    BY <1>0 DEF IInv, TypeOK, SeqsBounded, ChainRecord
  <2> QED
    BY <2>2, <2>3 DEF Seqs
<1>4. taint' \cap {"lossy", "shared"} = {} =>
         taint \cap {"lossy", "shared"} = {} /\ OneChainPerMessage(rec)
  BY <1>1
<1>5. /\ SeqsBounded' /\ OnlyPutsHold' /\ MoveIsNewer'
      /\ WatermarkCoversStore' /\ GoneChainIsNoticed' /\ OthersFollow'
  BY <1>0, <1>2, <1>3, <1>4, TransactionInv
<1>6. ConvsFollow'
  BY <1>0, <1>1 DEF ConvsFollow
<1>7. DerivedFollowsMessages'
  <2> SUFFICES ASSUME "torn" \notin taint'
               PROVE  fts' = IndexOf(AppliedMessages, Key)
    BY <1>0, <1>1 DEF DerivedFollowsMessages
  <2>1. fts = IndexOf(messages, Key)
    BY <1>0, <1>1 DEF IInv, DerivedFollowsMessages
  <2> QED
    BY <1>0, <2>1, DeltaIsEnough
<1> QED
  BY <1>5, <1>6, <1>7 DEF IInv

LEMMA ApplyTornInv == ASSUME IInv, TypeOK', ApplyTorn PROVE IInv'
<1>0. /\ TypeOK /\ served /\ ~SchemaMoved /\ Transaction /\ needFull' = TRUE
      /\ convs' \in {AppliedConvs, FullConvs(convRec, AppliedMessages)}
      /\ UNCHANGED <<rec, convRec, otherRec, target, writes, served, state>>
  BY DEF IInv, ApplyTorn, CanRefresh, sourceVars
<1>1. taint' \cap {"lossy", "shared"} = {} =>
         taint \cap {"lossy", "shared"} = {} /\ OneChainPerMessage(rec)
  BY DEF ApplyTorn
<1>2. /\ SeqsBounded' /\ OnlyPutsHold' /\ MoveIsNewer'
      /\ WatermarkCoversStore' /\ GoneChainIsNoticed' /\ OthersFollow'
  <2>1. /\ state.maxSeq \in Nat /\ state.maxSeq <= writes
        /\ state' = [state EXCEPT !.maxSeq = state.maxSeq]
    BY <1>0 DEF IInv, TypeOK, SeqsBounded
  <2> QED
    BY <1>0, <1>1, <2>1, TransactionInv
<1>3. ConvsFollow'
  <2> SUFFICES ASSUME NEW v \in Conv
               PROVE  \/ convs'[v] = FullConvs(convRec, AppliedMessages)[v]
                      \/ convs'[v] = None /\ convRec[v].topic = None
    BY <1>0 DEF ConvsFollow, Transaction
  <2> QED
    BY <1>0 DEF AppliedConvs
<1>4. DerivedFollowsMessages'
  BY <1>0 DEF DerivedFollowsMessages
<1> QED
  BY <1>2, <1>3, <1>4 DEF IInv

\* Steps that change nothing but the flags needFull and meta, or nothing at all.
LEMMA QuietStepInv ==
    ASSUME IInv, TypeOK', UNCHANGED <<sourceVars, served, tables, state, taint>>,
           needFull' \in {needFull, TRUE}
    PROVE  IInv'
<1> USE DEF sourceVars, tables
<1>1. SeqsBounded' /\ OnlyPutsHold' /\ MoveIsNewer' /\ OthersFollow'
  BY DEF IInv, SeqsBounded, OnlyPutsHold, MoveIsNewer, OthersFollow
<1>2. WatermarkCoversStore' /\ GoneChainIsNoticed'
  BY DEF IInv, WatermarkCoversStore, GoneChainIsNoticed, RowOf, IsMaxSeq, Seqs
<1>3. DerivedFollowsMessages'
  BY DEF IInv, DerivedFollowsMessages, IndexOf
<1>4. ConvsFollow'
  <2> SUFFICES ASSUME served, taint \cap {"lossy", "torn"} = {},
                      NEW v \in Conv, convRec[v].seq <= state.maxSeq
               PROVE  \/ convs[v] = FullConvs(convRec, messages)[v]
                      \/ needFull' /\ convs[v] = None /\ convRec[v].topic = None
    BY DEF ConvsFollow
  <2>1. \/ convs[v] = FullConvs(convRec, messages)[v]
        \/ needFull /\ convs[v] = None /\ convRec[v].topic = None
    BY DEF IInv, ConvsFollow
  <2> QED
    BY <2>1 DEF IInv, TypeOK
<1> QED
  BY <1>1, <1>2, <1>3, <1>4 DEF IInv

LEMMA StepInv == IInv /\ [Next]_vars => IInv'
<1> SUFFICES ASSUME IInv, [Next]_vars PROVE IInv'
  OBVIOUS
<1>0. TypeOK'
  BY StepType DEF IInv
<1>1. CASE UNCHANGED vars
  BY <1>0, <1>1, QuietStepInv DEF vars, sourceVars, tables
<1>2. CASE SourceStep
  BY <1>2, SourceStepInv
<1>3. CASE FullStep
  BY <1>3, FullStepInv
<1>4. CASE TripFull \/ NoOpExit \/ ApplyRolledBack
  BY <1>0, <1>4, QuietStepInv DEF TripFull, NoOpExit, ApplyRolledBack
<1>5. CASE Apply
  BY <1>0, <1>5, ApplyInv
<1>6. CASE ApplyTorn
  BY <1>0, <1>6, ApplyTornInv
<1> QED
  BY <1>1, <1>2, <1>3, <1>4, <1>5, <1>6 DEF Next, IncrementalStep

\* The inductive invariant holds in every reachable state.
THEOREM Inductive == Spec => []IInv
  BY InitInv, StepInv, PTL DEF Spec

-----------------------------------------------------------------------------
(* What follows from it.                                                   *)

\* No run of full builds, incremental applies, failures and retries lets the
\* watermark run ahead of the store.
THEOREM WatermarkCorrect == Spec => []WatermarkCoversStore
  BY Inductive, PTL DEF IInv

\* The derived tables and the full-text index follow the messages table.
THEOREM DerivedCorrect == Spec => []DerivedFollowsMessages
  BY Inductive, PTL DEF IInv

\* A caught-up store equals the full rebuild.  Caught up rules out an unnoticed
\* migration (MoveIsNewer) and rows of vanished chains (GoneChainIsNoticed); the
\* watermark then covers every record there is.
LEMMA CaughtUpIsFull == IInv => EquivalentToFull
<1> SUFFICES ASSUME IInv, CaughtUp, taint = {}, state.self = VoteSelf(rec)
             PROVE  LET full == FullMessages(rec, VoteSelf(rec))
                    IN /\ messages = full
                       /\ convs = FullConvs(convRec, full)
                       /\ others = otherRec.value
                       /\ derived = full
                       /\ fts = IndexOf(full, Key)
  BY DEF EquivalentToFull
<1>0. /\ TypeOK /\ served /\ ~needFull /\ rec \in [Chain -> ChainRecord]
      /\ IsMaxSeq(state.maxSeq, rec, convRec, otherRec)
  BY DEF IInv, TypeOK, CaughtUp
<1>1. /\ \A c \in Chain : rec[c].seq <= state.maxSeq
      /\ \A v \in Conv : convRec[v].seq <= state.maxSeq
      /\ otherRec.seq <= state.maxSeq
  BY <1>0 DEF IsMaxSeq, Seqs, TypeOK
<1>2. target = state.target
  <2>1. otherRec.seq \in Nat /\ state.maxSeq \in Nat
    BY <1>0 DEF TypeOK
  <2> QED
    BY <1>0, <1>1, <2>1 DEF IInv, MoveIsNewer
<1>3. ASSUME NEW k \in Key
      PROVE  messages[k] = FullMessages(rec, state.self)[k]
  <2>1. CASE Holders(rec, k) = {}
    <3>1. messages[k] = None
      <4> SUFFICES ASSUME messages[k] # None PROVE FALSE
        OBVIOUS
      <4>1. messages[k].chain \in Chain
        BY <1>0 DEF TypeOK, Row
      <4>2. rec[messages[k].chain].kind # "absent"
        BY <1>0, <1>2 DEF IInv, GoneChainIsNoticed
      <4>3. rec[messages[k].chain].entries[k] # None
        BY <1>0, <1>1, <1>2, <4>1, <4>2 DEF IInv, WatermarkCoversStore
      <4> QED
        BY <1>0, <2>1, <4>1, <4>3, HoldersInChain
    <3> QED
      BY <2>1, <3>1 DEF FullMessages
  <2>2. CASE Holders(rec, k) # {}
    <3> DEFINE w == Winner(rec, Holders(rec, k), k)
    <3>1. w \in Chain /\ rec[w].entries[k] # None
      BY <1>0, <2>2, HoldersInChain, WinnerIsHolder
    <3>2. rec[w].kind # "absent"
      BY <3>1 DEF IInv, OnlyPutsHold
    <3> HIDE DEF w
    <3>3. messages[k] = RowOf(rec, w, k, state.self)
      BY <1>0, <1>1, <1>2, <3>1, <3>2 DEF IInv, WatermarkCoversStore
    <3> QED
      BY <2>2, <3>3 DEF FullMessages, w
  <2> QED
    BY <2>1, <2>2
<1>4. messages = FullMessages(rec, VoteSelf(rec))
  <2>1. messages \in [Key -> Row \cup {None}] /\ state.self \in BOOLEAN
    BY <1>0 DEF TypeOK
  <2>2. FullMessages(rec, state.self) \in [Key -> Row \cup {None}]
    BY <1>0, <2>1, FullMessagesType
  <2> QED
    BY <1>3, <2>1, <2>2
<1>5. convs = FullConvs(convRec, messages)
  <2>1. \A v \in Conv : convs[v] = FullConvs(convRec, messages)[v]
    BY <1>0, <1>1 DEF IInv, ConvsFollow
  <2>2. convs \in [Conv -> Topic \cup {NoTopic, None}]
    BY <1>0 DEF TypeOK
  <2>3. FullConvs(convRec, messages) \in [Conv -> Topic \cup {NoTopic, None}]
    BY <1>0, FullConvsType DEF TypeOK
  <2> QED
    BY <2>1, <2>2, <2>3
<1>6. others = otherRec.value /\ derived = messages /\ fts = IndexOf(messages, Key)
  BY <1>0, <1>1 DEF IInv, OthersFollow, DerivedFollowsMessages
<1> QED
  BY <1>4, <1>5, <1>6

\* The equivalence invariant of docs/development.md.
THEOREM EquivalenceCorrect == Spec => []EquivalentToFull
  BY Inductive, CaughtUpIsFull, PTL

\* No refresh drops a message its source still holds: what a full build or the
\* transaction does not write anew survives it.
LEMMA StepKeepsLive ==
    ASSUME IInv, [Next]_vars, served, taint = {}, rec' = rec,
           NEW k \in Key, messages[k] # None, Holders(rec, k) # {}
    PROVE  messages'[k] # None
<1>0. TypeOK /\ rec \in [Chain -> ChainRecord]
  BY DEF IInv, TypeOK
<1>1. CASE UNCHANGED messages
  BY <1>1
<1>2. ASSUME NEW cs \in SUBSET Chain, NEW vs \in SUBSET Conv, NEW loss \in Loss,
             FullAdopt(cs, vs, loss)
      PROVE  messages'[k] # None
  <2>1. loss = "none" /\ cs = {}
    BY <1>2 DEF FullAdopt, MayAdopt
  <2>2. WithoutChains(cs) = rec
    BY <1>0, <2>1 DEF WithoutChains
  <2>3. messages' = FullMessages(rec, VoteSelf(rec))
    BY <1>2, <2>2 DEF FullAdopt
  <2>4. Winner(rec, Holders(rec, k), k) \in Holders(rec, k)
    BY <1>0, HoldersInChain, WinnerIsHolder
  <2>5. RowOf(rec, Winner(rec, Holders(rec, k), k), k, VoteSelf(rec)) # None
    BY <1>0, <2>4, HoldersInChain, RowOfType, VoteType
  <2> QED
    BY <2>3, <2>5 DEF FullMessages
<1>3. CASE Apply \/ ApplyTorn
  <2>1. /\ ~SchemaMoved /\ Source = rec /\ messages'[k] = Upserted(k)
        /\ target = state.target
    BY <1>3 DEF Apply, ApplyTorn, Source, SchemaMoved, Transaction, AppliedMessages
  <2> DEFINE hs == Holders(rec, k) \cap Changed
             new == RowOf(rec, Winner(rec, hs, k), k, state.self)
  <2>2. CASE hs # {}
    <3>1. hs \in SUBSET Chain /\ \A c \in hs : rec[c].entries[k] # None
      BY <1>0, HoldersInChain
    <3>2. Winner(rec, hs, k) \in hs
      <4> HIDE DEF hs
      <4> QED BY <1>0, <2>2, <3>1, WinnerIsHolder
    <3>3. new # None
      <4> HIDE DEF hs
      <4> QED BY <1>0, <3>1, <3>2, RowOfType DEF TypeOK
    <3> HIDE DEF new
    <3> QED
      BY <2>1, <2>2, <3>3 DEF Upserted, new
  <2>3. CASE hs = {}
    <3>1. PICK c \in Holders(rec, k) : TRUE
      OBVIOUS
    <3>2. c \in Chain /\ rec[c].entries[k] # None /\ rec[c].kind = "put"
      BY <1>0, <3>1, HoldersInChain DEF IInv, OnlyPutsHold
    <3>3. c \in Live \ Changed /\ rec[c].seq <= state.maxSeq
      <4>1. c \in Live /\ c \notin Changed
        BY <2>1, <2>3, <3>1, <3>2 DEF Live
      <4>2. rec[c].seq \in Nat /\ state.maxSeq \in Nat
        BY <1>0, <3>2 DEF TypeOK, ChainRecord
      <4> QED
        BY <2>1, <4>1, <4>2 DEF Changed
    <3>4. messages[k] = RowOf(rec, c, k, state.self)
      BY <2>1, <3>2, <3>3 DEF IInv, WatermarkCoversStore
    <3>5. Survives(k)
      BY <3>3, <3>4 DEF Survives, RowOf
    <3> QED
      BY <2>1, <2>3, <3>5 DEF Upserted
  <2> QED
    BY <2>2, <2>3
<1>4. SourceStep => UNCHANGED messages
  BY DEF SourceStep, PutChain, DeleteChain, ElideTombstone, PutConv, PutOther, Migrate,
     KeepStore, tables
<1>5. FullKept \/ TripFull \/ NoOpExit \/ ApplyRolledBack => UNCHANGED messages
  BY DEF FullKept, TripFull, NoOpExit, ApplyRolledBack, tables
<1>6. UNCHANGED vars => UNCHANGED messages
  BY DEF vars
<1> QED
  BY <1>1, <1>2, <1>3, <1>4, <1>5, <1>6 DEF Next, FullStep, IncrementalStep

\* A refresh of any kind keeps every message that its source still holds.
THEOREM LiveMessagesStay == Spec => NeverDropsALiveMessage
<1>1. IInv /\ [Next]_vars =>
         [(served /\ taint = {} /\ rec' = rec) =>
            \A k \in Key : (messages[k] # None /\ Holders(rec, k) # {}) => messages'[k] # None]_vars
  BY StepKeepsLive
<1> QED
  BY <1>1, Inductive, PTL DEF Spec, NeverDropsALiveMessage
=============================================================================
