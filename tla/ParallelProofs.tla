--------------------------- MODULE ParallelProofs ---------------------------
(***************************************************************************)
(* The parallel build keeps its promises for any number of workers, tables *)
(* and chunks, whatever order answers and errors come in.  First what the  *)
(* operations of the worker pool keep: its parts agree with each other,    *)
(* and only a worker that was idle gets a job.                             *)
(***************************************************************************)
EXTENDS ParallelBuild, NumberFacts, SequenceTheorems

-----------------------------------------------------------------------------
(* Sequences without repetition.                                           *)

\* The elements of a sequence, by their places.
LEMMA Elements ==
    ASSUME NEW S, NEW s \in Seq(S)
    PROVE  /\ DOMAIN s = 1..Len(s) /\ Len(s) \in Nat
           /\ \A i \in 1..Len(s) : s[i] \in ToSet(s)
           /\ \A x \in ToSet(s) : x \in S /\ \E i \in 1..Len(s) : s[i] = x
BY DEF ToSet

\* The tail has every element but the head, once.
LEMMA TailOfInjective ==
    ASSUME NEW S, NEW s \in Seq(S), s # <<>>, IsInjective(s)
    PROVE  /\ Head(s) \in ToSet(s) /\ Head(s) \in S
           /\ Tail(s) \in Seq(S) /\ IsInjective(Tail(s))
           /\ ToSet(Tail(s)) = ToSet(s) \ {Head(s)}
<1>1. /\ Head(s) = s[1] /\ Len(s) \in Nat \ {0} /\ DOMAIN s = 1..Len(s)
      /\ Tail(s) \in Seq(S) /\ Len(Tail(s)) = Len(s) - 1
      /\ DOMAIN Tail(s) = 1..(Len(s) - 1)
      /\ \A i \in 1..(Len(s) - 1) : Tail(s)[i] = s[i + 1]
  BY HeadTailProperties, LenProperties, EmptySeq
<1>2. Head(s) \in ToSet(s) /\ Head(s) \in S
  BY <1>1 DEF ToSet
<1>3. IsInjective(Tail(s))
  <2> SUFFICES ASSUME NEW a \in 1..(Len(s) - 1), NEW b \in 1..(Len(s) - 1),
                      s[a + 1] = s[b + 1]
               PROVE  a = b
    BY <1>1 DEF IsInjective
  <2>1. a + 1 \in DOMAIN s /\ b + 1 \in DOMAIN s
    BY <1>1
  <2>2. a + 1 = b + 1
    BY <2>1 DEF IsInjective
  <2> QED
    BY <2>2
<1>4. ToSet(Tail(s)) \subseteq ToSet(s) \ {Head(s)}
  <2> SUFFICES ASSUME NEW i \in 1..(Len(s) - 1)
               PROVE  s[i + 1] \in ToSet(s) /\ s[i + 1] # s[1]
    BY <1>1 DEF ToSet
  <2>1. i + 1 \in DOMAIN s /\ 1 \in DOMAIN s /\ i + 1 # 1
    BY <1>1
  <2> QED
    BY <2>1 DEF ToSet, IsInjective
<1>5. ToSet(s) \ {Head(s)} \subseteq ToSet(Tail(s))
  <2> SUFFICES ASSUME NEW i \in 1..Len(s), i # 1
               PROVE  s[i] \in ToSet(Tail(s))
    BY <1>1 DEF ToSet
  <2>1. i - 1 \in 1..(Len(s) - 1) /\ s[i] = Tail(s)[i - 1]
    BY <1>1
  <2> QED
    BY <1>1, <2>1 DEF ToSet
<1> QED
  BY <1>1, <1>2, <1>3, <1>4, <1>5

\* Appending an element that is not there yet keeps the others, once.
LEMMA AppendToInjective ==
    ASSUME NEW S, NEW s \in Seq(S), IsInjective(s), NEW x \in S, x \notin ToSet(s)
    PROVE  /\ Append(s, x) \in Seq(S) /\ IsInjective(Append(s, x))
           /\ ToSet(Append(s, x)) = ToSet(s) \cup {x}
<1> DEFINE t == Append(s, x)
<1>1. /\ t \in Seq(S) /\ Len(s) \in Nat /\ DOMAIN s = 1..Len(s)
      /\ DOMAIN t = 1..(Len(s) + 1)
      /\ \A i \in 1..Len(s) : t[i] = s[i]
      /\ t[Len(s) + 1] = x
  BY AppendProperties, LenProperties
<1> HIDE DEF t
<1>2. \A i \in 1..Len(s) : s[i] # x
  BY <1>1 DEF ToSet
<1>3. IsInjective(t)
  <2> SUFFICES ASSUME NEW a \in 1..(Len(s) + 1), NEW b \in 1..(Len(s) + 1), t[a] = t[b]
               PROVE  a = b
    BY <1>1 DEF IsInjective
  <2>1. CASE a \in 1..Len(s) /\ b \in 1..Len(s)
    BY <1>1, <2>1 DEF IsInjective
  <2>2. CASE a = Len(s) + 1 \/ b = Len(s) + 1
    BY <1>1, <1>2, <2>2
  <2> QED
    BY <1>1, <2>1, <2>2
<1>4. ToSet(t) \subseteq ToSet(s) \cup {x}
  <2> SUFFICES ASSUME NEW i \in 1..(Len(s) + 1)
               PROVE  t[i] \in ToSet(s) \cup {x}
    BY <1>1 DEF ToSet
  <2>1. i \in 1..Len(s) \/ i = Len(s) + 1
    BY <1>1
  <2> QED
    BY <1>1, <2>1 DEF ToSet
<1>5. ToSet(s) \cup {x} \subseteq ToSet(t)
  <2>1. \A i \in 1..Len(s) : s[i] \in ToSet(t)
    BY <1>1 DEF ToSet
  <2>2. x \in ToSet(t)
    BY <1>1 DEF ToSet
  <2> QED
    BY <1>1, <2>1, <2>2 DEF ToSet
<1> QED
  BY <1>1, <1>3, <1>4, <1>5 DEF t

\* The first elements of a sequence.
LEMMA InitialSegment ==
    ASSUME NEW S, NEW s \in Seq(S), NEW n \in 0..Len(s)
    PROVE  /\ SubSeq(s, 1, n) \in Seq(S) /\ Len(SubSeq(s, 1, n)) = n
           /\ \A i \in 1..n : SubSeq(s, 1, n)[i] = s[i]
<1>1. n \in Int /\ 1 \in Int /\ \A i \in 1..n : s[i] \in S
  OBVIOUS
<1>2. PICK u : u = SubSeq(s, 1, n)
  OBVIOUS
<1>3. /\ u \in Seq(S) /\ Len(u) = IF 1 <= n THEN n - 1 + 1 ELSE 0
      /\ \A i \in 1..(n - 1 + 1) : u[i] = s[1 + i - 1]
  BY <1>1, <1>2, SubSeqProperties
<1>4. n - 1 + 1 = n /\ (1 <= n \/ n = 0)
  BY <1>1
<1>5. Len(u) = n
  BY <1>3, <1>4
<1>6. ASSUME NEW i \in 1..n
      PROVE  u[i] = s[i]
  <2>1. 1 + i - 1 = i
    OBVIOUS
  <2> QED
    BY <1>3, <1>4, <2>1
<1> QED
  BY <1>2, <1>3, <1>5, <1>6

\* The last elements of a sequence.
LEMMA FinalSegment ==
    ASSUME NEW S, NEW s \in Seq(S), NEW n \in 0..Len(s)
    PROVE  /\ SubSeq(s, n + 1, Len(s)) \in Seq(S)
           /\ Len(SubSeq(s, n + 1, Len(s))) = Len(s) - n
           /\ \A i \in 1..(Len(s) - n) : SubSeq(s, n + 1, Len(s))[i] = s[i + n]
<1>1. PICK l \in Nat : l = Len(s)
  OBVIOUS
<1>2. /\ n \in Int /\ n + 1 \in Int /\ l \in Int /\ n <= l
      /\ \A i \in (n + 1)..l : s[i] \in S
  BY <1>1
<1>3. PICK u : u = SubSeq(s, n + 1, l)
  OBVIOUS
<1>4. /\ u \in Seq(S) /\ Len(u) = IF n + 1 <= l THEN l - (n + 1) + 1 ELSE 0
      /\ \A i \in 1..(l - (n + 1) + 1) : u[i] = s[(n + 1) + i - 1]
  BY <1>2, <1>3, SubSeqProperties
<1>5. l - (n + 1) + 1 = l - n /\ (n + 1 <= l \/ l - n = 0)
  BY <1>2
<1>6. Len(u) = l - n
  BY <1>4, <1>5
<1>7. ASSUME NEW i \in 1..(l - n)
      PROVE  u[i] = s[i + n]
  <2>1. (n + 1) + i - 1 = i + n
    BY <1>2
  <2> QED
    BY <1>4, <1>5, <2>1
<1> QED
  BY <1>1, <1>3, <1>4, <1>6, <1>7

\* Removing an element leaves the others, once.
LEMMA RemoveFromInjective ==
    ASSUME NEW S, NEW s \in Seq(S), IsInjective(s), NEW x
    PROVE  /\ RemoveFirst(s, x) \in Seq(S) /\ IsInjective(RemoveFirst(s, x))
           /\ ToSet(RemoveFirst(s, x)) = ToSet(s) \ {x}
<1>1. Len(s) \in Nat /\ DOMAIN s = 1..Len(s) /\ \A i \in 1..Len(s) : s[i] \in S
  OBVIOUS
<1>2. CASE ~ \E i \in 1..Len(s) : s[i] = x
  <2>1. RemoveFirst(s, x) = s
    BY <1>2, Zenon DEF RemoveFirst
  <2>2. x \notin ToSet(s)
    BY <1>1, <1>2 DEF ToSet
  <2> QED
    BY <2>1, <2>2
<1>3. CASE \E i \in 1..Len(s) : s[i] = x
  <2> DEFINE I == {i \in 1..Len(s) : s[i] = x}
             m == Min(I)
             t == RemoveFirst(s, x)
  <2>1. I # {} /\ I \in SUBSET Nat
    BY <1>1, <1>3
  <2>2. RemoveFirst(s, x) = RemoveAt(s, IF I # {} THEN Min(I) ELSE 0)
    BY <1>3, Zenon DEF RemoveFirst, SelectInSeq
  <2>3. m \in I
    <3> HIDE DEF I
    <3>1. \E i \in I : \A j \in I : i <= j
      BY <2>1, HasMin
    <3> QED
      BY <3>1 DEF Min
  <2>4. m \in 1..Len(s) /\ s[m] = x
    BY <2>3
  <2> HIDE DEF I, m
  <2>5. t = SubSeq(s, 1, m - 1) \o SubSeq(s, m + 1, Len(s))
    BY <2>1, <2>2 DEF RemoveAt, m
  <2> DEFINE u == SubSeq(s, 1, m - 1)
             v == SubSeq(s, m + 1, Len(s))
  <2>6. /\ u \in Seq(S) /\ Len(u) = m - 1
        /\ \A i \in 1..(m - 1) : u[i] = s[i]
    <3>1. m - 1 \in 0..Len(s)
      BY <1>1, <2>4
    <3> HIDE DEF m, t, v, I
    <3> QED
      BY <3>1, InitialSegment
  <2>7. /\ v \in Seq(S) /\ Len(v) = Len(s) - m
        /\ \A i \in 1..(Len(s) - m) : v[i] = s[i + m]
    <3>1. m \in 0..Len(s)
      BY <1>1, <2>4
    <3> HIDE DEF m, t, u, I
    <3> QED
      BY <3>1, FinalSegment
  <2> HIDE DEF u, v, t
  <2>8. /\ t \in Seq(S) /\ Len(t) = Len(s) - 1
        /\ \A i \in 1..(Len(s) - 1) : t[i] = IF i < m THEN s[i] ELSE s[i + 1]
    <3>1. /\ t \in Seq(S) /\ Len(t) = Len(u) + Len(v)
          /\ \A i \in 1..(Len(u) + Len(v)) :
                t[i] = IF i <= Len(u) THEN u[i] ELSE v[i - Len(u)]
      BY <2>5, <2>6, <2>7, ConcatProperties DEF u, v
    <3>2. Len(t) = Len(s) - 1
      BY <1>1, <2>4, <2>6, <2>7, <3>1
    <3>3. ASSUME NEW i \in 1..(Len(s) - 1)
          PROVE  t[i] = IF i < m THEN s[i] ELSE s[i + 1]
      <4>1. t[i] = IF i <= m - 1 THEN u[i] ELSE v[i - (m - 1)]
        BY <1>1, <2>4, <2>6, <2>7, <3>1
      <4>2. CASE i < m
        BY <1>1, <2>4, <2>6, <4>1, <4>2
      <4>3. CASE ~(i < m)
        <5>1. i - (m - 1) \in 1..(Len(s) - m) /\ (i - (m - 1)) + m = i + 1 /\ ~(i <= m - 1)
          BY <1>1, <2>4, <4>3
        <5> QED
          BY <2>7, <4>1, <4>3, <5>1
      <4> QED
        BY <4>2, <4>3
    <3> QED
      BY <3>1, <3>2, <3>3
  <2>9. DOMAIN t = 1..(Len(s) - 1)
    BY <2>8
  <2>10. IsInjective(t)
    <3> SUFFICES ASSUME NEW a \in 1..(Len(s) - 1), NEW b \in 1..(Len(s) - 1), t[a] = t[b]
                 PROVE  a = b
      BY <2>9 DEF IsInjective
    <3> DEFINE at(i) == IF i < m THEN i ELSE i + 1
    <3>1. \A i \in 1..(Len(s) - 1) : at(i) \in DOMAIN s /\ t[i] = s[at(i)]
      BY <1>1, <2>4, <2>8
    <3>2. at(a) = at(b)
      <4> HIDE DEF at
      <4> QED BY <3>1 DEF IsInjective
    <3> QED
      BY <1>1, <2>4, <3>2
  <2>11. ToSet(t) \subseteq ToSet(s) \ {x}
    <3> SUFFICES ASSUME NEW i \in 1..(Len(s) - 1)
                 PROVE  t[i] \in ToSet(s) /\ t[i] # x
      BY <2>9 DEF ToSet
    <3>1. PICK k \in DOMAIN s : k # m /\ t[i] = s[k]
      BY <1>1, <2>4, <2>8
    <3> QED
      BY <1>1, <2>4, <3>1 DEF ToSet, IsInjective
  <2>12. ToSet(s) \ {x} \subseteq ToSet(t)
    <3> SUFFICES ASSUME NEW k \in 1..Len(s), s[k] # x
                 PROVE  s[k] \in ToSet(t)
      BY <1>1 DEF ToSet
    <3>1. PICK i \in 1..(Len(s) - 1) : t[i] = s[k]
      <4>1. CASE k < m
        <5>1. k \in 1..(Len(s) - 1) /\ t[k] = s[k]
          BY <1>1, <2>4, <2>8, <4>1
        <5> QED BY <5>1
      <4>2. CASE m < k
        <5>1. k - 1 \in 1..(Len(s) - 1) /\ ~(k - 1 < m) /\ (k - 1) + 1 = k
          BY <1>1, <2>4, <4>2
        <5>2. t[k - 1] = s[k]
          BY <2>8, <5>1
        <5> QED BY <5>1, <5>2
      <4> QED
        BY <1>1, <2>4, <4>1, <4>2
    <3> QED
      BY <2>9, <3>1 DEF ToSet
  <2> QED
    BY <2>8, <2>10, <2>11, <2>12 DEF t
<1> QED
  BY <1>2, <1>3
-----------------------------------------------------------------------------
(* The invariant of a pool.                                                *)

(* A worker is idle or busy, not both, and has its job to itself; a job    *)
(* that waits is in the queue or with a worker, once, and no other is.     *)
Agree(p) ==
    /\ p \in PoolType
    /\ IsInjective(p.idle)
    /\ \A w \in ToSet(p.idle) : p.busy[w] = NoJob
    /\ \A v, w \in Worker : p.busy[v] = p.busy[w] => v = w \/ p.busy[v] = NoJob
    /\ IsInjective(p.queue)
    /\ \A w \in Worker : p.busy[w] \notin ToSet(p.queue)
    /\ \A j \in Job :
          p.outcome[j] = "waiting" <=>
             j \in ToSet(p.queue) \/ \E w \in Worker : p.busy[w] = j

(* From p to q only workers that were idle got jobs.                       *)
Posts(p, q) ==
    /\ q.workers = p.workers
    /\ ToSet(q.idle) \subseteq ToSet(p.idle)
    /\ \A w \in Worker : q.busy[w] # p.busy[w] => w \in ToSet(p.idle)

(* No job was run from p to q but those named.                             *)
Runs(p, q, jobs) ==
    \A j \in Job \ jobs : q.outcome[j] = "unborn" <=> p.outcome[j] = "unborn"

\* What settling promises leaves and what it changes.
LEMMA Settling ==
    ASSUME NEW p \in PoolType, NEW J, NEW how \in Outcome
    PROVE  \E q \in PoolType :
              /\ Settle(p, J, how) = q
              /\ q.workers = p.workers /\ q.idle = p.idle
              /\ q.queue = p.queue /\ q.busy = p.busy
              /\ \A j \in Job : q.outcome[j] = IF j \in J /\ p.outcome[j] = "waiting"
                                              THEN how ELSE p.outcome[j]
<1> DEFINE o == [j \in Job |-> IF j \in J /\ p.outcome[j] = "waiting" THEN how ELSE p.outcome[j]]
<1>1. p.outcome \in [Job -> Outcome]
  BY DEF PoolType
<1>2. o \in [Job -> Outcome]
  BY <1>1
<1>3. \A j \in Job : o[j] = IF j \in J /\ p.outcome[j] = "waiting" THEN how ELSE p.outcome[j]
  OBVIOUS
<1>4. Settle(p, J, how) = [p EXCEPT !.outcome = o]
  BY Zenon DEF Settle
<1> HIDE DEF o
<1>5. PICK q : q = [p EXCEPT !.outcome = o]
  OBVIOUS
<1>6. q \in PoolType
  BY <1>2, <1>5 DEF PoolType
<1>7. /\ q.workers = p.workers /\ q.idle = p.idle
      /\ q.queue = p.queue /\ q.busy = p.busy /\ q.outcome = o
  BY <1>5 DEF PoolType
<1> QED
  BY <1>3, <1>4, <1>5, <1>6, <1>7

\* One turn of the pump's loop keeps the pool in agreement with itself and
\* gives a job to an idle worker only.
LEMMA TurnAgrees ==
    ASSUME NEW p, Agree(p)
    PROVE  Agree(Turn(p)) /\ Posts(p, Turn(p)) /\ Runs(p, Turn(p), {})
<1>1. CASE p.idle = <<>> \/ p.queue = <<>>
  <2>1. Turn(p) = p
    BY <1>1, Zenon DEF Turn
  <2> QED
    BY <2>1 DEF Posts, Runs
<1>2. CASE ~(p.idle = <<>> \/ p.queue = <<>>)
  <2> DEFINE w == Head(p.idle)
             j == Head(p.queue)
  <2>1. /\ p \in PoolType /\ p.idle \in Seq(Worker) /\ p.queue \in Seq(Job)
        /\ p.busy \in [Worker -> Job \cup {NoJob}] /\ p.outcome \in [Job -> Outcome]
        /\ p.workers \in SUBSET Worker
    BY DEF Agree, PoolType
  <2>2. /\ w \in ToSet(p.idle) /\ w \in Worker
        /\ Tail(p.idle) \in Seq(Worker) /\ IsInjective(Tail(p.idle))
        /\ ToSet(Tail(p.idle)) = ToSet(p.idle) \ {w}
    BY <1>2, <2>1, TailOfInjective DEF Agree
  <2>3. /\ j \in ToSet(p.queue) /\ j \in Job
        /\ Tail(p.queue) \in Seq(Job) /\ IsInjective(Tail(p.queue))
        /\ ToSet(Tail(p.queue)) = ToSet(p.queue) \ {j}
    BY <1>2, <2>1, TailOfInjective DEF Agree
  <2>4. p.outcome[j] = "waiting" /\ p.busy[w] = NoJob /\ j # NoJob
    BY <2>2, <2>3, NoJobIsNone DEF Agree
  <2>5. ToSet(p.idle) \subseteq Worker
    BY <2>1, Elements
  <2>6. PICK q : q = [p EXCEPT !.queue = Tail(p.queue)]
    OBVIOUS
  <2>7. CASE j \in unpostable
    <3> DEFINE i == Append(Tail(p.idle), w)
    <3>1. i \in Seq(Worker) /\ IsInjective(i) /\ ToSet(i) = ToSet(p.idle)
      <4> HIDE DEF w
      <4>1. PICK u : u = Tail(p.idle)
        OBVIOUS
      <4>2. u \in Seq(Worker) /\ IsInjective(u) /\ w \in Worker /\ w \notin ToSet(u)
        BY <2>2, <4>1
      <4>3. /\ Append(u, w) \in Seq(Worker) /\ IsInjective(Append(u, w))
            /\ ToSet(Append(u, w)) = ToSet(u) \cup {w}
        BY <4>2, AppendToInjective
      <4> QED BY <2>2, <4>1, <4>3
    <3>2. Turn(p) = Settle([q EXCEPT !.idle = Append(Tail(q.idle), w)], {j}, "rejected")
      BY <1>2, <2>6, <2>7, Zenon DEF Turn
    <3>3. q.idle = p.idle
      BY <2>1, <2>6 DEF PoolType
    <3>4. PICK r : r = [q EXCEPT !.idle = i]
      OBVIOUS
    <3>5. Turn(p) = Settle(r, {j}, "rejected")
      BY <3>2, <3>3, <3>4
    <3> HIDE DEF w, j, i
    <3>6. r \in PoolType
      BY <2>1, <2>3, <2>6, <3>1, <3>4 DEF PoolType
    <3>7. /\ r.workers = p.workers /\ r.idle = i /\ r.queue = Tail(p.queue)
          /\ r.busy = p.busy /\ r.outcome = p.outcome
      BY <2>1, <2>6, <3>4 DEF PoolType
    <3>8. "rejected" \in Outcome
      BY DEF Outcome
    <3>9. PICK t \in PoolType :
             /\ Settle(r, {j}, "rejected") = t
             /\ t.workers = r.workers /\ t.idle = r.idle
             /\ t.queue = r.queue /\ t.busy = r.busy
             /\ \A k \in Job : t.outcome[k] = IF k \in {j} /\ r.outcome[k] = "waiting"
                                             THEN "rejected" ELSE r.outcome[k]
      BY <3>6, <3>8, Settling
    <3>10. \A k \in Job : t.outcome[k] = IF k = j THEN "rejected" ELSE p.outcome[k]
      BY <2>4, <3>7, <3>9
    <3>11. /\ IsInjective(t.idle) /\ \A v \in ToSet(t.idle) : t.busy[v] = NoJob
           /\ IsInjective(t.queue) /\ \A v \in Worker : t.busy[v] \notin ToSet(t.queue)
      BY <2>3, <3>1, <3>7, <3>9 DEF Agree
    <3>12. \A v, u \in Worker : t.busy[v] = t.busy[u] => v = u \/ t.busy[v] = NoJob
      BY <3>7, <3>9 DEF Agree
    <3>13. \A k \in Job : t.outcome[k] = "waiting" <=>
                             k \in ToSet(t.queue) \/ \E v \in Worker : t.busy[v] = k
      BY <2>3, <3>7, <3>9, <3>10 DEF Agree
    <3>14. Posts(p, t)
      BY <3>1, <3>7, <3>9 DEF Posts
    <3>15. Runs(p, t, {})
      BY <2>4, <3>10 DEF Runs
    <3> QED
      BY <3>5, <3>9, <3>11, <3>12, <3>13, <3>14, <3>15 DEF Agree
  <2>8. CASE j \notin unpostable
    <3>1. Turn(p) = [q EXCEPT !.idle = Tail(@), !.busy[w] = j]
      BY <1>2, <2>6, <2>8, Zenon DEF Turn
    <3>2. PICK t : t = [q EXCEPT !.idle = Tail(@), !.busy[w] = j]
      OBVIOUS
    <3> HIDE DEF w, j
    <3>3. /\ t.workers = p.workers /\ t.idle = Tail(p.idle) /\ t.queue = Tail(p.queue)
          /\ t.busy = [p.busy EXCEPT ![w] = j] /\ t.outcome = p.outcome
      BY <2>1, <2>6, <3>2 DEF PoolType
    <3>4. t \in PoolType
      BY <2>1, <2>2, <2>3, <2>6, <3>2 DEF PoolType
    <3>5. \A v \in Worker : t.busy[v] = IF v = w THEN j ELSE p.busy[v]
      BY <2>1, <3>3
    <3>6. /\ IsInjective(t.idle) /\ \A v \in ToSet(t.idle) : t.busy[v] = NoJob
      BY <2>2, <2>5, <3>3, <3>5 DEF Agree
    <3>7. IsInjective(t.queue) /\ \A v \in Worker : t.busy[v] \notin ToSet(t.queue)
      BY <2>3, <3>3, <3>5 DEF Agree
    <3>8. \A v, u \in Worker : t.busy[v] = t.busy[u] => v = u \/ t.busy[v] = NoJob
      BY <2>3, <3>5 DEF Agree
    <3>9. \A k \in Job : t.outcome[k] = "waiting" <=>
                             k \in ToSet(t.queue) \/ \E v \in Worker : t.busy[v] = k
      <4> TAKE k \in Job
      <4>1. CASE k = j
        BY <2>2, <2>4, <3>3, <3>5, <4>1
      <4>2. CASE k # j
        <5>1. (\E v \in Worker : t.busy[v] = k) <=> (\E v \in Worker : p.busy[v] = k)
          BY <2>4, <3>5, <4>2, NoJobIsNone
        <5> QED
          BY <2>3, <3>3, <4>2, <5>1 DEF Agree
      <4> QED
        BY <4>1, <4>2
    <3>10. Posts(p, t)
      BY <2>2, <3>3, <3>5 DEF Posts
    <3>11. Runs(p, t, {})
      BY <3>3 DEF Runs
    <3> QED
      BY <3>1, <3>2, <3>4, <3>6, <3>7, <3>8, <3>9, <3>10, <3>11 DEF Agree
  <2> QED
    BY <2>7, <2>8
<1> QED
  BY <1>1, <1>2

\* The function the pump's loop defines exists, for any number of turns.
LEMMA TurnsExist ==
    ASSUME NEW p, NEW n \in Nat
    PROVE  \E g : g = [k \in 0..n |-> IF k = 0 THEN p ELSE Turn(g[k - 1])]
<1> DEFINE Has(m) == \E g : g = [k \in 0..m |-> IF k = 0 THEN p ELSE Turn(g[k - 1])]
           S == {m \in 0..n : Has(m)}
<1>1. Has(0)
  <2>1. PICK g : g = [k \in 0..0 |-> p]
    OBVIOUS
  <2>2. g = [k \in 0..0 |-> IF k = 0 THEN p ELSE Turn(g[k - 1])]
    BY <2>1
  <2> QED
    BY <2>2
<1>2. ASSUME NEW m \in Nat, Has(m)
      PROVE  Has(m + 1)
  <2>1. PICK g : g = [k \in 0..m |-> IF k = 0 THEN p ELSE Turn(g[k - 1])]
    BY <1>2
  <2>2. PICK h : h = [k \in 0..(m + 1) |-> IF k = m + 1 THEN Turn(g[m]) ELSE g[k]]
    OBVIOUS
  <2>3. \A k \in 0..(m + 1) : h[k] = IF k = 0 THEN p ELSE Turn(h[k - 1])
    <3> TAKE k \in 0..(m + 1)
    <3>1. CASE k = m + 1
      <4>1. h[k] = Turn(g[m]) /\ h[m] = g[m] /\ k - 1 = m
        BY <2>2, <3>1
      <4> QED BY <3>1, <4>1
    <3>2. CASE k # m + 1 /\ k # 0
      <4>1. k \in 0..m /\ k - 1 \in 0..(m + 1) /\ k - 1 # m + 1
        BY <3>2
      <4>2. h[k] = g[k] /\ h[k - 1] = g[k - 1] /\ g[k] = Turn(g[k - 1])
        BY <2>1, <2>2, <3>2, <4>1
      <4> QED BY <3>2, <4>2
    <3>3. CASE k = 0
      BY <2>1, <2>2, <3>3
    <3> QED
      BY <3>1, <3>2, <3>3
  <2>4. h = [k \in 0..(m + 1) |-> IF k = 0 THEN p ELSE Turn(h[k - 1])]
    BY <2>2, <2>3
  <2> QED
    BY <2>4
<1> HIDE DEF Has
<1>3. S = 0..n
  <2>1. 0 \in S /\ \A m \in S : m < n => m + 1 \in S
    BY <1>1, <1>2
  <2> QED
    BY <2>1, Counting
<1>4. Has(n)
  BY <1>3
<1> QED
  BY <1>4 DEF Has

\* So does the whole loop; with nothing in the queue it does nothing.
LEMMA PumpAgrees ==
    ASSUME NEW p, Agree(p)
    PROVE  /\ Agree(Pump(p)) /\ Posts(p, Pump(p)) /\ Runs(p, Pump(p), {})
           /\ p.queue = <<>> => Pump(p) = p
<1>1. Len(p.queue) \in Nat
  BY DEF Agree, PoolType
<1>2. PICK g : /\ g = [k \in 0..Len(p.queue) |-> IF k = 0 THEN p ELSE Turn(g[k - 1])]
               /\ Pump(p) = g[Len(p.queue)]
  <2>1. \E g : g = [k \in 0..Len(p.queue) |-> IF k = 0 THEN p ELSE Turn(g[k - 1])]
    BY <1>1, TurnsExist
  <2> QED
    BY <2>1, Zenon DEF Pump
<1> DEFINE Good(q) == Agree(q) /\ Posts(p, q) /\ Runs(p, q, {})
           S == {k \in 0..Len(p.queue) : Good(g[k])}
<1>3. g[0] = p
  BY <1>1, <1>2
<1>4. Good(g[0])
  BY <1>3 DEF Posts, Runs
<1>5. ASSUME NEW k \in 0..Len(p.queue), k < Len(p.queue), Good(g[k])
      PROVE  Good(g[k + 1])
  <2>1. g[k + 1] = Turn(g[k])
    <3>1. k + 1 \in 0..Len(p.queue) /\ k + 1 # 0 /\ (k + 1) - 1 = k
      BY <1>1, <1>5
    <3> QED BY <1>2, <3>1
  <2>2. Agree(Turn(g[k])) /\ Posts(g[k], Turn(g[k])) /\ Runs(g[k], Turn(g[k]), {})
    BY <1>5, TurnAgrees
  <2>3. Posts(p, Turn(g[k])) /\ Runs(p, Turn(g[k]), {})
    BY <1>5, <2>2 DEF Posts, Runs
  <2> QED
    BY <2>1, <2>2, <2>3
<1> HIDE DEF Good
<1>6. S = 0..Len(p.queue)
  <2>1. 0 \in S /\ \A k \in S : k < Len(p.queue) => k + 1 \in S
    BY <1>1, <1>4, <1>5
  <2> QED
    BY <1>1, <2>1, Counting
<1>7. Good(Pump(p))
  <2>1. Len(p.queue) \in S
    BY <1>1, <1>6
  <2> QED
    BY <1>2, <2>1
<1>8. p.queue = <<>> => Pump(p) = p
  BY <1>2, <1>3
<1> QED
  BY <1>7, <1>8 DEF Good

-----------------------------------------------------------------------------
(* The operations.                                                         *)

\* A job that was not run before is run: it waits, or has been settled.
LEMMA RunAgrees ==
    ASSUME NEW p, Agree(p), NEW j \in Job, p.outcome[j] = "unborn"
    PROVE  Agree(Run(p, j)) /\ Posts(p, Run(p, j)) /\ Runs(p, Run(p, j), {j})
<1>1. /\ p \in PoolType /\ p.queue \in Seq(Job)
      /\ p.busy \in [Worker -> Job \cup {NoJob}] /\ p.outcome \in [Job -> Outcome]
  BY DEF Agree, PoolType
<1>2. PICK i : i = Append(p.queue, j)
  OBVIOUS
<1>3. PICK q : q = [p EXCEPT !.queue = i, !.outcome[j] = "waiting"]
  OBVIOUS
<1>4. Run(p, j) = Pump(q)
  <2>1. Run(p, j) = Pump([p EXCEPT !.queue = Append(p.queue, j), !.outcome[j] = "waiting"])
    BY Zenon DEF Run
  <2> QED
    BY <1>2, <1>3, <2>1
<1>5. j \notin ToSet(p.queue) /\ \A w \in Worker : p.busy[w] # j
  BY DEF Agree
<1>6. i \in Seq(Job) /\ IsInjective(i) /\ ToSet(i) = ToSet(p.queue) \cup {j}
  BY <1>1, <1>2, <1>5, AppendToInjective DEF Agree
<1>7. /\ q.workers = p.workers /\ q.idle = p.idle /\ q.queue = i /\ q.busy = p.busy
      /\ q.outcome = [p.outcome EXCEPT ![j] = "waiting"]
  BY <1>1, <1>3 DEF PoolType
<1>8. q \in PoolType
  BY <1>1, <1>3, <1>6 DEF PoolType, Outcome
<1>9. \A k \in Job : q.outcome[k] = IF k = j THEN "waiting" ELSE p.outcome[k]
  BY <1>1, <1>7
<1>10. Agree(q)
  <2>1. \A w \in ToSet(q.idle) : q.busy[w] = NoJob
    BY <1>7 DEF Agree
  <2>2. \A v, w \in Worker : q.busy[v] = q.busy[w] => v = w \/ q.busy[v] = NoJob
    BY <1>7 DEF Agree
  <2>3. \A w \in Worker : q.busy[w] \notin ToSet(q.queue)
    BY <1>5, <1>6, <1>7 DEF Agree
  <2>4. \A k \in Job : q.outcome[k] = "waiting" <=>
                           k \in ToSet(q.queue) \/ \E w \in Worker : q.busy[w] = k
    BY <1>6, <1>7, <1>9 DEF Agree
  <2> QED
    BY <1>6, <1>7, <1>8, <2>1, <2>2, <2>3, <2>4 DEF Agree
<1>11. Agree(Pump(q)) /\ Posts(q, Pump(q)) /\ Runs(q, Pump(q), {})
  BY <1>10, PumpAgrees
<1>12. Posts(p, Pump(q))
  BY <1>7, <1>11 DEF Posts
<1>13. Runs(p, Pump(q), {j})
  BY <1>9, <1>11 DEF Runs
<1> QED
  BY <1>4, <1>11, <1>12, <1>13

\* The function that runs jobs one after another exists, and gives
\* RunAll its value.
LEMMA RunAllByRuns ==
    ASSUME NEW p, NEW jobs, Len(jobs) \in Nat
    PROVE  \E g : /\ g = [k \in 0..Len(jobs) |-> IF k = 0 THEN p ELSE Run(g[k - 1], jobs[k])]
                  /\ RunAll(p, jobs) = g[Len(jobs)]
<1> DEFINE Has(m) == \E g : g = [k \in 0..m |-> IF k = 0 THEN p ELSE Run(g[k - 1], jobs[k])]
           S == {m \in 0..Len(jobs) : Has(m)}
<1>1. Has(0)
  <2>1. PICK g : g = [k \in 0..0 |-> p]
    OBVIOUS
  <2>2. g = [k \in 0..0 |-> IF k = 0 THEN p ELSE Run(g[k - 1], jobs[k])]
    BY <2>1
  <2> QED
    BY <2>2
<1>2. ASSUME NEW m \in Nat, Has(m)
      PROVE  Has(m + 1)
  <2>1. PICK g : g = [k \in 0..m |-> IF k = 0 THEN p ELSE Run(g[k - 1], jobs[k])]
    BY <1>2
  <2>2. PICK h : h = [k \in 0..(m + 1) |-> IF k = m + 1 THEN Run(g[m], jobs[k]) ELSE g[k]]
    OBVIOUS
  <2>3. \A k \in 0..(m + 1) : h[k] = IF k = 0 THEN p ELSE Run(h[k - 1], jobs[k])
    <3> TAKE k \in 0..(m + 1)
    <3>1. CASE k = m + 1
      <4>1. h[k] = Run(g[m], jobs[k]) /\ h[m] = g[m] /\ k - 1 = m
        BY <2>2, <3>1
      <4> QED BY <3>1, <4>1
    <3>2. CASE k # m + 1 /\ k # 0
      <4>1. k \in 0..m /\ k - 1 \in 0..(m + 1) /\ k - 1 # m + 1
        BY <3>2
      <4>2. h[k] = g[k] /\ h[k - 1] = g[k - 1] /\ g[k] = Run(g[k - 1], jobs[k])
        BY <2>1, <2>2, <3>2, <4>1
      <4> QED BY <3>2, <4>2
    <3>3. CASE k = 0
      BY <2>1, <2>2, <3>3
    <3> QED
      BY <3>1, <3>2, <3>3
  <2>4. h = [k \in 0..(m + 1) |-> IF k = 0 THEN p ELSE Run(h[k - 1], jobs[k])]
    BY <2>2, <2>3
  <2> QED
    BY <2>4
<1> HIDE DEF Has
<1>3. S = 0..Len(jobs)
  <2>1. 0 \in S /\ \A m \in S : m < Len(jobs) => m + 1 \in S
    BY <1>1, <1>2
  <2> QED
    BY <2>1, Counting
<1>4. Has(Len(jobs))
  BY <1>3
<1>5. \E g : g = [k \in 0..Len(jobs) |-> IF k = 0 THEN p ELSE Run(g[k - 1], jobs[k])]
  BY <1>4 DEF Has
<1> QED
  BY <1>5, Zenon DEF RunAll

\* Jobs that were not run before can be run one after another.
LEMMA RunAllAgrees ==
    ASSUME NEW p, Agree(p), NEW jobs \in Seq(Job), IsInjective(jobs),
           \A i \in 1..Len(jobs) : p.outcome[jobs[i]] = "unborn"
    PROVE  /\ Agree(RunAll(p, jobs)) /\ Posts(p, RunAll(p, jobs))
           /\ Runs(p, RunAll(p, jobs), ToSet(jobs))
<1>1. Len(jobs) \in Nat /\ DOMAIN jobs = 1..Len(jobs) /\ \A i \in 1..Len(jobs) : jobs[i] \in Job
  OBVIOUS
<1>2. PICK g : /\ g = [k \in 0..Len(jobs) |-> IF k = 0 THEN p ELSE Run(g[k - 1], jobs[k])]
               /\ RunAll(p, jobs) = g[Len(jobs)]
  BY <1>1, RunAllByRuns
<1> DEFINE Ran(k) == {jobs[i] : i \in 1..k}
           Good(k) == Agree(g[k]) /\ Posts(p, g[k]) /\ Runs(p, g[k], Ran(k))
           S == {k \in 0..Len(jobs) : Good(k)}
<1>3. g[0] = p
  BY <1>1, <1>2
<1>4. Good(0)
  BY <1>3 DEF Posts, Runs
<1>5. ASSUME NEW k \in 0..Len(jobs), k < Len(jobs), Good(k)
      PROVE  Good(k + 1)
  <2>1. k + 1 \in 1..Len(jobs) /\ k + 1 \in 0..Len(jobs) /\ k + 1 # 0 /\ (k + 1) - 1 = k
    BY <1>1, <1>5
  <2>2. g[k + 1] = Run(g[k], jobs[k + 1])
    BY <1>2, <2>1
  <2>3. jobs[k + 1] \in Job /\ jobs[k + 1] \notin Ran(k)
    <3>1. \A i \in 1..k : i \in DOMAIN jobs /\ i # k + 1
      BY <1>1, <2>1
    <3> QED
      BY <1>1, <2>1, <3>1 DEF IsInjective
  <2>4. g[k].outcome[jobs[k + 1]] = "unborn"
    BY <1>5, <2>1, <2>3 DEF Runs
  <2>5. /\ Agree(g[k + 1]) /\ Posts(g[k], g[k + 1])
        /\ Runs(g[k], g[k + 1], {jobs[k + 1]})
    BY <1>5, <2>2, <2>3, <2>4, RunAgrees
  <2>6. Posts(p, g[k + 1])
    BY <1>5, <2>5 DEF Posts
  <2>7. Ran(k) \cup {jobs[k + 1]} \subseteq Ran(k + 1)
    <3>1. \A i \in 1..k : i \in 1..(k + 1)
      BY <2>1
    <3>2. k + 1 \in 1..(k + 1)
      BY <2>1
    <3> QED
      BY <3>1, <3>2
  <2>8. Runs(p, g[k + 1], Ran(k + 1))
    <3> HIDE DEF Ran
    <3> QED
      BY <1>5, <2>5, <2>7 DEF Runs
  <2> QED
    BY <2>5, <2>6, <2>8
<1> HIDE DEF Good
<1>6. S = 0..Len(jobs)
  <2>1. 0 \in S /\ \A k \in S : k < Len(jobs) => k + 1 \in S
    BY <1>1, <1>4, <1>5
  <2> QED
    BY <1>1, <2>1, Counting
<1>7. Good(Len(jobs))
  <2>1. Len(jobs) \in S
    BY <1>1, <1>6
  <2> QED
    BY <2>1
<1>8. Ran(Len(jobs)) = ToSet(jobs)
  BY <1>1 DEF ToSet
<1> QED
  <2> HIDE DEF Ran
  <2> QED BY <1>2, <1>7, <1>8 DEF Good

\* A worker that gives up its job, which is settled, leaves a pool that agrees.
LEMMA GivingUpAgrees ==
    ASSUME NEW p, Agree(p), NEW w \in Worker, NEW q \in PoolType,
           NEW how \in {"resolved", "rejected"},
           q.queue = p.queue, q.busy = [p.busy EXCEPT ![w] = NoJob],
           IsInjective(q.idle), ToSet(q.idle) \subseteq ToSet(p.idle) \cup {w},
           \A j \in Job : q.outcome[j] = IF j = p.busy[w] THEN how ELSE p.outcome[j]
    PROVE  Agree(q) /\ Runs(p, q, {})
<1>1. /\ p.busy \in [Worker -> Job \cup {NoJob}] /\ p.idle \in Seq(Worker)
      /\ p.queue \in Seq(Job)
  BY DEF Agree, PoolType
<1>2. \A v \in Worker : q.busy[v] = IF v = w THEN NoJob ELSE p.busy[v]
  BY <1>1
<1>3. ToSet(p.idle) \subseteq Worker /\ ToSet(p.queue) \subseteq Job
  BY <1>1, Elements
<1>4. \A v \in ToSet(q.idle) : q.busy[v] = NoJob
  BY <1>2, <1>3 DEF Agree
<1>5. \A u, v \in Worker : q.busy[u] = q.busy[v] => u = v \/ q.busy[u] = NoJob
  BY <1>2 DEF Agree
<1>6. IsInjective(q.queue) /\ \A v \in Worker : q.busy[v] \notin ToSet(q.queue)
  BY <1>2, <1>3, NoJobIsNone DEF Agree
<1>7. \A j \in Job : q.outcome[j] = "waiting" <=>
                         j \in ToSet(q.queue) \/ \E v \in Worker : q.busy[v] = j
  <2> TAKE j \in Job
  <2>1. CASE j = p.busy[w]
    <3>1. q.outcome[j] # "waiting"
      BY <2>1
    <3>2. j \notin ToSet(q.queue)
      BY <2>1 DEF Agree
    <3>3. \A v \in Worker : q.busy[v] # j
      BY <1>2, <2>1, NoJobIsNone DEF Agree
    <3> QED
      BY <3>1, <3>2, <3>3
  <2>2. CASE j # p.busy[w]
    <3>1. q.outcome[j] = p.outcome[j]
      BY <2>2
    <3>2. (\E v \in Worker : q.busy[v] = j) <=> (\E v \in Worker : p.busy[v] = j)
      BY <1>2, <2>2, NoJobIsNone
    <3> QED
      BY <3>1, <3>2 DEF Agree
  <2> QED
    BY <2>1, <2>2
<1>8. Runs(p, q, {})
  BY DEF Runs, Agree
<1> QED
  BY <1>4, <1>5, <1>6, <1>7, <1>8 DEF Agree

\* A worker answers: its job is resolved, it is idle, and the queue goes on.
LEMMA AnsweredAgrees ==
    ASSUME NEW p, Agree(p), NEW w \in Worker, p.busy[w] # NoJob
    PROVE  LET q == Answered(p, w)
           IN  /\ Agree(q) /\ Runs(p, q, {})
               /\ q.workers = p.workers
               /\ ToSet(q.idle) \subseteq ToSet(p.idle) \cup {w}
               /\ \A v \in Worker : q.busy[v] \notin {p.busy[v], NoJob} =>
                                    v \in ToSet(p.idle) \cup {w}
<1>1. /\ p \in PoolType /\ p.idle \in Seq(Worker)
      /\ p.busy \in [Worker -> Job \cup {NoJob}] /\ p.outcome \in [Job -> Outcome]
  BY DEF Agree, PoolType
<1>2. PICK i : i = Append(p.idle, w)
  OBVIOUS
<1>3. w \notin ToSet(p.idle)
  BY DEF Agree
<1>4. i \in Seq(Worker) /\ IsInjective(i) /\ ToSet(i) = ToSet(p.idle) \cup {w}
  BY <1>1, <1>2, <1>3, AppendToInjective DEF Agree
<1>5. PICK r : r = [p EXCEPT !.busy[w] = NoJob, !.idle = i]
  OBVIOUS
<1>6. Answered(p, w) = Pump(Settle(r, {p.busy[w]}, "resolved"))
  <2>1. Answered(p, w) =
           Pump(Settle([p EXCEPT !.busy[w] = NoJob, !.idle = Append(p.idle, w)],
                       {p.busy[w]}, "resolved"))
    BY Zenon DEF Answered
  <2> QED
    BY <1>2, <1>5, <2>1
<1>7. /\ r.workers = p.workers /\ r.idle = i /\ r.queue = p.queue
      /\ r.busy = [p.busy EXCEPT ![w] = NoJob] /\ r.outcome = p.outcome
  BY <1>1, <1>5 DEF PoolType
<1>8. r \in PoolType
  BY <1>1, <1>4, <1>5 DEF PoolType
<1>9. PICK s \in PoolType :
         /\ Settle(r, {p.busy[w]}, "resolved") = s
         /\ s.workers = r.workers /\ s.idle = r.idle
         /\ s.queue = r.queue /\ s.busy = r.busy
         /\ \A j \in Job : s.outcome[j] = IF j \in {p.busy[w]} /\ r.outcome[j] = "waiting"
                                         THEN "resolved" ELSE r.outcome[j]
  <2>1. "resolved" \in Outcome
    BY DEF Outcome
  <2> QED
    BY <1>8, <2>1, Settling
<1>10. Agree(s) /\ Runs(p, s, {})
  <2>1. \A j \in Job : s.outcome[j] = IF j = p.busy[w] THEN "resolved" ELSE p.outcome[j]
    BY <1>7, <1>9 DEF Agree
  <2>2. /\ s.queue = p.queue /\ s.busy = [p.busy EXCEPT ![w] = NoJob]
        /\ IsInjective(s.idle) /\ ToSet(s.idle) \subseteq ToSet(p.idle) \cup {w}
    BY <1>4, <1>7, <1>9
  <2> QED
    BY <2>1, <2>2, GivingUpAgrees
<1>11. Agree(Pump(s)) /\ Posts(s, Pump(s)) /\ Runs(s, Pump(s), {})
  BY <1>10, PumpAgrees
<1>12. \A v \in Worker : s.busy[v] \in {p.busy[v], NoJob}
  BY <1>1, <1>7, <1>9
<1>13. Runs(p, Pump(s), {})
  BY <1>10, <1>11 DEF Runs
<1> QED
  BY <1>4, <1>6, <1>7, <1>9, <1>11, <1>12, <1>13 DEF Posts

\* A worker fails: it leaves the pool, its job is rejected, and with nobody
\* left so is the queue; nobody but an idle worker of those left gets a job.
LEMMA FailedAgrees ==
    ASSUME NEW p, Agree(p), NEW w \in Worker
    PROVE  LET q == Failed(p, w)
           IN  /\ Agree(q) /\ Runs(p, q, {})
               /\ q.workers = p.workers \ {w}
               /\ ToSet(q.idle) \subseteq ToSet(p.idle) \ {w}
               /\ \A v \in Worker : q.busy[v] \notin {p.busy[v], NoJob} =>
                     v \in ToSet(p.idle) \ {w} /\ p.workers \ {w} # {}
<1>1. /\ p \in PoolType /\ p.idle \in Seq(Worker) /\ p.workers \in SUBSET Worker
      /\ p.busy \in [Worker -> Job \cup {NoJob}] /\ p.outcome \in [Job -> Outcome]
  BY DEF Agree, PoolType
<1>2. PICK i : i = RemoveFirst(p.idle, w)
  OBVIOUS
<1>3. i \in Seq(Worker) /\ IsInjective(i) /\ ToSet(i) = ToSet(p.idle) \ {w}
  BY <1>1, <1>2, RemoveFromInjective DEF Agree
<1>4. PICK b : b = [p EXCEPT !.busy[w] = NoJob]
  OBVIOUS
<1>5. /\ b.workers = p.workers /\ b.idle = p.idle /\ b.queue = p.queue
      /\ b.busy = [p.busy EXCEPT ![w] = NoJob] /\ b.outcome = p.outcome
      /\ b \in PoolType
  BY <1>1, <1>4 DEF PoolType
<1>6. PICK r : r = [b EXCEPT !.workers = p.workers \ {w}, !.idle = i]
  OBVIOUS
<1>7. /\ r.workers = p.workers \ {w} /\ r.idle = i /\ r.queue = p.queue
      /\ r.busy = [p.busy EXCEPT ![w] = NoJob] /\ r.outcome = p.outcome
  BY <1>5, <1>6 DEF PoolType
<1>8. r \in PoolType
  BY <1>1, <1>3, <1>5, <1>6 DEF PoolType
<1>9. Removed(b, w) = r
  <2>1. Removed(b, w) = [b EXCEPT !.workers = b.workers \ {w}, !.idle = RemoveFirst(b.idle, w)]
    BY Zenon DEF Removed
  <2> QED
    BY <1>2, <1>5, <1>6, <2>1
<1>10. "rejected" \in Outcome
  BY DEF Outcome
<1>11. PICK s \in PoolType :
         /\ Settle(r, {p.busy[w]}, "rejected") = s
         /\ s.workers = r.workers /\ s.idle = r.idle
         /\ s.queue = r.queue /\ s.busy = r.busy
         /\ \A j \in Job : s.outcome[j] = IF j \in {p.busy[w]} /\ r.outcome[j] = "waiting"
                                         THEN "rejected" ELSE r.outcome[j]
  BY <1>8, <1>10, Settling
<1>12. Agree(s) /\ Runs(p, s, {})
  <2>1. \A j \in Job : s.outcome[j] = IF j = p.busy[w] THEN "rejected" ELSE p.outcome[j]
    BY <1>7, <1>11 DEF Agree
  <2>2. /\ s.queue = p.queue /\ s.busy = [p.busy EXCEPT ![w] = NoJob]
        /\ IsInjective(s.idle) /\ ToSet(s.idle) \subseteq ToSet(p.idle) \cup {w}
    BY <1>3, <1>7, <1>11
  <2> QED
    BY <2>1, <2>2, GivingUpAgrees
<1>13. \A v \in Worker : s.busy[v] \in {p.busy[v], NoJob}
  BY <1>1, <1>7, <1>11
<1>14. Failed(p, w) = Pump(IF s.workers # {} THEN s
                          ELSE Settle([s EXCEPT !.queue = <<>>], ToSet(s.queue), "rejected"))
  BY <1>4, <1>9, <1>11, Zenon DEF Failed
<1>15. CASE s.workers # {}
  <2>1. Failed(p, w) = Pump(s)
    BY <1>14, <1>15
  <2>2. Agree(Pump(s)) /\ Posts(s, Pump(s)) /\ Runs(s, Pump(s), {})
    BY <1>12, PumpAgrees
  <2>3. Runs(p, Pump(s), {})
    BY <1>12, <2>2 DEF Runs
  <2> QED
    BY <1>3, <1>7, <1>11, <1>13, <1>15, <2>1, <2>2, <2>3 DEF Posts
<1>16. CASE s.workers = {}
  <2>1. PICK e : e = [s EXCEPT !.queue = <<>>]
    OBVIOUS
  <2>2. /\ e \in PoolType /\ e.workers = s.workers /\ e.idle = s.idle
        /\ e.queue = <<>> /\ e.busy = s.busy /\ e.outcome = s.outcome
    <3>1. <<>> \in Seq(Job)
      BY EmptySeq
    <3>2. PICK q : q = <<>>
      OBVIOUS
    <3>3. e = [s EXCEPT !.queue = q] /\ q \in Seq(Job)
      BY <2>1, <3>1, <3>2
    <3>4. /\ e \in PoolType /\ e.workers = s.workers /\ e.idle = s.idle
          /\ e.queue = q /\ e.busy = s.busy /\ e.outcome = s.outcome
      BY <3>3 DEF PoolType
    <3> QED
      BY <3>2, <3>4
  <2>3. PICK t \in PoolType :
           /\ Settle(e, ToSet(s.queue), "rejected") = t
           /\ t.workers = e.workers /\ t.idle = e.idle
           /\ t.queue = e.queue /\ t.busy = e.busy
           /\ \A j \in Job : t.outcome[j] = IF j \in ToSet(s.queue) /\ e.outcome[j] = "waiting"
                                           THEN "rejected" ELSE e.outcome[j]
    BY <1>10, <2>2, Settling
  <2>4. Failed(p, w) = Pump(t)
    BY <1>14, <1>16, <2>1, <2>3
  <2>5. IsInjective(t.queue) /\ ToSet(t.queue) = {}
    BY <2>2, <2>3 DEF ToSet, IsInjective
  <2>6. \A j \in Job : t.outcome[j] = "waiting" <=>
                           j \in ToSet(t.queue) \/ \E v \in Worker : t.busy[v] = j
    BY <1>12, <2>2, <2>3, <2>5 DEF Agree
  <2>7. Agree(t)
    BY <1>12, <2>2, <2>3, <2>5, <2>6 DEF Agree
  <2>8. Pump(t) = t
    BY <2>2, <2>3, <2>7, PumpAgrees
  <2>9. Runs(p, t, {})
    BY <1>12, <2>2, <2>3 DEF Runs, Agree
  <2>10. t.workers = p.workers \ {w} /\ t.idle = i
    BY <1>7, <1>11, <2>2, <2>3
  <2>11. \A v \in Worker : t.busy[v] \in {p.busy[v], NoJob}
    BY <1>13, <2>2, <2>3
  <2>12. Failed(p, w) = t
    BY <2>4, <2>8
  <2> QED
    BY <1>3, <2>7, <2>9, <2>10, <2>11, <2>12
<1> QED
  BY <1>15, <1>16

\* A pool that is destroyed has no workers; nothing else of it changes.
LEMMA DestroyedAgrees ==
    ASSUME NEW p, Agree(p)
    PROVE  LET q == Destroyed(p)
           IN  /\ Agree(q) /\ q.workers = {}
               /\ q.idle = p.idle /\ q.queue = p.queue
               /\ q.busy = p.busy /\ q.outcome = p.outcome
<1>1. p \in PoolType
  BY DEF Agree
<1>2. PICK q : q = Destroyed(p)
  OBVIOUS
<1>3. /\ q \in PoolType /\ q.workers = {}
      /\ q.idle = p.idle /\ q.queue = p.queue
      /\ q.busy = p.busy /\ q.outcome = p.outcome
  BY <1>1, <1>2 DEF Destroyed, PoolType
<1>4. Agree(q)
  BY <1>3 DEF Agree
<1> QED
  BY <1>2, <1>3, <1>4

\* A pool that was just made agrees: every worker is idle, no job was run.
LEMMA FreshAgrees ==
    ASSUME NEW made \in Seq(Worker), IsInjective(made)
    PROVE  LET q == Fresh(made)
           IN  /\ Agree(q) /\ q.workers = ToSet(made) /\ q.idle = made
               /\ \A j \in Job : q.outcome[j] = "unborn"
<1>1. PICK q : q = Fresh(made)
  OBVIOUS
<1>2. ToSet(made) \subseteq Worker
  BY Elements
<1>3. /\ q.workers = ToSet(made) /\ q.idle = made /\ q.queue = <<>>
      /\ q.busy = [w \in Worker |-> NoJob] /\ q.outcome = [j \in Job |-> "unborn"]
      /\ q = [workers |-> ToSet(made), idle |-> made, queue |-> <<>>,
               busy |-> [w \in Worker |-> NoJob], outcome |-> [j \in Job |-> "unborn"]]
  BY <1>1 DEF Fresh
<1>4. q \in PoolType
  BY <1>2, <1>3 DEF PoolType, Outcome
<1>5. ToSet(q.queue) = {} /\ IsInjective(q.queue)
  BY <1>3 DEF ToSet, IsInjective
<1>6. Agree(q)
  BY <1>2, <1>3, <1>4, <1>5, NoJobIsNone DEF Agree
<1> QED
  BY <1>1, <1>3, <1>6

-----------------------------------------------------------------------------
(* The invariant.                                                          *)

(* What the fold of the first n tables comes to.                           *)
FoldOf(n) == FlattenSeq([t \in 1..n |-> Inline(t).entries])
LossyIn(n) == \E t \in 1..n : Inline(t).lossy

DataOK ==
    /\ unpostable \subseteq Job
    /\ content \in [Table -> {"clean", "corrupt", "unreadable"}]
    /\ phase \in {"start", "fold", "extract", "serial", "done"}
    /\ held \in BOOLEAN
    /\ cursor \in 1..(NTables + 1) /\ tables \in Seq(Table) /\ lossy \in BOOLEAN
    /\ rows \in Seq(Chunk) /\ usedPool \in BOOLEAN /\ faults \in 0..MaxFaults

(* While the coordinator uses the pool, a worker that may get a job is     *)
(* alive; no job is run twice; the pool is gone when it is not used.       *)
PoolOK ==
    /\ Agree(pool)
    /\ phase \in {"start", "fold", "extract"} => ToSet(pool.idle) \subseteq pool.workers
    /\ phase = "start" => \A j \in Job : pool.outcome[j] = "unborn"
    /\ phase = "fold" => \A c \in Chunk : pool.outcome[Extract(c)] = "unborn"
    /\ (phase = "start" /\ ~held) \/ phase \in {"serial", "done"} => pool.workers = {}

(* The tables before the cursor are folded, in their canonical order.      *)
FoldOK ==
    /\ phase \in {"start", "fold", "extract"} =>
          tables = FoldOf(cursor - 1) /\ lossy = LossyIn(cursor - 1)
    /\ phase = "start" => cursor = 1
    /\ phase = "extract" => cursor = NTables + 1
    /\ SameAsSerial

IInv == DataOK /\ PoolOK /\ FoldOK

-----------------------------------------------------------------------------
(* The fold of the tables.                                                 *)

\* A worker's reply and the coordinator's own parse come to the same.
LEMMA InlineType ==
    ASSUME DataOK, NEW t \in Table
    PROVE  /\ Inline(t).entries \in Seq(Table) /\ Inline(t).lossy \in BOOLEAN
           /\ Replied(t) = Inline(t)
<1>1. <<t>> \in Seq(Table) /\ <<>> \in Seq(Table)
  OBVIOUS
<1> QED
  BY <1>1 DEF Inline, Replied

\* The number of tables is a number, and the folds are sequences of tables.
LEMMA FoldType ==
    ASSUME DataOK
    PROVE  /\ NTables \in Nat
           /\ \A n \in 0..NTables : FoldOf(n) \in Seq(Table) /\ LossyIn(n) \in BOOLEAN
           /\ \A n \in 0..NTables : n < NTables =>
                 FoldOf(n + 1) = FoldOf(n) \o Inline(n + 1).entries
<1>1. NTables \in Nat
  BY Tables DEF NTables
<1>2. PICK e : e = [t \in 1..NTables |-> Inline(t).entries]
  OBVIOUS
<1>3. e \in [1..NTables -> Seq(Table)]
  BY <1>2, InlineType DEF Table
<1>4. \A n \in 0..NTables : FoldOf(n) = FlattenSeq([t \in 1..n |-> e[t]])
  <2> TAKE n \in 0..NTables
  <2>1. [t \in 1..n |-> Inline(t).entries] = [t \in 1..n |-> e[t]]
    BY <1>1, <1>2
  <2> QED
    BY <2>1 DEF FoldOf
<1>5. \A n \in 0..NTables : FoldOf(n) \in Seq(Table)
  BY <1>1, <1>3, <1>4, FlattenType
<1>6. ASSUME NEW n \in 0..NTables, n < NTables
      PROVE  FoldOf(n + 1) = FoldOf(n) \o Inline(n + 1).entries
  <2>1. n + 1 \in 0..NTables /\ n + 1 \in 1..NTables
    BY <1>1, <1>6
  <2>2. FlattenSeq([t \in 1..(n + 1) |-> e[t]]) = FlattenSeq([t \in 1..n |-> e[t]]) \o e[n + 1]
    BY <1>1, <1>3, <1>6, FlattenOneMore
  <2>3. e[n + 1] = Inline(n + 1).entries
    BY <1>2, <2>1
  <2> QED
    BY <1>4, <2>1, <2>2, <2>3
<1> QED
  BY <1>1, <1>5, <1>6 DEF LossyIn

\* The serial read is the fold of all the tables.
LEMMA SerialIsFold ==
    Serial = [tables |-> FoldOf(NTables), lossy |-> LossyIn(NTables)]
<1>1. PICK read : read = [t \in Table |-> Inline(t)]
  OBVIOUS
<1>2. Serial = [tables |-> FlattenSeq([t \in Table |-> read[t].entries]),
                lossy |-> \E t \in Table : read[t].lossy]
  BY <1>1, Zenon DEF Serial
<1>3. [t \in Table |-> read[t].entries] = [t \in 1..NTables |-> Inline(t).entries]
  BY <1>1 DEF Table
<1>4. (\E t \in Table : read[t].lossy) = LossyIn(NTables)
  BY <1>1 DEF Table, LossyIn
<1>5. FlattenSeq([t \in Table |-> read[t].entries]) = FoldOf(NTables)
  BY <1>3, Zenon DEF FoldOf
<1> QED
  BY <1>2, <1>4, <1>5, Zenon

\* While no file changes, what the tables come to does not either: the fold
\* part of the invariant can be shown of the next state in today's terms.
LEMMA FoldNext ==
    ASSUME content' = content,
           phase' \in {"start", "fold", "extract"} =>
              tables' = FoldOf(cursor' - 1) /\ lossy' = LossyIn(cursor' - 1),
           phase' = "start" => cursor' = 1,
           phase' = "extract" => cursor' = NTables + 1,
           phase' = "done" =>
              tables' = FoldOf(NTables) /\ lossy' = LossyIn(NTables) /\ rows' = Chunks
    PROVE  FoldOK'
<1>1. (FoldOf(cursor - 1))' = FoldOf(cursor' - 1)
  BY Zenon DEF FoldOf, Inline
<1>2. (LossyIn(cursor - 1))' = LossyIn(cursor' - 1)
  BY Zenon DEF LossyIn, Inline
<1>3. Serial' = Serial
  BY Zenon DEF Serial, Inline
<1>4. SameAsSerial'
  BY <1>3, SerialIsFold DEF SameAsSerial, Chunks, Chunk
<1> QED
  BY <1>1, <1>2, <1>4 DEF FoldOK, NTables

-----------------------------------------------------------------------------
(* The jobs.                                                               *)

\* The jobs of different tables and chunks are different.
LEMMA JobFacts ==
    /\ \A t \in Table : Parse(t) \in Job
    /\ \A c \in Chunk : Extract(c) \in Job
    /\ \A t \in Table, c \in Chunk : Parse(t) # Extract(c)
    /\ \A t, u : Parse(t) = Parse(u) => t = u
    /\ \A c, d : Extract(c) = Extract(d) => c = d
BY Jobs DEF Parse, Extract

\* The first tables of the listing can be handed to a pool that ran nothing.
LEMMA DispatchedAgrees ==
    ASSUME Agree(pool), \A j \in Job : pool.outcome[j] = "unborn", NEW n \in 0..NTables
    PROVE  /\ Agree(Dispatched(n)) /\ Posts(pool, Dispatched(n))
           /\ \A c \in Chunk : Dispatched(n).outcome[Extract(c)] = "unborn"
<1>1. NTables \in Nat /\ NTables = Len(Listing) /\ DOMAIN Listing = 1..NTables
  BY Tables DEF NTables
<1>2. \A i \in 1..n : i \in DOMAIN Listing /\ Listing[i] \in Table
  BY <1>1, Tables DEF ToSet
<1>3. PICK jobs : jobs = [i \in 1..n |-> Parse(Listing[i])]
  OBVIOUS
<1>4. /\ jobs \in Seq(Job) /\ Len(jobs) = n /\ DOMAIN jobs = 1..n
      /\ \A i \in 1..n : jobs[i] = Parse(Listing[i]) /\ jobs[i] \in Job
  BY <1>1, <1>2, <1>3, JobFacts
<1>5. IsInjective(jobs)
  BY <1>2, <1>4, JobFacts, Tables DEF IsInjective
<1>6. \A i \in 1..Len(jobs) : pool.outcome[jobs[i]] = "unborn"
  BY <1>4
<1>7. PICK q : q = RunAll(pool, jobs)
  OBVIOUS
<1>8. Agree(q) /\ Posts(pool, q) /\ Runs(pool, q, ToSet(jobs))
  BY <1>4, <1>5, <1>6, <1>7, RunAllAgrees
<1>9. \A c \in Chunk : Extract(c) \in Job \ ToSet(jobs)
  BY <1>2, <1>4, JobFacts DEF ToSet
<1>10. \A c \in Chunk : q.outcome[Extract(c)] = "unborn"
  BY <1>8, <1>9 DEF Runs
<1>11. Dispatched(n) = q
  BY <1>3, <1>7 DEF Dispatched
<1> QED
  BY <1>8, <1>10, <1>11

\* Where the first table that cannot be read stands, if there is one.
LEMMA FirstUnreadableType ==
    FirstUnreadable \in 0..NTables
<1> DEFINE I == {i \in 1..Len(Listing) : content[Listing[i]] = "unreadable"}
<1>1. FirstUnreadable = IF I # {} THEN Min(I) ELSE 0
  BY Zenon DEF FirstUnreadable, SelectInSeq
<1>2. Len(Listing) \in Nat /\ NTables = Len(Listing)
  BY Tables DEF NTables
<1>3. I # {} => Min(I) \in I
  <2>1. I \in SUBSET Nat
    BY <1>2
  <2> HIDE DEF I
  <2>2. I # {} => \E i \in I : \A j \in I : i <= j
    BY <2>1, HasMin
  <2> QED
    BY <2>2 DEF Min
<1> QED
  BY <1>1, <1>2, <1>3

-----------------------------------------------------------------------------
(* The invariant is inductive.                                             *)

\* It holds at the start.
LEMMA InitIInv == Init => IInv
<1> SUFFICES ASSUME Init
             PROVE  IInv
  OBVIOUS
<1>1. NTables \in Nat /\ NChunks \in Nat
  BY Tables, Jobs DEF NTables
<1>2. DataOK
  <2>1. cursor = 1 /\ 1 \in 1..(NTables + 1) /\ faults = 0 /\ 0 \in 0..MaxFaults
    BY <1>1, Faults DEF Init
  <2>2. <<>> \in Seq(Table) /\ <<>> \in Seq(Chunk) /\ tables = <<>> /\ rows = <<>>
    BY EmptySeq DEF Init
  <2>3. unpostable \subseteq Job
    BY DEF Init
  <2>4. /\ content \in [Table -> {"clean", "corrupt", "unreadable"}] /\ held \in BOOLEAN
        /\ phase = "start" /\ lossy = FALSE /\ usedPool = FALSE
    BY DEF Init
  <2> QED
    BY <2>1, <2>2, <2>3, <2>4 DEF DataOK
<1>3. PICK made : made = IF held THEN Made ELSE <<>>
  OBVIOUS
<1>4. made \in Seq(Worker) /\ IsInjective(made) /\ (~held => ToSet(made) = {})
  <2>1. CASE held
    BY <1>3, <2>1, Workers
  <2>2. CASE ~held
    BY <1>3, <2>2 DEF IsInjective, ToSet
  <2> QED
    BY <2>1, <2>2
<1>5. pool = Fresh(made)
  BY <1>3 DEF Init
<1>6. /\ Agree(pool) /\ pool.workers = ToSet(made) /\ pool.idle = made
      /\ \A j \in Job : pool.outcome[j] = "unborn"
  BY <1>4, <1>5, FreshAgrees
<1>7. PoolOK
  BY <1>4, <1>6 DEF Init, PoolOK
<1>8. FoldOK
  <2>1. FoldOf(0) = <<>>
    <3>1. PICK s : s = [t \in 1..0 |-> Inline(t).entries]
      OBVIOUS
    <3>2. s = <<>> /\ Len(s) = 0
      BY <3>1
    <3>3. FlattenSeq(s) = s
      BY <3>2, Zenon DEF FlattenSeq
    <3> QED
      BY <3>1, <3>2, <3>3 DEF FoldOf
  <2>2. LossyIn(0) = FALSE
    BY DEF LossyIn
  <2>3. cursor - 1 = 0
    BY DEF Init
  <2>4. FoldOf(cursor - 1) = <<>> /\ LossyIn(cursor - 1) = FALSE
    BY <2>1, <2>2, <2>3
  <2> QED
    BY <2>4 DEF Init, FoldOK, SameAsSerial
<1> QED
  BY <1>2, <1>7, <1>8 DEF IInv

(* A step gives a job to no worker that was terminated.                    *)
PostsToLiving ==
    \A w \in Worker : pool'.busy[w] \notin {pool.busy[w], NoJob} => w \in pool.workers

\* Every step keeps the invariant, and gives jobs to living workers only.
LEMMA StepIInv ==
    ASSUME IInv, [Next]_vars
    PROVE  IInv' /\ PostsToLiving
<1>1. DataOK /\ PoolOK /\ FoldOK /\ Agree(pool)
  BY DEF IInv, PoolOK
<1>2. /\ NTables \in Nat
      /\ \A n \in 0..NTables : FoldOf(n) \in Seq(Table) /\ LossyIn(n) \in BOOLEAN
      /\ \A n \in 0..NTables : n < NTables =>
            FoldOf(n + 1) = FoldOf(n) \o Inline(n + 1).entries
  BY <1>1, FoldType
<1>3. ToSet(pool.idle) \subseteq Worker
  BY <1>1, Elements DEF Agree, PoolType
<1>4. Chunks \in Seq(Chunk)
  BY Jobs DEF Chunks, Chunk
<1>5. CASE Dispatch
  <2>1. /\ phase = "start" /\ phase' = "fold" /\ pool' = Dispatched(NTables)
        /\ UNCHANGED <<unpostable, content, held, cursor, tables, lossy, rows, usedPool, faults>>
    BY <1>5 DEF Dispatch, snap
  <2>2. /\ Agree(Dispatched(NTables)) /\ Posts(pool, Dispatched(NTables))
        /\ \A c \in Chunk : Dispatched(NTables).outcome[Extract(c)] = "unborn"
    BY <1>1, <1>2, <2>1, DispatchedAgrees DEF PoolOK
  <2>3. DataOK'
    BY <1>1, <2>1 DEF DataOK, NTables
  <2>4. PoolOK'
    BY <1>1, <2>1, <2>2 DEF PoolOK, Posts
  <2>5. FoldOK'
    BY <1>1, <2>1, FoldNext DEF FoldOK
  <2>6. PostsToLiving
    BY <1>1, <2>1, <2>2 DEF PoolOK, Posts, PostsToLiving
  <2> QED
    BY <2>3, <2>4, <2>5, <2>6 DEF IInv
<1>6. CASE DispatchThrows
  <2>1. /\ phase = "start" /\ phase' = "serial"
        /\ pool' = Destroyed(Dispatched(FirstUnreadable - 1)) /\ FirstUnreadable # 0
        /\ UNCHANGED <<unpostable, content, cursor, tables, lossy, rows, usedPool, faults>>
        /\ held' = FALSE
    BY <1>6 DEF DispatchThrows, snap
  <2>2. PICK n \in 0..NTables : n = FirstUnreadable - 1
    BY <1>2, <2>1, FirstUnreadableType
  <2>3. PICK q : q = Dispatched(n)
    OBVIOUS
  <2>4. Agree(q) /\ Posts(pool, q)
    BY <1>1, <2>1, <2>3, DispatchedAgrees DEF PoolOK
  <2>5. Agree(pool') /\ pool'.workers = {} /\ pool'.busy = q.busy
    BY <2>1, <2>2, <2>3, <2>4, DestroyedAgrees
  <2>6. DataOK'
    BY <1>1, <2>1 DEF DataOK, NTables
  <2>7. PoolOK'
    BY <2>1, <2>5 DEF PoolOK
  <2>8. FoldOK'
    BY <2>1, FoldNext
  <2>9. PostsToLiving
    BY <1>1, <2>1, <2>4, <2>5 DEF PoolOK, Posts, PostsToLiving
  <2> QED
    BY <2>6, <2>7, <2>8, <2>9 DEF IInv
<1>7. CASE NoPool
  <2>1. /\ phase = "start" /\ ~held /\ phase' = "serial"
        /\ UNCHANGED <<pool, unpostable, content, held, cursor, tables, lossy, rows,
                       usedPool, faults>>
    BY <1>7 DEF NoPool, snap
  <2>2. DataOK'
    BY <1>1, <2>1 DEF DataOK, NTables
  <2>3. PoolOK'
    BY <1>1, <2>1 DEF PoolOK
  <2>4. FoldOK'
    BY <2>1, FoldNext
  <2>5. PostsToLiving
    BY <2>1 DEF PostsToLiving
  <2> QED
    BY <2>2, <2>3, <2>4, <2>5 DEF IInv
<1>8. CASE Fold
  <2>1. PICK t \in Table :
           /\ phase = "fold" /\ t = cursor /\ cursor' = cursor + 1
           /\ UNCHANGED <<pool, unpostable, content, phase, held, rows, usedPool, faults>>
           /\ tables' = tables \o Inline(t).entries /\ lossy' = (lossy \/ Inline(t).lossy)
    <3>1. PICK t \in NextTable :
             LET res == IF pool.outcome[Parse(t)] = "resolved" THEN Replied(t) ELSE Inline(t)
             IN  tables' = tables \o res.entries /\ lossy' = (lossy \/ res.lossy)
      BY <1>8 DEF Fold
    <3>2. t \in Table /\ t = cursor
      BY <3>1 DEF NextTable
    <3>3. Replied(t) = Inline(t)
      BY <1>1, <3>2, InlineType
    <3>4. tables' = tables \o Inline(t).entries /\ lossy' = (lossy \/ Inline(t).lossy)
      BY <3>1, <3>3
    <3> QED
      BY <1>8, <3>2, <3>4 DEF Fold
  <2>2. /\ Inline(t).entries \in Seq(Table) /\ Inline(t).lossy \in BOOLEAN
        /\ t \in 1..NTables
    BY <1>1, InlineType DEF Table
  <2>3. DataOK'
    <3>1. tables' \in Seq(Table)
      BY <1>1, <2>1, <2>2, ConcatProperties DEF DataOK
    <3>2. cursor' \in 1..(NTables + 1)
      BY <1>2, <2>1, <2>2
    <3>3. lossy' \in BOOLEAN
      BY <1>1, <2>1, <2>2 DEF DataOK
    <3> QED
      BY <1>1, <2>1, <3>1, <3>2, <3>3 DEF DataOK, NTables
  <2>4. PoolOK'
    BY <1>1, <2>1 DEF PoolOK
  <2>5. FoldOK'
    <3>1. tables = FoldOf(t - 1) /\ lossy = LossyIn(t - 1)
      BY <1>1, <2>1 DEF FoldOK
    <3>2. t - 1 \in 0..NTables /\ t - 1 < NTables /\ (t - 1) + 1 = t /\ cursor' - 1 = t
      BY <1>2, <2>1, <2>2
    <3>3. FoldOf(t) = FoldOf(t - 1) \o Inline(t).entries
      BY <1>2, <3>2
    <3>4. LossyIn(t) = (LossyIn(t - 1) \/ Inline(t).lossy)
      <4>1. 1..t = (1..(t - 1)) \cup {t}
        BY <3>2
      <4> QED
        BY <4>1 DEF LossyIn
    <3>5. tables' = FoldOf(cursor' - 1) /\ lossy' = LossyIn(cursor' - 1)
      BY <2>1, <3>1, <3>2, <3>3, <3>4
    <3> QED
      BY <2>1, <3>5, FoldNext
  <2>6. PostsToLiving
    BY <2>1 DEF PostsToLiving
  <2> QED
    BY <2>3, <2>4, <2>5, <2>6 DEF IInv
<1>9. CASE DispatchExtracts
  <2>1. PICK jobs :
           /\ jobs = [c \in Chunk |-> Extract(c)] /\ pool' = RunAll(pool, jobs)
           /\ phase = "fold" /\ cursor > NTables /\ phase' = "extract"
           /\ UNCHANGED <<unpostable, content, held, cursor, tables, lossy, rows, usedPool, faults>>
    BY <1>9 DEF DispatchExtracts, Folded, snap
  <2>2. /\ jobs \in Seq(Job) /\ DOMAIN jobs = Chunk /\ 1..Len(jobs) = Chunk
        /\ \A c \in Chunk : jobs[c] = Extract(c)
    BY <2>1, Jobs, JobFacts DEF Chunk
  <2>3. IsInjective(jobs)
    BY <2>2, JobFacts DEF IsInjective
  <2>4. \A i \in 1..Len(jobs) : pool.outcome[jobs[i]] = "unborn"
    BY <1>1, <2>1, <2>2 DEF PoolOK
  <2>5. Agree(pool') /\ Posts(pool, pool')
    BY <1>1, <2>1, <2>2, <2>3, <2>4, RunAllAgrees
  <2>6. DataOK'
    BY <1>1, <2>1 DEF DataOK, NTables
  <2>7. PoolOK'
    BY <1>1, <2>1, <2>5 DEF PoolOK, Posts
  <2>8. FoldOK'
    <3>1. cursor = NTables + 1
      BY <1>1, <1>2, <2>1 DEF DataOK
    <3> QED
      BY <1>1, <2>1, <3>1, FoldNext DEF FoldOK
  <2>9. PostsToLiving
    BY <1>1, <2>1, <2>5 DEF PoolOK, Posts, PostsToLiving
  <2> QED
    BY <2>6, <2>7, <2>8, <2>9 DEF IInv
<1>10. CASE Build \/ ReExtract
  <2>1. /\ phase = "extract" /\ phase' = "done" /\ pool' = Destroyed(pool)
        /\ UNCHANGED <<unpostable, content, cursor, tables, lossy, faults>>
        /\ held' \in BOOLEAN /\ usedPool' \in BOOLEAN
    BY <1>1, <1>10 DEF Build, ReExtract, snap, DataOK
  <2>2. rows' = Chunks
    <3>1. CASE Build
      <4>1. /\ \A c \in Chunk : pool.outcome[Extract(c)] = "resolved"
            /\ rows' = [c \in {d \in Chunk : pool.outcome[Extract(d)] = "resolved"} |-> c]
        BY <3>1 DEF Build, Extracted
      <4>2. {d \in Chunk : pool.outcome[Extract(d)] = "resolved"} = Chunk
        BY <4>1
      <4> QED
        BY <4>1, <4>2 DEF Chunks
    <3>2. CASE ReExtract
      BY <3>2 DEF ReExtract
    <3> QED
      BY <1>10, <3>1, <3>2
  <2>3. Agree(pool') /\ pool'.workers = {} /\ pool'.busy = pool.busy
    BY <1>1, <2>1, DestroyedAgrees
  <2>4. DataOK'
    BY <1>1, <1>4, <2>1, <2>2 DEF DataOK, NTables
  <2>5. PoolOK'
    BY <2>1, <2>3 DEF PoolOK
  <2>6. FoldOK'
    <3>1. cursor - 1 = NTables
      BY <1>1, <1>2, <2>1 DEF FoldOK
    <3>2. tables = FoldOf(NTables) /\ lossy = LossyIn(NTables)
      BY <1>1, <2>1, <3>1 DEF FoldOK
    <3> QED
      BY <2>1, <2>2, <3>2, FoldNext
  <2>7. PostsToLiving
    BY <2>3 DEF PostsToLiving
  <2> QED
    BY <2>4, <2>5, <2>6, <2>7 DEF IInv
<1>11. CASE BuildSerially
  <2>1. /\ phase = "serial" /\ phase' = "done"
        /\ tables' = Serial.tables /\ lossy' = Serial.lossy /\ cursor' = NTables + 1
        /\ rows' = Chunks
        /\ UNCHANGED <<pool, unpostable, content, held, usedPool, faults>>
    BY <1>11 DEF BuildSerially
  <2>2. tables' = FoldOf(NTables) /\ lossy' = LossyIn(NTables)
    BY <2>1, SerialIsFold
  <2>3. DataOK'
    <3>1. NTables + 1 \in 1..(NTables + 1) /\ NTables \in 0..NTables
      BY <1>2
    <3> QED
      BY <1>1, <1>2, <1>4, <2>1, <2>2, <3>1 DEF DataOK, NTables
  <2>4. PoolOK'
    BY <1>1, <2>1 DEF PoolOK
  <2>5. FoldOK'
    BY <2>1, <2>2, FoldNext
  <2>6. PostsToLiving
    BY <2>1 DEF PostsToLiving
  <2> QED
    BY <2>3, <2>4, <2>5, <2>6 DEF IInv
<1>12. ASSUME NEW w \in Worker, Answer(w)
       PROVE  IInv' /\ PostsToLiving
  <2>1. /\ phase \in {"fold", "extract", "done"} /\ w \in pool.workers /\ pool.busy[w] # NoJob
        /\ pool' = Answered(pool, w)
        /\ UNCHANGED <<unpostable, content, phase, held, cursor, tables, lossy, rows,
                       usedPool, faults>>
    BY <1>12 DEF Answer, Waits, Folded, snap
  <2>2. /\ Agree(pool') /\ Runs(pool, pool', {})
        /\ pool'.workers = pool.workers
        /\ ToSet(pool'.idle) \subseteq ToSet(pool.idle) \cup {w}
        /\ \A v \in Worker : pool'.busy[v] \notin {pool.busy[v], NoJob} =>
                             v \in ToSet(pool.idle) \cup {w}
    BY <1>1, <2>1, AnsweredAgrees
  <2>3. phase \in {"fold", "extract"} /\ ToSet(pool.idle) \subseteq pool.workers
    BY <1>1, <2>1 DEF PoolOK
  <2>4. DataOK'
    BY <1>1, <2>1 DEF DataOK, NTables
  <2>5. \A c \in Chunk : pool.outcome[Extract(c)] = "unborn" => pool'.outcome[Extract(c)] = "unborn"
    BY <2>2, JobFacts DEF Runs
  <2>6. PoolOK'
    BY <1>1, <2>1, <2>2, <2>3, <2>5 DEF PoolOK
  <2>7. FoldOK'
    BY <1>1, <2>1, <2>3, FoldNext DEF FoldOK
  <2>8. PostsToLiving
    BY <2>1, <2>2, <2>3 DEF PostsToLiving
  <2> QED
    BY <2>4, <2>6, <2>7, <2>8 DEF IInv
<1>13. ASSUME NEW w \in Worker, Fail(w)
       PROVE  IInv' /\ PostsToLiving
  <2>1. /\ phase \in {"fold", "extract", "done"} /\ faults < MaxFaults
        /\ pool' = Failed(pool, w) /\ faults' = faults + 1
        /\ UNCHANGED <<unpostable, content, phase, held, cursor, tables, lossy, rows, usedPool>>
    BY <1>13 DEF Fail, Waits, Folded, snap
  <2>2. /\ Agree(pool') /\ Runs(pool, pool', {})
        /\ pool'.workers = pool.workers \ {w}
        /\ ToSet(pool'.idle) \subseteq ToSet(pool.idle) \ {w}
        /\ \A v \in Worker : pool'.busy[v] \notin {pool.busy[v], NoJob} =>
                v \in ToSet(pool.idle) \ {w} /\ pool.workers \ {w} # {}
    BY <1>1, <2>1, FailedAgrees
  <2>3. DataOK'
    <3>1. faults' \in 0..MaxFaults
      BY <1>1, <2>1, Faults DEF DataOK
    <3> QED
      BY <1>1, <2>1, <3>1 DEF DataOK, NTables
  <2>4. \A c \in Chunk : pool.outcome[Extract(c)] = "unborn" => pool'.outcome[Extract(c)] = "unborn"
    BY <2>2, JobFacts DEF Runs
  <2>5. PoolOK'
    BY <1>1, <2>1, <2>2, <2>4 DEF PoolOK
  <2>6. FoldOK'
    <3>1. phase = "done" => tables = FoldOf(NTables) /\ lossy = LossyIn(NTables) /\ rows = Chunks
      BY <1>1, SerialIsFold DEF FoldOK, SameAsSerial
    <3> QED
      BY <1>1, <2>1, <3>1, FoldNext DEF FoldOK
  <2>7. PostsToLiving
    <3>1. phase = "done" => pool.workers = {}
      BY <1>1 DEF PoolOK
    <3>2. phase # "done" => ToSet(pool.idle) \subseteq pool.workers
      BY <1>1, <2>1 DEF PoolOK
    <3> QED
      BY <2>2, <3>1, <3>2 DEF PostsToLiving
  <2> QED
    BY <2>3, <2>5, <2>6, <2>7 DEF IInv
<1>14. CASE UNCHANGED vars
  <2>1. UNCHANGED <<pool, unpostable, content, phase, held, cursor, tables, lossy, rows,
                    usedPool, faults>>
    BY <1>14 DEF vars, snap
  <2>2. DataOK'
    BY <1>1, <2>1 DEF DataOK, NTables
  <2>3. PoolOK'
    BY <1>1, <2>1 DEF PoolOK
  <2>4. FoldOK'
    <3>1. phase = "done" => tables = FoldOf(NTables) /\ lossy = LossyIn(NTables) /\ rows = Chunks
      BY <1>1, SerialIsFold DEF FoldOK, SameAsSerial
    <3> QED
      BY <1>1, <2>1, <3>1, FoldNext DEF FoldOK
  <2>5. PostsToLiving
    BY <2>1 DEF PostsToLiving
  <2> QED
    BY <2>2, <2>3, <2>4, <2>5 DEF IInv
<1> QED
  BY <1>5, <1>6, <1>7, <1>8, <1>9, <1>10, <1>11, <1>12, <1>13, <1>14 DEF Next, Coordinator

-----------------------------------------------------------------------------
(* The theorems.                                                           *)

\* The invariant of the parallel build holds in every state.
THEOREM Inductive == Spec => []IInv
<1>1. IInv /\ [Next]_vars => IInv'
  BY StepIInv
<1> QED
  BY InitIInv, <1>1, PTL DEF Spec

\* Every variable keeps its type, and a worker is idle or busy, never both,
\* with a job of its own.
THEOREM TypeCorrect == Spec => []TypeOK
<1>1. IInv => TypeOK
  BY DEF IInv, DataOK, PoolOK, Agree, TypeOK
<1> QED
  BY Inductive, <1>1, PTL

\* No call of run is forgotten: a job that waits is in the queue or with a
\* worker, whichever workers fail and whatever cannot be posted.
THEOREM NoJobIsLostCorrect == Spec => []NoJobIsLost
<1>1. IInv => NoJobIsLost
  BY DEF IInv, PoolOK, Agree, NoJobIsLost
<1> QED
  BY Inductive, <1>1, PTL

\* The store is the one of a serial build, in whatever order workers answer.
THEOREM SameAsSerialCorrect == Spec => []SameAsSerial
<1>1. IInv => SameAsSerial
  BY DEF IInv, FoldOK
<1> QED
  BY Inductive, <1>1, PTL

\* No worker is left running when the coordinator works alone or has returned.
THEOREM NoStragglersCorrect == Spec => []NoStragglers
<1>1. IInv => NoStragglers
  BY DEF IInv, PoolOK, NoStragglers
<1> QED
  BY Inductive, <1>1, PTL

\* No job is posted to a worker that was terminated.
THEOREM NeverReusedCorrect == Spec => NeverReused
<1>1. IInv /\ [Next]_vars =>
         [\A w \in Worker :
            pool'.busy[w] \notin {pool.busy[w], NoJob} => w \in pool.workers]_vars
  BY StepIInv DEF PostsToLiving
<1> QED
  BY Inductive, <1>1, PTL DEF Spec, NeverReused
=============================================================================
