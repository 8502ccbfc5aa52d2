---------------------------- MODULE ServedState ----------------------------
(***************************************************************************)
(* What a session promises: every answer is given from one state that the  *)
(* source really went through, and never from an older one than the answer *)
(* before.  Until a first whole read succeeds the answer may be partial:   *)
(* some of the records ever put.                                           *)
(***************************************************************************)
EXTENDS Naturals, FiniteSets

CONSTANTS
    Key,         \* the record keys of the source
    MaxWrites    \* bound: how many writes the source sees

VARIABLES
    hist,    \* every write so far: a set of records
    grade,   \* what is served: "nothing", a "partial" or a "whole" state
    asOf,    \* the write the served state is as of
    answer   \* the records served

vars == <<hist, grade, asOf, answer>>

Record == [key : Key, seq : 1..MaxWrites, put : BOOLEAN]

\* The newest record of every key among rs, and those of them that are live.
Newest(rs) == {r \in rs : \A s \in rs : s.key = r.key => s.seq <= r.seq}
Puts(rs) == {r \in rs : r.put}

\* The live records after the first n writes of history h.
StateAt(h, n) == Puts(Newest({r \in h : r.seq <= n}))

Init ==
    /\ hist = {} \/ \E k \in Key : hist = {[key |-> k, seq |-> 1, put |-> TRUE]}
    /\ grade = "nothing" /\ asOf = 0 /\ answer = {}

Write ==
    /\ Cardinality(hist) < MaxWrites
    /\ \E k \in Key, p \in BOOLEAN :
          hist' = hist \cup {[key |-> k, seq |-> Cardinality(hist) + 1, put |-> p]}
    /\ UNCHANGED <<grade, asOf, answer>>

Refresh ==
    /\ grade' = "whole"
    /\ asOf' \in asOf..Cardinality(hist)
    /\ answer' = StateAt(hist, asOf')
    /\ UNCHANGED hist

RefreshPartially ==
    /\ grade # "whole" /\ grade' = "partial"
    /\ asOf' \in asOf..Cardinality(hist)
    /\ answer' \in SUBSET Puts(hist)
    /\ UNCHANGED hist

Next == Write \/ Refresh \/ RefreshPartially

Spec == Init /\ [][Next]_vars
=============================================================================
