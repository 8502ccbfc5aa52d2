------------------------------ MODULE MCIngest ------------------------------
(* A small instance of Ingest.  Two contents: a text by somebody else, and *)
(* a later version that the user sent and that has no text of its own      *)
(* (an attachment, say), so is_mine, the version guard and the index's     *)
(* filter all have something to tell apart.                                *)
EXTENDS Ingest, TLC

CONSTANTS text1, mine2, a, b, t1, t2

MCContent == {text1, mine2}
MCVersion == (text1 :> 1) @@ (mine2 :> 2)
MCSearchable == {text1}
MCSent == {mine2}
Symmetry == Permutations({a, b}) \cup Permutations({t1, t2})
=============================================================================
