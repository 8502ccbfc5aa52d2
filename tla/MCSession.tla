----------------------------- MODULE MCSession -----------------------------
(* A small instance of Session.                                            *)
EXTENDS Session, TLC

KeySymmetry == Permutations(Key)
=============================================================================
