----------------------------- MODULE MCParallel -----------------------------
(* A small instance of ParallelBuild.                                      *)
EXTENDS ParallelBuild

CONSTANTS w1, w2

MCMade == <<w1, w2>>
MCListing == <<2, 3, 1>>
MCJob == ({"parse"} \X (1..3)) \cup ({"extract"} \X (1..2))
=============================================================================
