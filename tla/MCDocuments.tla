---------------------------- MODULE MCDocuments ----------------------------
(* Documents for TLC: two people, two documents that do not both fit.       *)
EXTENDS Documents, TLC

CONSTANTS p1, p2, d1, d2, t1, t2

Sizes == (d1 :> 2) @@ (d2 :> 1)
Alike == Permutations(Callers) \cup Permutations(Threads)
=============================================================================
