------------------------ MODULE MCRemediationTasks ------------------------
(* RemediationTasks for TLC.                                               *)
EXTENDS RemediationTasks, TLC

CONSTANTS r1, e1

\* One rule and one occasion of it, due tomorrow.
OneRule == e1 :> r1
DueTomorrow == e1 :> 1

Symmetry == Permutations(Threads)
=============================================================================
