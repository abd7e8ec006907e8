---------------------------- MODULE MCFirmFiles ----------------------------
(* FirmFiles for TLC: two people, two requests at a time.                  *)
EXTENDS FirmFiles, TLC

CONSTANTS p1, p2, t1, t2

Alike == Permutations(People) \cup Permutations(Tabs)
=============================================================================
