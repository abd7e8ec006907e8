-------------------------- MODULE MCRulebookStore --------------------------
(* RulebookStore for TLC: the .cfg files give its constants their values.  *)
EXTENDS RulebookStore

\* Officers run the same code, and a Workbench is only an address.
Symmetry == Permutations(Officers) \cup Permutations(Benches)
=============================================================================
