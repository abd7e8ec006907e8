-------------------------- MODULE MCEvidenceReview --------------------------
(* EvidenceReview for TLC: a rule that is amended once, and documents that *)
(* say of it what they can.                                                *)
EXTENDS EvidenceReview, TLC

CONSTANTS d1, t1, t2

Row(column, text, day, filed, ref) ==
  [column |-> column, text |-> text, day |-> day, filed |-> filed, ref |-> ref]

\* An occasion not filed for, the same filed for late and in time, a line of a
\* report that names no rule, and a workbook row with one date.
Unfiled == Row(d1, {d1}, 1, None, FALSE)
Late    == Row(d1, {d1}, 1, 3, FALSE)
Early   == Row(d1, {d1}, 1, 1, TRUE)
Line    == Row(None, {}, 2, None, TRUE)
OneDate == Row(None, {d1}, None, 2, FALSE)
Unknown == Row(Other, {d1}, 1, 1, FALSE)

Documents ==
  {[fmt |-> "csv", rows |-> <<Unfiled>>], [fmt |-> "csv", rows |-> <<Unknown>>],
   [fmt |-> "json", rows |-> <<Late, Early>>],
   [fmt |-> "xlsx", rows |-> <<OneDate>>], [fmt |-> "pdf", rows |-> <<Line>>]}
Terms == <<1, 0>>
Alike == Permutations(Threads)
=============================================================================
