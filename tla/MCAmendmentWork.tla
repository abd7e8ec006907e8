-------------------------- MODULE MCAmendmentWork --------------------------
(* AmendmentWork for TLC.                                                  *)
EXTENDS AmendmentWork, TLC

CONSTANTS old, new, one, two, link

\* "one" and "link" refer to clause 1 and "two" to clause 2; "link" states no duty.
Pointers == old :> {} @@ new :> {} @@ one :> {1} @@ link :> {1} @@ two :> {2}

\* Clause 1 changed, with clause 3 two references away; clause 1 renumbered to 3;
\* clause 1 removed and another clause added; clause 1 changed and a clause added
\* that refers to it, so that a rule made from it is also one to read again.
Amendments ==
  {<<<<old, link, two>>, <<new, link, two>>>>,
   <<<<old, one, Gone>>, <<Gone, one, old>>>>,
   <<<<old, Gone, Gone>>, <<Gone, Gone, one>>>>,
   <<<<old, Gone, Gone>>, <<new, one, Gone>>>>}

Symmetry == Permutations(Threads)
=============================================================================
