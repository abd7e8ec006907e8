---------------------------- MODULE MCExtraction ----------------------------
(***************************************************************************)
(* Circulars of up to MaxLines lines of every shape; circulars of one      *)
(* clause of every short text, and of every text around a plain duty; and  *)
(* a few for the model to read.                                            *)
(***************************************************************************)
EXTENDS Extraction

CONSTANTS MaxLines, MaxWords

Plain == <<"broker", "shall", "report">>
L(kind, num, x, bold, top) ==
  [kind |-> kind, num |-> num, x |-> x, bold |-> bold, body |-> TRUE, top |-> top, words |-> Plain]

\* Headings, clauses and sentences that start with a number; items; the parts
\* after the body, some of them on a page of their own.
LineShapes ==
  {L("numbered", <<1>>, 0, TRUE, FALSE), L("numbered", <<2>>, 0, TRUE, TRUE),
   L("numbered", <<1, 1>>, 1, FALSE, FALSE), L("numbered", <<1, 1>>, 3, FALSE, FALSE),
   L("numbered", <<1, 2>>, 1, FALSE, FALSE), L("numbered", <<1, 1, 1>>, 2, FALSE, FALSE),
   L("numbered", <<1>>, 9, FALSE, FALSE), L("numbered", <<2>>, 8, FALSE, FALSE),
   L("item", <<1>>, 2, FALSE, FALSE), L("text", <<>>, 3, FALSE, FALSE),
   L("annexure", <<1>>, 0, TRUE, TRUE), L("banner", <<>>, 0, TRUE, TRUE),
   L("appendix", <<>>, 0, TRUE, TRUE), L("appendix", <<>>, 0, TRUE, FALSE)}
Contents == L("toc", <<>>, 0, TRUE, FALSE)
Structures == UNION {[1..k -> LineShapes] : k \in 1..MaxLines}
  \union {<<Contents>> \o d : d \in UNION {[1..k -> LineShapes] : k \in 1..MaxLines - 1}}

Phrases == {"broker", "exchange", "to the broker", "by the broker", "shall", "shall not", "may", "shall mean", "report",
            "within 2 working days", "within 7 days", "within 24 hours", "half yearly", "monthly",
            "unless exempted", "if so", "upon receipt of the notice", "more than 5 percent"}
Words(k) == UNION {[1..j -> Phrases] : j \in 0..k}
Around == {a \o Plain \o b : a \in Words(1), b \in Words(MaxWords)}
Texts == {<<[L("numbered", <<1>>, 0, TRUE, FALSE) EXCEPT !.words = <<>>],
            [L("numbered", <<1, 1>>, 1, FALSE, FALSE) EXCEPT !.words = t]>> :
            t \in Words(3) \union Around}
ForTheModel == {<<[L("numbered", <<1>>, 0, TRUE, FALSE) EXCEPT !.words = t]>> :
            t \in {<<"broker", "shall", "within 2 working days">>, <<"broker", "shall", "within 7 days">>,
                   <<"may", "within 7 days", "shall", "within 2 working days">>}}

MCDocuments == Structures \union Texts \union ForTheModel
MCInit == CompileInit /\ (engine = "llm" <=> document \in ForTheModel)
MCSpec == MCInit /\ [][CompileNext]_compileVars
=============================================================================
