----------------------------- MODULE ClauseTree -----------------------------
(***************************************************************************)
(* Reading a circular into clauses: parse/clause_tree.py over the lines    *)
(* parse/layout.py gives it.                                               *)
(*                                                                         *)
(* A document is a sequence of lines.  What the recognisers would match in *)
(* a line's text is its kind and number; its typography is kept.  An id is *)
(* the sequence of the marks its text is made of, so that ids are equal    *)
(* exactly when the strings are.                                           *)
(***************************************************************************)
EXTENDS Integers, SequencesExt, FiniteSetsExt

CONSTANTS
  Documents,          \* the documents that may be brought
  SectionMaxX,        \* _SECTION_MAX_X0
  SectionMarginBand,  \* _SECTION_MARGIN_BAND
  FlatTolerance       \* _FLAT_MARGIN_TOLERANCE

ASSUME ClauseTreeAssumption ==
  /\ \A d \in Documents : d \in Seq([
        kind : {"text", "numbered", "item", "toc", "banner", "annexure", "appendix"},
        num : Seq(Nat), x : Nat, bold : BOOLEAN, body : BOOLEAN, top : BOOLEAN,
        words : Seq(STRING)])
  /\ {SectionMaxX, SectionMarginBand, FlatTolerance} \subseteq Nat

\* Numbers have one to three digits (_NUMBERED_RE, _ANNEXURE_HEAD_RE), and a
\* circular counts from one.
ASSUME NumberAssumption ==
  \A d \in Documents : \A i \in DOMAIN d :
    /\ d[i].kind \in {"numbered", "annexure", "item"} => d[i].num # <<>>
    /\ d[i].num # <<>> => d[i].num[1] \in 1..999

VARIABLES
  document,   \* the lines, in reading order; `top` where one starts a page
  regions,    \* what is decided over the whole document before it is read
  at,         \* the next line
  phase,      \* "brought", "reading", "flat", then "read"
  nodes,      \* ClauseTree.nodes, in the order they were opened
  builder,    \* the _Builder
  annexure,   \* the annexure being read, 0 before the first
  appendix    \* whether the appendix was opened

treeVars == <<document, regions, at, phase, nodes, builder, annexure, appendix>>

Page(i) == 1 + Cardinality({j \in 1..i : document[j].top})
Pages == {Page(i) : i \in DOMAIN document}
OnPage(p) == {i \in DOMAIN document : Page(i) = p}
NoPage == Len(document) + 2
Earliest(pages) == IF pages = {} THEN NoPage ELSE Min(pages)

-----------------------------------------------------------------------------
(* What is decided over the whole document before a node is opened.        *)

\* _section_ceiling, from the 5th percentile of the indents.
Ceiling ==
  LET body == {i \in DOMAIN document : document[i].body}
      upTo(v) == Cardinality({i \in body : document[i].x <= v})
      margin == Min({v \in {document[i].x : i \in body} : upTo(v) > Cardinality(body) \div 20})
  IN  IF body = {} THEN SectionMaxX ELSE Max({SectionMaxX, margin + SectionMarginBand})

IsHeading(i) ==
  /\ document[i].kind = "numbered" /\ Len(document[i].num) = 1
  /\ document[i].body /\ document[i].bold /\ document[i].x <= Ceiling

\* _find_regions.  The contents are the pages before the body, if there are any.
TocStart == Earliest({p \in Pages : \E i \in OnPage(p) : document[i].kind = "toc"})
BodyStart ==
  LET toc == TocStart
      headed == {p \in Pages : (toc = NoPage \/ p > toc) /\ \E i \in OnPage(p) : IsHeading(i)}
  IN  IF headed = {} THEN 1 ELSE Min(headed)
AnnexureStart ==
  LET after == BodyStart
  IN  Earliest({p \in Pages : p > after /\
        LET first == document[Min(OnPage(p))] IN first.bold /\ first.kind \in {"banner", "annexure"}})
AppendixStart ==
  LET after == BodyStart
  IN  Earliest({p \in Pages : p > after /\
        \E i \in OnPage(p) : document[i].bold /\ document[i].kind = "appendix"})

\* The lines of the body that open with a number.
Candidates ==
  LET from == BodyStart
      before == AnnexureStart
  IN  {i \in DOMAIN document : document[i].kind = "numbered" /\ document[i].body
                                 /\ from <= Page(i) /\ Page(i) < before}

\* Mutant: the first line that opens with a number is its clause.
DefinesFirst(i, among) == \A j \in among : document[j].num = document[i].num => i <= j

\* _choose_definitions: of the lines opening with a number, the leftmost, then
\* the earliest, is the clause and the others are cross-references to it.
Defines(i, among) == \A j \in among : document[j].num = document[i].num =>
  (document[i].x < document[j].x \/ (document[i].x = document[j].x /\ i <= j))

Regions ==
  [ceiling |-> Ceiling, body |-> BodyStart, annexure |-> AnnexureStart, appendix |-> AppendixStart,
   page |-> [i \in DOMAIN document |-> Page(i)],
   definitions |-> LET among == Candidates IN {i \in among : Defines(i, among)}]

-----------------------------------------------------------------------------
(* The builder.                                                            *)

\* Marks that are not numbers of the circular: "L", "(a)", "ANX-1", "APX", "#2".
ListMark == 1000
ItemMark == 2000
AnnexureMark == 3000
AppendixMark == 4000
CopyMark == 5000

NewBuilder == [current |-> 0, stack |-> <<>>, section |-> <<>>, prefix |-> <<>>,
               lastSection |-> 0, listAnchor |-> 0, flat |-> FALSE, highest |-> 0]

Line == document[at]
InAppendix == regions.page[at] >= regions.appendix
InAnnexures == regions.page[at] >= regions.annexure

\* _unique: an id taken gets the first free suffix, "#2" and so on.
Unique(id) ==
  LET taken == {nodes[n].id : n \in DOMAIN nodes}
      free == {k \in 2..Len(nodes) + 1 : Append(id, CopyMark + k) \notin taken}
  IN  IF id \notin taken THEN id ELSE Append(id, CopyMark + Min(free))

\* The builder goes on as b, with a node opened at this line.
Opens(id, kind, depth, parent, b) ==
  /\ nodes' = Append(nodes, [id |-> Unique(id), kind |-> kind, depth |-> depth,
       parent |-> parent, section |-> b.section, lines |-> <<at>>])
  /\ builder' = [b EXCEPT !.current = Len(nodes) + 1]
  /\ at' = at + 1 /\ UNCHANGED <<document, regions, phase>>

\* Mutant: a line that could not be placed ends the clause before it.
AppendsAndCloses(b) ==
  /\ nodes' = IF b.current = 0 THEN nodes ELSE [nodes EXCEPT ![b.current].lines = Append(@, at)]
  /\ builder' = [b EXCEPT !.current = 0]
  /\ at' = at + 1 /\ UNCHANGED <<document, regions, phase, annexure, appendix>>

Appends(b) ==
  /\ nodes' = IF b.current = 0 THEN nodes ELSE [nodes EXCEPT ![b.current].lines = Append(@, at)]
  /\ builder' = b
  /\ at' = at + 1 /\ UNCHANGED <<document, regions, phase, annexure, appendix>>

Passes == at' = at + 1 /\ UNCHANGED <<document, regions, phase, nodes, builder, annexure, appendix>>

\* Mutant: a node of the same level stays on the stack.
PoppedSiblings(depth) == SubSeq(builder.stack, 1,
  Max({0} \union {k \in DOMAIN builder.stack : nodes[builder.stack[k]].depth <= depth}))

\* parent_for: the stack, popped until it holds a shallower node.
Popped(depth) == SubSeq(builder.stack, 1,
  Max({0} \union {k \in DOMAIN builder.stack : nodes[builder.stack[k]].depth < depth}))
Top(stack) == IF stack = <<>> THEN 0 ELSE Last(stack)
IdOf(n) == IF n = 0 THEN builder.section ELSE nodes[n].id

-----------------------------------------------------------------------------
(* parse_clause_tree, one line at a time.                                  *)

\* What parse_clause_tree settles before it walks the lines.
FindRegions ==
  /\ phase = "brought" /\ phase' = "reading" /\ regions' = Regions
  /\ UNCHANGED <<document, at, nodes, builder, annexure, appendix>>

Reading == phase = "reading" /\ at <= Len(document)

\* The contents, and whatever else comes before the body.
SkipFront == Reading /\ regions.page[at] < regions.body /\ Passes

InBody == Reading /\ regions.page[at] >= regions.body

OpenAppendix ==
  /\ InBody /\ InAppendix /\ ~appendix /\ Line.kind = "appendix" /\ Line.bold
  /\ Opens(<<AppendixMark>>, "APPENDIX", 0, 0, [builder EXCEPT
       !.section = <<AppendixMark>>, !.stack = <<>>, !.prefix = <<AppendixMark>>])
  /\ appendix' = TRUE /\ UNCHANGED annexure

\* What stands on the appendix's first page above its heading is passed over.
AppendixLine ==
  /\ InBody /\ InAppendix /\ ~(~appendix /\ Line.kind = "appendix" /\ Line.bold)
  /\ IF appendix THEN Appends(builder) ELSE Passes

OpenAnnexure ==
  /\ InBody /\ ~InAppendix /\ InAnnexures /\ Line.kind = "annexure" /\ Line.bold
  /\ LET id == <<AnnexureMark + Line.num[1]>>
     IN  Opens(id, "ANNEXURE", 0, 0, [builder EXCEPT
           !.section = id, !.stack = <<>>, !.prefix = id, !.listAnchor = 0])
  /\ annexure' = Len(nodes) + 1 /\ UNCHANGED appendix

AnnexureBanner ==
  InBody /\ ~InAppendix /\ InAnnexures /\ Line.kind = "banner" /\ Line.bold /\ Passes

BeforeAnnexures ==
  /\ InBody /\ ~InAppendix /\ InAnnexures /\ annexure = 0
  /\ ~(Line.kind \in {"annexure", "banner"} /\ Line.bold)
  /\ Appends(builder)

\* What is left is read as numbered text, an item or a continuation.
InText == InBody /\ ~InAppendix /\
  (InAnnexures => annexure # 0 /\ ~(Line.kind \in {"annexure", "banner"} /\ Line.bold))
LooksLikeSection ==
  /\ ~InAnnexures /\ Line.kind = "numbered" /\ Len(Line.num) = 1
  /\ Line.body /\ Line.bold /\ Line.x <= regions.ceiling

OpenSection ==
  /\ InText /\ LooksLikeSection /\ Line.num[1] > builder.lastSection
  /\ LET b == [builder EXCEPT !.section = Line.num, !.prefix = <<>>, !.lastSection = Line.num[1]]
     IN  Opens(Line.num, "SECTION", 1, 0, [b EXCEPT !.stack = <<Len(nodes) + 1>>])
  /\ UNCHANGED <<annexure, appendix>>

\* A bold "1." after section 16 is a list that starts anew inside the section.
OpenLocalList ==
  /\ InText /\ LooksLikeSection /\ Line.num[1] <= builder.lastSection
  /\ Opens(Append(builder.section, ListMark + Line.num[1]), "CLAUSE", 2,
       IF builder.stack = <<>> THEN 0 ELSE Head(builder.stack),
       [builder EXCEPT !.prefix = Append(builder.section, ListMark)])
  /\ UNCHANGED <<annexure, appendix>>

IsClauseLine ==
  /\ InText /\ ~LooksLikeSection /\ Line.kind = "numbered" /\ Line.body
  /\ Len(Line.num) >= 2 \/ InAnnexures

OpenClause ==
  /\ IsClauseLine /\ ~InAnnexures /\ at \in regions.definitions
  /\ LET depth == Len(Line.num)
         stack == Popped(depth)
     IN  Opens(builder.prefix \o Line.num, IF depth = 2 THEN "CLAUSE" ELSE "SUBCLAUSE",
           depth, Top(stack), [builder EXCEPT !.stack = Append(stack, Len(nodes) + 1)])
  /\ UNCHANGED <<annexure, appendix>>

\* A sentence that wraps at a number.  The stack has been popped by then.
CrossReference ==
  /\ IsClauseLine /\ ~InAnnexures /\ at \notin regions.definitions
  /\ Appends([builder EXCEPT !.stack = Popped(Len(Line.num))])

\* Numbering starts anew under every sub-head of an annexure, and is scoped to it.
OpenAnnexureClause ==
  /\ IsClauseLine /\ InAnnexures
  /\ LET depth == Len(Line.num)
         stack == Popped(depth)
         anchor == IF builder.listAnchor # 0 THEN builder.listAnchor ELSE annexure
         above == IF stack = <<>> THEN annexure ELSE Last(stack)
     IN  Opens(nodes[anchor].id \o Line.num, IF depth = 1 THEN "CLAUSE" ELSE "SUBCLAUSE",
           depth, IF depth = 1 THEN anchor ELSE above,
           [builder EXCEPT !.stack = Append(stack, Len(nodes) + 1)])
  /\ UNCHANGED <<annexure, appendix>>

IsItemLine == InText /\ Line.kind = "item" /\ Line.body /\ builder.current # 0

OpenItem ==
  /\ IsItemLine
  /\ LET anchor == Top(builder.stack)
     IN  Opens(Append(IdOf(anchor), ItemMark + Line.num[1]), "ITEM",
           IF anchor = 0 THEN 1 ELSE nodes[anchor].depth + 1, anchor,
           [builder EXCEPT !.listAnchor = IF InAnnexures THEN Len(nodes) + 1 ELSE @])
  /\ UNCHANGED <<annexure, appendix>>

Continue ==
  /\ InText /\ ~LooksLikeSection /\ ~IsClauseLine /\ ~IsItemLine
  /\ Appends(builder)

-----------------------------------------------------------------------------
(* A circular without headings is read again, as a flat list: _parse_flat. *)

FlatStarts == {i \in DOMAIN document : document[i].body /\ document[i].kind = "numbered"}
FlatMargin == Min({document[i].x : i \in FlatStarts})
HasNumberedNode == \E n \in DOMAIN nodes : nodes[n].kind \in {"SECTION", "CLAUSE", "SUBCLAUSE"}

EndOfReading ==
  /\ phase = "reading" /\ at > Len(document)
  /\ IF HasNumberedNode \/ FlatStarts = {}
     THEN phase' = "read" /\ builder' = [builder EXCEPT !.current = 0] /\ UNCHANGED at
     ELSE phase' = "flat" /\ builder' = [NewBuilder EXCEPT !.flat = TRUE] /\ at' = 1
  /\ UNCHANGED <<document, regions, nodes, annexure, appendix>>

OpensFlat ==
  /\ Line.kind = "numbered" /\ Len(Line.num) = 1
  /\ Line.x - FlatMargin <= FlatTolerance /\ Line.num[1] > builder.highest

FlatLine ==
  /\ phase = "flat" /\ at <= Len(document)
  /\ IF ~Line.body THEN Passes
     ELSE IF OpensFlat
     THEN /\ Opens(Line.num, "CLAUSE", 1, 0, [builder EXCEPT !.highest = Line.num[1]])
          /\ UNCHANGED <<annexure, appendix>>
     ELSE Appends(builder)

EndOfFlat ==
  /\ phase = "flat" /\ at > Len(document)
  /\ phase' = "read" /\ builder' = [builder EXCEPT !.current = 0]
  /\ UNCHANGED <<document, regions, at, nodes, annexure, appendix>>

-----------------------------------------------------------------------------
TreeInit ==
  /\ document \in Documents /\ regions = <<>> /\ at = 1 /\ phase = "brought"
  /\ nodes = <<>> /\ builder = NewBuilder /\ annexure = 0 /\ appendix = FALSE

TreeNext ==
  \/ FindRegions \/ SkipFront \/ OpenAppendix \/ AppendixLine \/ OpenAnnexure \/ AnnexureBanner \/ BeforeAnnexures
  \/ OpenSection \/ OpenLocalList \/ OpenClause \/ CrossReference \/ OpenAnnexureClause
  \/ OpenItem \/ Continue \/ EndOfReading \/ FlatLine \/ EndOfFlat

-----------------------------------------------------------------------------
(* Properties of a document that was read.                                 *)

OfAnnexure(n) == nodes[n].section # <<>> /\ nodes[n].section[1] \in AnnexureMark..AppendixMark - 1
Read == phase \notin {"brought", "reading", "flat"}
NodesWith(i) == {n \in DOMAIN nodes : \E k \in DOMAIN nodes[n].lines : nodes[n].lines[k] = i}
\* Passed over: the divider of the annexures, and what stands above the heading
\* of the appendix on its page.
PassedOver(i) ==
  \/ document[i].kind = "banner" /\ document[i].bold /\ regions.page[i] >= regions.annexure
  \/ regions.page[i] = regions.appendix /\ \A j \in OnPage(Page(i)) :
       document[j].kind = "appendix" /\ document[j].bold => i < j

\* From the first clause on, every line of a circular is in the text of one
\* clause and of no other, and the clauses follow one another in its order
\* (clause_tree.py:20-29: the text a clause's hash covers is the regulation's own).
NothingIsLost == Read /\ ~builder.flat =>
  /\ \A i \in DOMAIN document : nodes # <<>> /\ i >= nodes[1].lines[1] /\ ~PassedOver(i) =>
        Cardinality(NodesWith(i)) = 1
  /\ \A n, m \in DOMAIN nodes : n < m => Last(nodes[n].lines) < nodes[m].lines[1]

\* A dotted number printed in the body opens one clause, however often sentences
\* cite it, and no line that cites it is printed further left
\* (clause_tree.py:358-380).  A number also printed in the appendix is left out:
\* there the clause may be lost to it.
DefinedOnce == Read /\ ~builder.flat =>
  LET opened(i) == \E n \in DOMAIN nodes : nodes[n].lines[1] = i
      body == {i \in Candidates : Len(document[i].num) > 1}
  IN  \A i \in body :
        LET same == {j \in body : document[j].num = document[i].num}
            clauses == {j \in same : opened(j)}
        IN  (\A j \in same : regions.page[j] < regions.appendix) =>
              /\ Cardinality(clauses) = 1
              /\ \A j \in same, c \in clauses : document[c].x <= document[j].x

\* A clause hangs on one opened before it, of its own section and, outside
\* annexures, of a shallower level: the tree is walked and signed as one.
TreeIsSound == Read => \A n \in DOMAIN nodes :
  LET p == nodes[n].parent IN p # 0 =>
    /\ p < n /\ nodes[p].section = nodes[n].section
    /\ ~OfAnnexure(n) => nodes[p].depth < nodes[n].depth
=============================================================================
