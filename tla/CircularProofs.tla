--------------------------- MODULE CircularProofs ---------------------------
(***************************************************************************)
(* Theorems about circulars.  First the reading of one into clauses, for   *)
(* every document: one invariant of the walk says what the stack, the      *)
(* parts and the text look like before every line.  Then what is extracted *)
(* from the clauses, for texts of any length.  Then the work an amended    *)
(* circular asks for, for every set of clauses, texts, references and      *)
(* requests: only officers and compiles touch the rules, only requests the *)
(* files, so the two halves of that state are taken one after the other.   *)
(***************************************************************************)
EXTENDS Extraction, AmendmentWork, WellFoundedInduction, FiniteSetTheorems, TLAPS

\* Min of a set of numbers is one of them, and the least.
LEMMA MinIsLeast ==
  ASSUME NEW S \in SUBSET Nat, S # {}
  PROVE  Min(S) \in S /\ \A y \in S : Min(S) <= y
<1>1. PICK x \in S : \A y \in S : ~(<<y, x>> \in OpToRel(<, Nat))
  <2>1. IsWellFoundedOn(OpToRel(<, Nat), Nat)
    BY NatLessThanWellFounded
  <2>2. QED
    BY <2>1, WFMin
<1>2. \A y \in S : x <= y
  <2>1. TAKE y \in S
  <2>2. ~(y < x)
    BY <1>1 DEF OpToRel
  <2>3. QED
    BY <2>2
<1>3. QED
  BY <1>2 DEF Min

-----------------------------------------------------------------------------
(* The pages of a document.                                                *)

IsLine(l) ==
  /\ l.num \in Seq(Nat) /\ l.x \in Nat
  /\ l.kind \in {"numbered", "annexure", "item"} => l.num # <<>>
  /\ l.num # <<>> => l.num[1] \in 1..999

IsDocument ==
  /\ DOMAIN document = 1..Len(document) /\ Len(document) \in Nat
  /\ \A i \in DOMAIN document : IsLine(document[i])

LEMMA DocumentsAreTyped ==
  ASSUME document \in Documents
  PROVE  IsDocument
<1> DEFINE Lines == [
        kind : {"text", "numbered", "item", "toc", "banner", "annexure", "appendix"},
        num : Seq(Nat), x : Nat, bold : BOOLEAN, body : BOOLEAN, top : BOOLEAN,
        words : Seq(STRING)]
<1>1. document \in Seq(Lines)
  BY ClauseTreeAssumption
<1>2. \A l \in Lines : l.num \in Seq(Nat) /\ l.x \in Nat
  OBVIOUS
<1> HIDE DEF Lines
<1>3. DOMAIN document = 1..Len(document) /\ Len(document) \in Nat
      /\ \A i \in DOMAIN document : document[i] \in Lines
  BY <1>1
<1>4. \A i \in DOMAIN document :
        /\ document[i].kind \in {"numbered", "annexure", "item"} => document[i].num # <<>>
        /\ document[i].num # <<>> => document[i].num[1] \in 1..999
  BY NumberAssumption
<1>5. ASSUME NEW i \in DOMAIN document
      PROVE  IsLine(document[i])
  <2>1. document[i].num \in Seq(Nat) /\ document[i].x \in Nat
    BY <1>2, <1>3, <1>5
  <2> QED BY <1>4, <1>5, <2>1 DEF IsLine
<1> QED BY <1>3, <1>5 DEF IsDocument

\* Pages are numbered upwards.
LEMMA PagesGrow ==
  ASSUME NEW i \in Nat, NEW j \in Nat, i <= j
  PROVE  /\ Page(i) \in Nat /\ Page(j) \in Nat
         /\ Page(i) <= Page(j) /\ Page(i) <= i + 1
<1> DEFINE tops(k) == {l \in 1..k : document[l].top}
<1>1. ASSUME NEW k \in Nat
      PROVE  IsFiniteSet(1..k) /\ Cardinality(1..k) = k
  BY FS_Interval
<1>2. IsFiniteSet(tops(j)) /\ tops(i) \subseteq tops(j) /\ tops(i) \subseteq 1..i
  <2>1. tops(j) \subseteq 1..j
    OBVIOUS
  <2>2. 1..i \subseteq 1..j
    OBVIOUS
  <2> QED BY <1>1, <2>1, <2>2, FS_Subset
<1>3. Cardinality(tops(i)) <= Cardinality(tops(j)) /\ Cardinality(tops(i)) <= i
  BY <1>1, <1>2, FS_Subset
<1>4. Cardinality(tops(i)) \in Nat /\ Cardinality(tops(j)) \in Nat
  BY <1>2, FS_Subset, FS_CardinalityType
<1> QED BY <1>3, <1>4 DEF Page

\* Where the body starts.
LEMMA BodyHasAPage ==
  ASSUME IsDocument
  PROVE  BodyStart \in Nat
<1>1. Pages \subseteq Nat
  BY PagesGrow DEF Pages, IsDocument
<1> DEFINE headed == {p \in Pages : (TocStart = NoPage \/ p > TocStart)
                                       /\ \E i \in OnPage(p) : IsHeading(i)}
<1>2. BodyStart = IF headed = {} THEN 1 ELSE Min(headed)
  BY DEF BodyStart
<1>3. headed \subseteq Nat
  BY <1>1
<1> QED BY <1>2, <1>3, MinIsLeast

\* What lies in the appendix at all, lies on or after the page of its heading.
LEMMA AppendixHasAPage ==
  ASSUME IsDocument, NEW i \in DOMAIN document, Page(i) >= AppendixStart
  PROVE  /\ AppendixStart \in Nat /\ AppendixStart > BodyStart
         /\ \E j \in OnPage(AppendixStart) :
              document[j].bold /\ document[j].kind = "appendix"
<1> DEFINE found == {p \in Pages : p > BodyStart /\
              \E j \in OnPage(p) : document[j].bold /\ document[j].kind = "appendix"}
<1>1. AppendixStart = IF found = {} THEN Len(document) + 2 ELSE Min(found)
  BY DEF AppendixStart, Earliest, NoPage
<1>2. Page(i) \in Nat /\ Page(i) <= Len(document) + 1
  BY PagesGrow DEF IsDocument
<1>3. found # {}
  BY <1>1, <1>2 DEF IsDocument
<1>4. found \subseteq Nat
  BY PagesGrow DEF Pages, IsDocument
<1>5. AppendixStart \in found
  BY <1>1, <1>3, <1>4, MinIsLeast
<1> QED BY <1>4, <1>5

-----------------------------------------------------------------------------
(* The tree and the builder have their shape at all times.                 *)

IsSequence(s) == \E S : s \in Seq(S)

LEMMA SequenceFacts ==
  ASSUME NEW s, IsSequence(s)
  PROVE  DOMAIN s = 1..Len(s) /\ Len(s) \in Nat /\ (s # <<>> => Len(s) > 0)
BY DEF IsSequence

LEMMA AppendedFacts ==
  ASSUME NEW s, IsSequence(s), NEW e
  PROVE  /\ IsSequence(Append(s, e))
         /\ Len(Append(s, e)) = Len(s) + 1 /\ DOMAIN Append(s, e) = 1..Len(s) + 1
         /\ \A i \in 1..Len(s) : Append(s, e)[i] = s[i]
         /\ Append(s, e)[Len(s) + 1] = e
<1>1. PICK S : s \in Seq(S)
  BY DEF IsSequence
<1>2. s \in Seq(S \cup {e}) /\ e \in S \cup {e}
  BY <1>1
<1>3. Append(s, e) \in Seq(S \cup {e})
  BY <1>2
<1> QED BY <1>2, <1>3 DEF IsSequence

IsNode(n) ==
  /\ n = [id |-> n.id, kind |-> n.kind, depth |-> n.depth, parent |-> n.parent,
          section |-> n.section, lines |-> n.lines]
  /\ n.depth \in Nat /\ n.parent \in Nat
  /\ IsSequence(n.lines) /\ n.lines # <<>>

IsBuilder(b) ==
  /\ b = [current |-> b.current, stack |-> b.stack, section |-> b.section,
          prefix |-> b.prefix, lastSection |-> b.lastSection,
          listAnchor |-> b.listAnchor, flat |-> b.flat, highest |-> b.highest]
  /\ b.current \in Nat /\ IsSequence(b.stack) /\ b.lastSection \in Nat
  /\ b.listAnchor \in Nat /\ b.flat \in BOOLEAN

Walking == phase \in {"brought", "reading"}

\* The clause being read is the last that was opened.
ShapeInv ==
  /\ document \in Documents
  /\ phase \in {"brought", "reading", "flat", "read", "compiled"}
  /\ at \in 1..Len(document) + 1
  /\ IsSequence(nodes) /\ \A n \in DOMAIN nodes : IsNode(nodes[n])
  /\ annexure \in Nat /\ appendix \in BOOLEAN
  /\ IsBuilder(builder) /\ builder.current \in {0, Len(nodes)}
  /\ Walking => builder.current = Len(nodes) /\ ~builder.flat
  /\ phase = "brought" => /\ at = 1 /\ nodes = <<>> /\ builder = NewBuilder
                          /\ annexure = 0 /\ ~appendix
  /\ phase # "brought" => regions = Regions
  /\ phase = "flat" => builder.flat
  /\ Read /\ ~builder.flat => at > Len(document)

\* A node is opened at this line by a builder that otherwise is b.
Opened(kind, depth, parent, b) ==
  /\ nodes' = Append(nodes, nodes'[Len(nodes) + 1])
  /\ nodes'[Len(nodes) + 1] =
       [id |-> nodes'[Len(nodes) + 1].id, kind |-> kind, depth |-> depth,
        parent |-> parent, section |-> b.section, lines |-> <<at>>]
  /\ builder' = [b EXCEPT !.current = Len(nodes) + 1]
  /\ at' = at + 1 /\ UNCHANGED <<document, regions, phase>>

LEMMA OpensOpened ==
  ASSUME NEW id, NEW kind, NEW depth, NEW parent, NEW b, IsSequence(nodes),
         Opens(id, kind, depth, parent, b)
  PROVE  Opened(kind, depth, parent, b)
<1> DEFINE node == [id |-> Unique(id), kind |-> kind, depth |-> depth,
                    parent |-> parent, section |-> b.section, lines |-> <<at>>]
<1>1. nodes' = Append(nodes, node)
  BY DEF Opens
<1>2. nodes'[Len(nodes) + 1] = node
  BY <1>1, AppendedFacts
<1> QED BY <1>1, <1>2 DEF Opens, Opened

\* What the nodes are after a line, by what was done with it.
LEMMA OpenedNodes ==
  ASSUME ShapeInv, NEW kind, NEW depth \in Nat, NEW parent \in Nat, NEW b,
         Opened(kind, depth, parent, b)
  PROVE  /\ IsSequence(nodes') /\ Len(nodes') = Len(nodes) + 1
         /\ DOMAIN nodes' = 1..Len(nodes) + 1 /\ DOMAIN nodes = 1..Len(nodes)
         /\ Len(nodes) \in Nat
         /\ \A n \in 1..Len(nodes) : nodes'[n] = nodes[n]
         /\ \A n \in DOMAIN nodes' : IsNode(nodes'[n])
<1>1. PICK node : nodes' = Append(nodes, node)
  BY DEF Opened
<1>2. IsSequence(nodes)
  BY DEF ShapeInv
<1>4. /\ DOMAIN nodes = 1..Len(nodes) /\ Len(nodes) \in Nat
  BY <1>2, SequenceFacts
<1>5. /\ IsSequence(nodes')
      /\ Len(nodes') = Len(nodes) + 1 /\ DOMAIN nodes' = 1..Len(nodes) + 1
      /\ \A n \in 1..Len(nodes) : nodes'[n] = nodes[n]
  BY <1>1, <1>2, AppendedFacts
<1>3. IsNode(nodes'[Len(nodes) + 1])
  <2>1. IsSequence(<<at>>) /\ <<at>> # <<>>
    <3>1. <<at>> \in Seq({at})
      OBVIOUS
    <3> QED BY <3>1 DEF IsSequence
  <2>2. PICK new : nodes'[Len(nodes) + 1] =
           [id |-> new, kind |-> kind, depth |-> depth,
            parent |-> parent, section |-> b.section, lines |-> <<at>>]
    BY DEF Opened
  <2> QED BY <2>1, <2>2 DEF IsNode
<1>6. \A n \in 1..Len(nodes) : IsNode(nodes[n])
  BY <1>4 DEF ShapeInv
<1> QED BY <1>3, <1>4, <1>5, <1>6

LEMMA AppendsNodes ==
  ASSUME ShapeInv, NEW b, Appends(b), b.current = builder.current
  PROVE  /\ IsSequence(nodes') /\ Len(nodes') = Len(nodes)
         /\ DOMAIN nodes' = 1..Len(nodes) /\ DOMAIN nodes = 1..Len(nodes)
         /\ Len(nodes) \in Nat
         /\ \A n \in 1..Len(nodes) : n # builder.current => nodes'[n] = nodes[n]
         /\ builder.current # 0 =>
              /\ builder.current \in 1..Len(nodes)
              /\ nodes'[builder.current] =
                   [nodes[builder.current] EXCEPT !.lines = Append(@, at)]
         /\ \A n \in 1..Len(nodes) :
              /\ IsNode(nodes'[n])
              /\ nodes'[n].depth = nodes[n].depth /\ nodes'[n].parent = nodes[n].parent
              /\ nodes'[n].section = nodes[n].section /\ nodes'[n].kind = nodes[n].kind
<1>1. DOMAIN nodes = 1..Len(nodes) /\ Len(nodes) \in Nat
  BY SequenceFacts DEF ShapeInv
<1>2. CASE builder.current = 0
  BY <1>1, <1>2 DEF Appends, ShapeInv
<1>3. CASE builder.current # 0
  <2> DEFINE c == builder.current
             node == [nodes[c] EXCEPT !.lines = Append(@, at)]
  <2>1. c \in 1..Len(nodes) /\ IsNode(nodes[c])
    BY <1>1, <1>3 DEF ShapeInv, IsBuilder
  <2>2. nodes' = [nodes EXCEPT ![c] = node]
    BY <1>3 DEF Appends
  <2>3. PICK S : nodes \in Seq(S)
    BY DEF ShapeInv, IsSequence
  <2> HIDE DEF node
  <2>4. nodes' \in Seq(S \cup {node}) /\ Len(nodes') = Len(nodes)
    BY <2>1, <2>2, <2>3
  <2>5. /\ IsNode(node) /\ node.depth = nodes[c].depth /\ node.parent = nodes[c].parent
        /\ node.section = nodes[c].section /\ node.kind = nodes[c].kind
    <3>1. PICK i, k, d, p, s, ls : nodes[c] =
             [id |-> i, kind |-> k, depth |-> d, parent |-> p, section |-> s, lines |-> ls]
      BY <2>1 DEF IsNode
    <3>2. node = [id |-> i, kind |-> k, depth |-> d, parent |-> p, section |-> s,
                  lines |-> Append(ls, at)]
      BY <3>1, SMTT(30) DEF node
    <3>3. IsSequence(Append(ls, at)) /\ Append(ls, at) # <<>>
      <4>1. IsSequence(ls)
        BY <2>1, <3>1 DEF IsNode
      <4> QED BY <4>1, AppendedFacts, SequenceFacts
    <3> QED BY <2>1, <3>1, <3>2, <3>3 DEF IsNode
  <2>6. nodes'[c] = node /\ \A n \in 1..Len(nodes) : n # c => nodes'[n] = nodes[n]
    BY <1>1, <2>1, <2>2
  <2>7. \A n \in 1..Len(nodes) : IsNode(nodes[n])
    BY <1>1 DEF ShapeInv
  <2>8. IsSequence(nodes') /\ DOMAIN nodes' = 1..Len(nodes)
    BY <2>4 DEF IsSequence
  <2> QED BY <1>1, <1>3, <2>1, <2>4, <2>5, <2>6, <2>7, <2>8 DEF node
<1> QED BY <1>2, <1>3

-----------------------------------------------------------------------------
(* What the walk keeps.                                                    *)

\* The parts after the body are entered where they start, and not left again.
PagesInv == phase = "reading" =>
  /\ annexure # 0 => \E i \in 1..at - 1 : regions.page[i] >= regions.annexure
  /\ appendix => \E i \in 1..at - 1 : regions.page[i] >= regions.appendix
  /\ ~appendix => \A i \in 1..at - 1 :
       ~(regions.page[i] >= regions.appendix /\ document[i].kind = "appendix" /\ document[i].bold)

\* The text of the clauses: every line of it was read once, and in order.
TextInv == ~builder.flat =>
  /\ \A n \in DOMAIN nodes : \A k \in DOMAIN nodes[n].lines :
       nodes[n].lines[k] \in 1..at - 1 /\ regions.page[nodes[n].lines[k]] >= regions.body
  /\ \A n, m \in DOMAIN nodes : n < m =>
       \A k \in DOMAIN nodes[n].lines, l \in DOMAIN nodes[m].lines :
         nodes[n].lines[k] < nodes[m].lines[l]
  /\ nodes # <<>> => \A i \in 1..at - 1 : i >= nodes[1].lines[1] /\ ~PassedOver(i) =>
       \E n \in DOMAIN nodes : \E k \in DOMAIN nodes[n].lines : nodes[n].lines[k] = i

OpenedAt(i) == \E n \in DOMAIN nodes : nodes[n].lines[1] = i

\* A dotted number of the body has opened a clause where it was chosen to.
Dotted(i) == i \in Candidates /\ Len(document[i].num) > 1 /\ regions.page[i] < regions.appendix
ChosenInv == phase # "brought" /\ ~builder.flat =>
  \A i \in 1..at - 1 : Dotted(i) => (OpenedAt(i) <=> i \in regions.definitions)

OfAnAnnexure(s) == s # <<>> /\ s[1] \in AnnexureMark..AppendixMark - 1

\* A node at this depth, of this section, may hang on that parent.
MayHang(depth, parent, section) == parent # 0 =>
  /\ parent \in 1..Len(nodes) /\ nodes[parent].section = section
  /\ ~OfAnAnnexure(section) => nodes[parent].depth < depth

TreeInv == \A n \in DOMAIN nodes : LET p == nodes[n].parent IN p # 0 =>
  /\ p \in 1..n - 1 /\ nodes[p].section = nodes[n].section
  /\ ~OfAnAnnexure(nodes[n].section) => nodes[p].depth < nodes[n].depth

StackInv == \A k \in DOMAIN builder.stack :
  builder.stack[k] \in 1..Len(nodes) /\ nodes[builder.stack[k]].section = builder.section

\* A section is at the bottom of the stack until the annexures, and an annexure and
\* the list in it are what is read from then on.
SectionInv == phase = "reading" /\ ~appendix =>
  /\ annexure = 0 /\ builder.lastSection > 0 =>
       builder.stack # <<>> /\ nodes[builder.stack[1]].depth = 1
  /\ annexure # 0 => /\ annexure \in 1..Len(nodes) /\ OfAnAnnexure(builder.section)
                     /\ nodes[annexure].section = builder.section
  /\ annexure # 0 /\ builder.listAnchor # 0 =>
       /\ builder.listAnchor \in 1..Len(nodes)
       /\ nodes[builder.listAnchor].section = builder.section

ReadInv == ShapeInv /\ PagesInv /\ TextInv /\ ChosenInv /\ TreeInv /\ StackInv /\ SectionInv

-----------------------------------------------------------------------------
(* The stack.                                                              *)

LEMMA MaxIsGreatest ==
  ASSUME NEW n \in Nat, NEW S \in SUBSET (0..n), S # {}
  PROVE  Max(S) \in S /\ \A y \in S : y <= Max(S)
<1> DEFINE T == {n - y : y \in S}
<1>1. T \in SUBSET Nat /\ T # {}
  <2>1. \A y \in 0..n : n - y \in Nat
    OBVIOUS
  <2> QED BY <2>1
<1>2. Min(T) \in T /\ \A z \in T : Min(T) <= z
  BY <1>1, MinIsLeast
<1>3. PICK x \in S : Min(T) = n - x
  BY <1>2
<1>4. \A y \in S : y <= x
  <2>1. TAKE y \in S
  <2>2. n - x <= n - y
    BY <1>2, <1>3
  <2> QED BY <2>2
<1> QED BY <1>3, <1>4 DEF Max

LEMMA PoppedFacts ==
  ASSUME ShapeInv, NEW depth
  PROVE  /\ IsSequence(Popped(depth)) /\ Len(Popped(depth)) <= Len(builder.stack)
         /\ DOMAIN Popped(depth) = 1..Len(Popped(depth)) /\ Len(Popped(depth)) \in Nat
         /\ \A k \in DOMAIN Popped(depth) :
              k \in DOMAIN builder.stack /\ Popped(depth)[k] = builder.stack[k]
         /\ Popped(depth) # <<>> => nodes[Last(Popped(depth))].depth < depth
         /\ \A k \in DOMAIN builder.stack : nodes[builder.stack[k]].depth < depth =>
              k <= Len(Popped(depth))
<1> DEFINE stack == builder.stack
           shallow == {k \in DOMAIN stack : nodes[stack[k]].depth < depth}
           top == Max({0} \union shallow)
<1>1. IsSequence(stack) /\ DOMAIN stack = 1..Len(stack) /\ Len(stack) \in Nat
  BY SequenceFacts DEF ShapeInv, IsBuilder
<1>2. {0} \union shallow \in SUBSET (0..Len(stack)) /\ {0} \union shallow # {}
  BY <1>1
<1>3. top \in {0} \union shallow /\ \A y \in {0} \union shallow : y <= top
  BY <1>1, <1>2, MaxIsGreatest
<1>4. Popped(depth) = SubSeq(stack, 1, top)
  BY DEF Popped
<1>5. top \in 0..Len(stack)
  BY <1>2, <1>3
<1>6. PICK S : stack \in Seq(S)
  BY <1>1 DEF IsSequence
<1> HIDE DEF top, stack
<1>7. /\ SubSeq(stack, 1, top) \in Seq(S) /\ Len(SubSeq(stack, 1, top)) = top
      /\ DOMAIN SubSeq(stack, 1, top) = 1..top
      /\ \A k \in 1..top : SubSeq(stack, 1, top)[k] = stack[k]
  BY <1>1, <1>5, <1>6
<1>8. SubSeq(stack, 1, top) # <<>> => top > 0 /\ Last(SubSeq(stack, 1, top)) = stack[top]
  <2>1. ASSUME SubSeq(stack, 1, top) # <<>>
        PROVE  top > 0
    BY <1>5, <1>7, <2>1
  <2> QED BY <1>5, <1>7, <2>1 DEF Last
<1>9. IsSequence(Popped(depth))
  BY <1>4, <1>7 DEF IsSequence
<1>10. \A k \in 1..top : k \in DOMAIN stack
  BY <1>1, <1>5
<1>11. Popped(depth) # <<>> => nodes[Last(Popped(depth))].depth < depth
  BY <1>3, <1>4, <1>5, <1>8
<1>12. \A k \in DOMAIN stack : nodes[stack[k]].depth < depth => k <= top
  BY <1>3
<1> QED BY <1>4, <1>5, <1>7, <1>9, <1>10, <1>11, <1>12 DEF stack

-----------------------------------------------------------------------------
(* What becomes of a line.                                                 *)

\* The builder with another stack, section, prefix, last section and anchor.
With(stack, section, prefix, lastSection, listAnchor) ==
  [current |-> builder.current, stack |-> stack, section |-> section,
   prefix |-> prefix, lastSection |-> lastSection, listAnchor |-> listAnchor,
   flat |-> builder.flat, highest |-> builder.highest]

GoesOn(b) == IsBuilder(b) /\ b.current = builder.current /\ b.flat = builder.flat

LEMMA WithGoesOn ==
  ASSUME ShapeInv, NEW stack, IsSequence(stack), NEW section, NEW prefix,
         NEW lastSection \in Nat, NEW listAnchor \in Nat
  PROVE  GoesOn(With(stack, section, prefix, lastSection, listAnchor))
BY DEF ShapeInv, IsBuilder, GoesOn, With

LEMMA BuilderIsWith ==
  ASSUME ShapeInv
  PROVE  builder = With(builder.stack, builder.section, builder.prefix,
                        builder.lastSection, builder.listAnchor)
BY DEF ShapeInv, IsBuilder, With

\* The builder's updates, as the code makes them.
Stacked(st) == [builder EXCEPT !.stack = st]
Prefixed(p) == [builder EXCEPT !.prefix = p]
Anchored(la) == [builder EXCEPT !.listAnchor = la]
InPart(se, st, p) == [builder EXCEPT !.section = se, !.stack = st, !.prefix = p]
InNewPart(se, st, p, la) ==
  [builder EXCEPT !.section = se, !.stack = st, !.prefix = p, !.listAnchor = la]
InSection(se, p, ls, st) ==
  [[builder EXCEPT !.section = se, !.prefix = p, !.lastSection = ls] EXCEPT !.stack = st]

LEMMA WithFields ==
  ASSUME ShapeInv, NEW st, NEW se, NEW p, NEW ls, NEW la
  PROVE  /\ Stacked(st) = With(st, builder.section, builder.prefix,
                               builder.lastSection, builder.listAnchor)
         /\ Prefixed(p) = With(builder.stack, builder.section, p,
                               builder.lastSection, builder.listAnchor)
         /\ Anchored(la) = With(builder.stack, builder.section, builder.prefix,
                                builder.lastSection, la)
         /\ InPart(se, st, p) = With(st, se, p, builder.lastSection, builder.listAnchor)
         /\ InNewPart(se, st, p, la) = With(st, se, p, builder.lastSection, la)
         /\ InSection(se, p, ls, st) = With(st, se, p, ls, builder.listAnchor)
<1>1. PICK c, st0, se0, p0, ls0, la0, f, h : builder =
         [current |-> c, stack |-> st0, section |-> se0, prefix |-> p0,
          lastSection |-> ls0, listAnchor |-> la0, flat |-> f, highest |-> h]
  BY DEF ShapeInv, IsBuilder
<1>2. /\ builder.current = c /\ builder.stack = st0 /\ builder.section = se0
      /\ builder.prefix = p0 /\ builder.lastSection = ls0 /\ builder.listAnchor = la0
      /\ builder.flat = f /\ builder.highest = h
  BY <1>1
<1>3. \A s1, s2, s3, s4, s5 : With(s1, s2, s3, s4, s5) =
         [current |-> c, stack |-> s1, section |-> s2, prefix |-> s3,
          lastSection |-> s4, listAnchor |-> s5, flat |-> f, highest |-> h]
  BY <1>2 DEF With
<1>4. [builder EXCEPT !.stack = st] = With(st, se0, p0, ls0, la0)
  BY <1>1, <1>3
<1>5. [builder EXCEPT !.prefix = p] = With(st0, se0, p, ls0, la0)
  BY <1>1, <1>3
<1>6. [builder EXCEPT !.listAnchor = la] = With(st0, se0, p0, ls0, la)
  BY <1>1, <1>3
<1>7. \A s1, s2, s3, s4, s5, x :
        /\ [With(s1, s2, s3, s4, s5) EXCEPT !.stack = x] = With(x, s2, s3, s4, s5)
        /\ [With(s1, s2, s3, s4, s5) EXCEPT !.section = x] = With(s1, x, s3, s4, s5)
        /\ [With(s1, s2, s3, s4, s5) EXCEPT !.prefix = x] = With(s1, s2, x, s4, s5)
        /\ [With(s1, s2, s3, s4, s5) EXCEPT !.lastSection = x] = With(s1, s2, s3, x, s5)
        /\ [With(s1, s2, s3, s4, s5) EXCEPT !.listAnchor = x] = With(s1, s2, s3, s4, x)
  BY <1>3
<1>8. builder = With(st0, se0, p0, ls0, la0)
  BY <1>1, <1>3
<1>9. [builder EXCEPT !.section = se, !.stack = st, !.prefix = p] = With(st, se, p, ls0, la0)
  <2>1. [builder EXCEPT !.section = se, !.stack = st, !.prefix = p]
        = [[[builder EXCEPT !.section = se] EXCEPT !.stack = st] EXCEPT !.prefix = p]
    OBVIOUS
  <2>2. [With(st0, se0, p0, ls0, la0) EXCEPT !.section = se] = With(st0, se, p0, ls0, la0)
    BY <1>7
  <2>3. [With(st0, se, p0, ls0, la0) EXCEPT !.stack = st] = With(st, se, p0, ls0, la0)
    BY <1>7
  <2>4. [With(st, se, p0, ls0, la0) EXCEPT !.prefix = p] = With(st, se, p, ls0, la0)
    BY <1>7
  <2> QED BY <1>8, <2>1, <2>2, <2>3, <2>4
<1>10. [builder EXCEPT !.section = se, !.stack = st, !.prefix = p, !.listAnchor = la]
      = With(st, se, p, ls0, la)
  <2>1. [builder EXCEPT !.section = se, !.stack = st, !.prefix = p, !.listAnchor = la]
        = [[[[builder EXCEPT !.section = se] EXCEPT !.stack = st] EXCEPT !.prefix = p]
             EXCEPT !.listAnchor = la]
    OBVIOUS
  <2>2. [With(st0, se0, p0, ls0, la0) EXCEPT !.section = se] = With(st0, se, p0, ls0, la0)
    BY <1>7
  <2>3. [With(st0, se, p0, ls0, la0) EXCEPT !.stack = st] = With(st, se, p0, ls0, la0)
    BY <1>7
  <2>4. [With(st, se, p0, ls0, la0) EXCEPT !.prefix = p] = With(st, se, p, ls0, la0)
    BY <1>7
  <2>5. [With(st, se, p, ls0, la0) EXCEPT !.listAnchor = la] = With(st, se, p, ls0, la)
    BY <1>7
  <2> QED BY <1>8, <2>1, <2>2, <2>3, <2>4, <2>5
<1>11. [[builder EXCEPT !.section = se, !.prefix = p, !.lastSection = ls] EXCEPT !.stack = st]
      = With(st, se, p, ls, la0)
  <2>1. [[builder EXCEPT !.section = se, !.prefix = p, !.lastSection = ls] EXCEPT !.stack = st]
        = [[[[builder EXCEPT !.section = se] EXCEPT !.prefix = p] EXCEPT !.lastSection = ls]
             EXCEPT !.stack = st]
    OBVIOUS
  <2>2. [With(st0, se0, p0, ls0, la0) EXCEPT !.section = se] = With(st0, se, p0, ls0, la0)
    BY <1>7
  <2>3. [With(st0, se, p0, ls0, la0) EXCEPT !.prefix = p] = With(st0, se, p, ls0, la0)
    BY <1>7
  <2>4. [With(st0, se, p, ls0, la0) EXCEPT !.lastSection = ls] = With(st0, se, p, ls, la0)
    BY <1>7
  <2>5. [With(st0, se, p, ls, la0) EXCEPT !.stack = st] = With(st, se, p, ls, la0)
    BY <1>7
  <2> QED BY <1>8, <2>1, <2>2, <2>3, <2>4, <2>5
<1> QED BY <1>2, <1>4, <1>5, <1>6, <1>9, <1>10, <1>11
       DEF Stacked, Prefixed, Anchored, InPart, InNewPart, InSection

LEMMA OpenedBuilder ==
  ASSUME NEW kind, NEW depth, NEW parent, NEW b, GoesOn(b), IsSequence(nodes),
         Opened(kind, depth, parent, b)
  PROVE  /\ IsBuilder(builder') /\ builder'.current = Len(nodes) + 1
         /\ builder'.stack = b.stack /\ builder'.section = b.section
         /\ builder'.lastSection = b.lastSection /\ builder'.listAnchor = b.listAnchor
         /\ builder'.flat = builder.flat
<1>1. PICK c, st, se, p, ls, la, f, h : b = [current |-> c, stack |-> st, section |-> se,
          prefix |-> p, lastSection |-> ls, listAnchor |-> la, flat |-> f, highest |-> h]
  BY DEF GoesOn, IsBuilder
<1>2. builder' = [current |-> Len(nodes) + 1, stack |-> st, section |-> se,
          prefix |-> p, lastSection |-> ls, listAnchor |-> la, flat |-> f, highest |-> h]
  BY <1>1 DEF Opened
<1>3. Len(nodes) + 1 \in Nat
  BY SequenceFacts
<1> QED BY <1>1, <1>2, <1>3 DEF GoesOn, IsBuilder

\* A stack of nodes of the section, and the new one at most.
Held(stack, section) == \A k \in DOMAIN stack :
  \/ stack[k] \in 1..Len(nodes) /\ nodes[stack[k]].section = section
  \/ stack[k] = Len(nodes) + 1

OpensWell == \E kind, b : \E depth, parent \in Nat :
  /\ Opened(kind, depth, parent, b) /\ GoesOn(b)
  /\ MayHang(depth, parent, b.section) /\ Held(b.stack, b.section)

AppendsWell == \E b :
  /\ Appends(b) /\ GoesOn(b) /\ b.section = builder.section
  /\ \A k \in DOMAIN b.stack : k \in DOMAIN builder.stack /\ b.stack[k] = builder.stack[k]

PassesWell == Passes /\ (nodes = <<>> \/ PassedOver(at))

\* What holds before a line is read.
AtLine == ReadInv /\ Reading

LEMMA LineFacts ==
  ASSUME AtLine
  PROVE  /\ ShapeInv /\ IsDocument /\ regions = Regions /\ phase = "reading"
         /\ at \in DOMAIN document /\ at \in Nat /\ IsLine(Line)
         /\ IsSequence(nodes) /\ Len(nodes) \in Nat /\ DOMAIN nodes = 1..Len(nodes)
         /\ \A n \in 1..Len(nodes) : IsNode(nodes[n])
         /\ builder.current = Len(nodes) /\ ~builder.flat
<1>1. ShapeInv /\ phase = "reading" /\ at <= Len(document)
  BY DEF AtLine, ReadInv, Reading
<1>2. IsDocument
  BY <1>1, DocumentsAreTyped DEF ShapeInv
<1>3. at \in DOMAIN document /\ at \in Nat
  BY <1>1, <1>2 DEF ShapeInv, IsDocument
<1>4. regions = Regions /\ builder.current = Len(nodes) /\ ~builder.flat
  BY <1>1 DEF ShapeInv, Walking
<1>5. IsSequence(nodes) /\ Len(nodes) \in Nat /\ DOMAIN nodes = 1..Len(nodes)
  BY <1>1, SequenceFacts DEF ShapeInv
<1> QED BY <1>1, <1>2, <1>3, <1>4, <1>5 DEF ShapeInv, IsDocument, Line

LEMMA RegionFacts ==
  ASSUME AtLine
  PROVE  /\ \A i \in DOMAIN document : regions.page[i] = Page(i) /\ Page(i) \in Nat
         /\ \A i, j \in DOMAIN document : i <= j => Page(i) <= Page(j)
         /\ regions.body = BodyStart /\ BodyStart \in Nat
         /\ regions.annexure = AnnexureStart /\ regions.appendix = AppendixStart
         /\ \A i \in 1..at - 1 : i \in DOMAIN document /\ i < at /\ i # at
<1>1. IsDocument /\ regions = Regions /\ at \in DOMAIN document /\ at \in Nat
  BY LineFacts
<1>2. /\ \A i \in DOMAIN document : regions.page[i] = Page(i)
      /\ regions.body = BodyStart
      /\ regions.annexure = AnnexureStart /\ regions.appendix = AppendixStart
  BY <1>1 DEF Regions
<1>3. /\ \A i \in DOMAIN document : Page(i) \in Nat
      /\ \A i, j \in DOMAIN document : i <= j => Page(i) <= Page(j)
  <2>1. DOMAIN document \subseteq Nat
    BY <1>1 DEF IsDocument
  <2> QED BY <2>1, PagesGrow
<1>4. \A i \in 1..at - 1 : i \in DOMAIN document /\ i < at /\ i # at
  BY <1>1 DEF IsDocument
<1> QED BY <1>1, <1>2, <1>3, <1>4, BodyHasAPage

LEMMA PartsAreNumbered ==
  ASSUME AtLine
  PROVE  AnnexureStart \in Nat /\ AppendixStart \in Nat
<1>1. Pages \subseteq Nat /\ IsDocument
  BY PagesGrow, LineFacts DEF Pages, IsDocument
<1>2. ASSUME NEW S \in SUBSET Pages
      PROVE  Earliest(S) \in Nat
  <2>1. S \in SUBSET Nat
    BY <1>1
  <2>2. S # {} => Min(S) \in Nat
    BY <2>1, MinIsLeast
  <2> QED BY <1>1, <2>2 DEF Earliest, NoPage, IsDocument
<1> QED BY <1>2 DEF AnnexureStart, AppendixStart

\* Having been entered, the annexures and the appendix are where the walk is.
LEMMA PartsFollow ==
  ASSUME AtLine
  PROVE  (annexure # 0 => InAnnexures) /\ (appendix => InAppendix)
<1>1. /\ annexure # 0 => \E i \in 1..at - 1 : regions.page[i] >= regions.annexure
      /\ appendix => \E i \in 1..at - 1 : regions.page[i] >= regions.appendix
  BY LineFacts DEF AtLine, ReadInv, PagesInv
<1>2. AnnexureStart \in Nat /\ AppendixStart \in Nat
  BY PartsAreNumbered
<1>3. \A i \in 1..at - 1 : i \in DOMAIN document /\ at \in DOMAIN document /\ Page(i) <= Page(at)
                        /\ regions.page[i] = Page(i) /\ regions.page[at] = Page(at)
                        /\ Page(i) \in Nat /\ Page(at) \in Nat
  BY LineFacts, RegionFacts
<1>4. regions.annexure = AnnexureStart /\ regions.appendix = AppendixStart
  BY RegionFacts
<1> QED BY <1>1, <1>2, <1>3, <1>4 DEF InAnnexures, InAppendix

\* What is before the body is before every clause.
LEMMA SkipFrontWell == ASSUME AtLine, SkipFront PROVE PassesWell
<1>1. Passes /\ Page(at) < BodyStart
  BY LineFacts, RegionFacts DEF SkipFront
<1>2. ASSUME nodes # <<>>
      PROVE  FALSE
  <2> DEFINE i == nodes[1].lines[1]
  <2>1. 1 \in DOMAIN nodes /\ IsNode(nodes[1])
    BY <1>2, LineFacts, SequenceFacts
  <2>2. 1 \in DOMAIN nodes[1].lines
    BY <2>1, SequenceFacts DEF IsNode
  <2>3. i \in 1..at - 1 /\ regions.page[i] >= regions.body
    BY <2>1, <2>2, LineFacts DEF AtLine, ReadInv, TextInv
  <2> HIDE DEF i
  <2>4. i \in DOMAIN document /\ at \in DOMAIN document /\ i <= at
    BY <2>3, LineFacts, RegionFacts
  <2>5. Page(i) <= Page(at) /\ Page(i) >= BodyStart /\ Page(i) \in Nat /\ Page(at) \in Nat
        /\ BodyStart \in Nat
    BY <2>3, <2>4, RegionFacts
  <2> QED BY <1>1, <2>5
<1> QED BY <1>1, <1>2 DEF PassesWell

LEMMA AnnexureBannerWell == ASSUME AtLine, AnnexureBanner PROVE PassesWell
BY LineFacts DEF AnnexureBanner, InBody, Reading, InAnnexures, Line, PassesWell, PassedOver

\* Above the appendix's heading is only what stands on its page.
LEMMA AppendixLineWell == ASSUME AtLine, AppendixLine, ~appendix PROVE PassesWell
<1>1. /\ Passes /\ Page(at) >= AppendixStart
      /\ ~(document[at].kind = "appendix" /\ document[at].bold)
  BY LineFacts, RegionFacts DEF AppendixLine, InAppendix, Line
<1>2. \A i \in 1..at - 1 : ~(Page(i) >= AppendixStart /\
         document[i].kind = "appendix" /\ document[i].bold)
  BY LineFacts, RegionFacts DEF AtLine, ReadInv, PagesInv
<1>3. /\ AppendixStart \in Nat
      /\ \E j \in OnPage(AppendixStart) : document[j].bold /\ document[j].kind = "appendix"
  BY <1>1, LineFacts, AppendixHasAPage
<1>4. ASSUME NEW j \in DOMAIN document, Page(j) >= AppendixStart,
             document[j].kind = "appendix", document[j].bold
      PROVE  at < j /\ Page(at) <= Page(j) /\ Page(j) \in Nat /\ Page(at) \in Nat
  <2>1. j \in Nat /\ j >= 1 /\ at \in Nat
    BY LineFacts DEF IsDocument
  <2>2. j \notin 1..at - 1 /\ j # at
    BY <1>1, <1>2, <1>4
  <2>3. at < j
    BY <2>1, <2>2
  <2> QED BY <2>1, <2>3, LineFacts, RegionFacts
<1>5. Page(at) = AppendixStart
  <2>1. PICK j \in OnPage(AppendixStart) : document[j].bold /\ document[j].kind = "appendix"
    BY <1>3
  <2>2. j \in DOMAIN document /\ Page(j) = AppendixStart
    BY DEF OnPage
  <2> QED BY <1>1, <1>3, <1>4, <2>1, <2>2
<1>6. \A j \in OnPage(Page(at)) : document[j].kind = "appendix" /\ document[j].bold => at < j
  <2>1. TAKE j \in OnPage(Page(at))
  <2>2. j \in DOMAIN document /\ Page(j) = AppendixStart
    BY <1>5 DEF OnPage
  <2> QED BY <1>3, <1>4, <2>2
<1> QED BY <1>1, <1>5, <1>6, LineFacts, RegionFacts DEF PassesWell, PassedOver

\* A builder that goes on as it was.
LEMMA AppendsAsBefore == ASSUME AtLine, Appends(builder) PROVE AppendsWell
BY LineFacts DEF AppendsWell, GoesOn, ShapeInv

LEMMA CrossReferenceWell == ASSUME AtLine, CrossReference PROVE AppendsWell
<1> DEFINE stack == Popped(Len(Line.num))
           b == With(stack, builder.section, builder.prefix, builder.lastSection,
                     builder.listAnchor)
<1>1. Appends(Stacked(stack))
  BY DEF CrossReference, Stacked
<1>2. /\ IsSequence(stack)
      /\ \A k \in DOMAIN stack : k \in DOMAIN builder.stack /\ stack[k] = builder.stack[k]
  BY PoppedFacts, LineFacts
<1>3. builder.lastSection \in Nat /\ builder.listAnchor \in Nat
  BY LineFacts DEF ShapeInv, IsBuilder
<1> HIDE DEF stack
<1>4. GoesOn(b)
  BY <1>2, <1>3, LineFacts, WithGoesOn
<1>5. Stacked(stack) = b
  BY LineFacts, WithFields
<1>6. b.section = builder.section /\ b.stack = stack
  BY DEF With
<1> HIDE DEF b
<1> QED BY <1>1, <1>2, <1>4, <1>5, <1>6 DEF AppendsWell

\* What a node is opened with, for the next line.
LEMMA OpensWith ==
  ASSUME AtLine, NEW id, NEW kind, NEW depth \in Nat, NEW parent \in Nat,
         NEW stack, IsSequence(stack), NEW section, NEW prefix,
         NEW lastSection \in Nat, NEW listAnchor \in Nat,
         Opens(id, kind, depth, parent,
               With(stack, section, prefix, lastSection, listAnchor)),
         MayHang(depth, parent, section), Held(stack, section)
  PROVE  /\ OpensWell /\ Len(nodes') = Len(nodes) + 1
         /\ \A n \in 1..Len(nodes) : nodes'[n] = nodes[n]
         /\ nodes'[Len(nodes) + 1].depth = depth /\ nodes'[Len(nodes) + 1].section = section
         /\ builder'.stack = stack /\ builder'.section = section
         /\ builder'.lastSection = lastSection /\ builder'.listAnchor = listAnchor
<1> DEFINE b == With(stack, section, prefix, lastSection, listAnchor)
<1>1. b.section = section /\ b.stack = stack /\ b.lastSection = lastSection
      /\ b.listAnchor = listAnchor
  BY DEF With
<1>2. GoesOn(b)
  BY LineFacts, WithGoesOn
<1> HIDE DEF b
<1>3. Opened(kind, depth, parent, b)
  BY LineFacts, OpensOpened DEF b
<1>4. OpensWell
  BY <1>1, <1>2, <1>3 DEF OpensWell
<1>5. Len(nodes') = Len(nodes) + 1 /\ \A n \in 1..Len(nodes) : nodes'[n] = nodes[n]
  BY <1>3, LineFacts, OpenedNodes
<1>6. /\ builder'.stack = stack /\ builder'.section = section
      /\ builder'.lastSection = lastSection /\ builder'.listAnchor = listAnchor
  BY <1>1, <1>2, <1>3, LineFacts, OpenedBuilder
<1>7. nodes'[Len(nodes) + 1].depth = depth /\ nodes'[Len(nodes) + 1].section = section
  <2>1. PICK new : nodes'[Len(nodes) + 1] =
           [id |-> new, kind |-> kind, depth |-> depth,
            parent |-> parent, section |-> section, lines |-> <<at>>]
    BY <1>1, <1>3 DEF Opened
  <2> QED BY <2>1
<1> QED BY <1>4, <1>5, <1>6, <1>7

LEMMA BuilderFacts ==
  ASSUME AtLine
  PROVE  /\ builder = With(builder.stack, builder.section, builder.prefix,
                           builder.lastSection, builder.listAnchor)
         /\ IsSequence(builder.stack) /\ DOMAIN builder.stack = 1..Len(builder.stack)
         /\ builder.lastSection \in Nat /\ builder.listAnchor \in Nat
         /\ annexure \in Nat /\ IsSequence(<<>>)
         /\ \A k \in DOMAIN builder.stack : builder.stack[k] \in 1..Len(nodes)
                  /\ nodes[builder.stack[k]].section = builder.section
<1>1. ShapeInv /\ StackInv
  BY DEF AtLine, ReadInv
<1>2. IsSequence(<<>>)
  <2>1. <<>> \in Seq({})
    OBVIOUS
  <2> QED BY <2>1 DEF IsSequence
<1> QED BY <1>1, <1>2, BuilderIsWith, SequenceFacts DEF ShapeInv, IsBuilder, StackInv

LEMMA OpenAppendixWell == ASSUME AtLine, OpenAppendix PROVE OpensWell /\ SectionInv'
<1> DEFINE apx == <<AppendixMark>>
           b == With(<<>>, apx, apx, builder.lastSection, builder.listAnchor)
<1>1. Opens(apx, "APPENDIX", 0, 0, InPart(apx, <<>>, apx))
  BY DEF OpenAppendix, InPart
<1>2. Opens(apx, "APPENDIX", 0, 0, b)
  <2> HIDE DEF apx
  <2> QED BY <1>1, LineFacts, WithFields
<1>3. MayHang(0, 0, apx) /\ Held(<<>>, apx)
  BY DEF MayHang, Held
<1>4. OpensWell
  <2> HIDE DEF apx
  <2> QED BY <1>2, <1>3, BuilderFacts, OpensWith
<1>5. appendix' = TRUE
  BY DEF OpenAppendix
<1> QED BY <1>4, <1>5 DEF SectionInv

LEMMA OpenAnnexureWell == ASSUME AtLine, OpenAnnexure PROVE OpensWell /\ SectionInv'
<1> DEFINE id == <<AnnexureMark + Line.num[1]>>
           b == With(<<>>, id, id, builder.lastSection, 0)
<1>1. Opens(id, "ANNEXURE", 0, 0, InNewPart(id, <<>>, id, 0)) /\ annexure' = Len(nodes) + 1
  BY DEF OpenAnnexure, InNewPart
<1>2. Opens(id, "ANNEXURE", 0, 0, b) /\ annexure' = Len(nodes) + 1
  <2> HIDE DEF id
  <2> QED BY <1>1, LineFacts, WithFields
<1>3. MayHang(0, 0, id) /\ Held(<<>>, id)
  BY DEF MayHang, Held
<1>4. OfAnAnnexure(id)
  <2>1. Line.num[1] \in 1..999
    BY LineFacts DEF OpenAnnexure, IsLine
  <2>2. PICK k \in 1..999 : Line.num[1] = k
    BY <2>1
  <2>3. AnnexureMark + k \in AnnexureMark..AppendixMark - 1
    BY DEF AnnexureMark, AppendixMark
  <2> DEFINE m == AnnexureMark + k
  <2> HIDE DEF m
  <2>4. <<m>> # <<>> /\ <<m>>[1] = m
    OBVIOUS
  <2>5. OfAnAnnexure(<<m>>)
    BY <2>3, <2>4 DEF OfAnAnnexure, m
  <2> QED BY <2>2, <2>5 DEF m
<1> HIDE DEF id
<1>5. /\ OpensWell /\ Len(nodes') = Len(nodes) + 1 /\ nodes'[Len(nodes) + 1].section = id
      /\ builder'.section = id /\ builder'.listAnchor = 0
  BY <1>2, <1>3, BuilderFacts, OpensWith
<1>6. Len(nodes) \in Nat
  BY LineFacts
<1> QED BY <1>2, <1>4, <1>5, <1>6 DEF SectionInv

\* Before the annexures.
LEMMA BodyOnly ==
  ASSUME AtLine, ~InAnnexures
  PROVE  annexure = 0
BY PartsFollow

LEMMA OpenSectionWell == ASSUME AtLine, OpenSection PROVE OpensWell /\ SectionInv'
<1> DEFINE id == Line.num
           stack == <<Len(nodes) + 1>>
           b == With(stack, id, <<>>, Line.num[1], builder.listAnchor)
<1>1. Line.num[1] \in Nat /\ annexure' = 0
  BY LineFacts, BodyOnly DEF OpenSection, LooksLikeSection, IsLine
<1>2. Opens(id, "SECTION", 1, 0, InSection(id, <<>>, Line.num[1], stack))
  BY DEF OpenSection, InSection
<1>4. /\ IsSequence(stack) /\ DOMAIN stack = {1} /\ stack[1] = Len(nodes) + 1
      /\ stack # <<>>
  <2> DEFINE n == Len(nodes) + 1
  <2> HIDE DEF n
  <2>1. <<n>> \in Seq({n}) /\ DOMAIN <<n>> = {1} /\ <<n>>[1] = n /\ <<n>> # <<>>
    OBVIOUS
  <2>2. IsSequence(<<n>>)
    BY <2>1 DEF IsSequence
  <2> QED BY <2>1, <2>2 DEF n
<1>5. MayHang(1, 0, id) /\ Held(stack, id)
  BY <1>4 DEF MayHang, Held
<1>6. Opens(id, "SECTION", 1, 0, b)
  <2> HIDE DEF id, stack
  <2> QED BY <1>2, LineFacts, WithFields
<1> HIDE DEF stack
<1>7. /\ OpensWell /\ Len(nodes') = Len(nodes) + 1 /\ nodes'[Len(nodes) + 1].depth = 1
      /\ builder'.stack = stack
  BY <1>1, <1>4, <1>5, <1>6, BuilderFacts, OpensWith
<1> QED BY <1>1, <1>4, <1>7 DEF SectionInv

LEMMA OpenLocalListWell == ASSUME AtLine, OpenLocalList PROVE OpensWell /\ SectionInv'
<1> DEFINE parent == IF builder.stack = <<>> THEN 0 ELSE Head(builder.stack)
           prefix == Append(builder.section, ListMark)
           b == With(builder.stack, builder.section, prefix, builder.lastSection,
                     builder.listAnchor)
<1>1. /\ annexure = 0 /\ ~appendix /\ builder.lastSection > 0
      /\ UNCHANGED <<annexure, appendix>>
  <2>1. ~InAnnexures /\ ~InAppendix /\ Line.num[1] <= builder.lastSection
        /\ Line.kind = "numbered" /\ UNCHANGED <<annexure, appendix>>
    BY DEF OpenLocalList, InText, LooksLikeSection
  <2>2. Line.num[1] \in 1..999 /\ builder.lastSection \in Nat
    BY <2>1, LineFacts, BuilderFacts DEF IsLine
  <2>3. annexure = 0 /\ ~appendix
    BY <2>1, PartsFollow
  <2>4. builder.lastSection > 0
    <3>1. Line.num[1] <= builder.lastSection
      BY <2>1
    <3>2. \A i \in 1..999, j \in Nat : i <= j => j > 0
      OBVIOUS
    <3> QED BY <2>2, <3>1, <3>2
  <2> QED BY <2>1, <2>3, <2>4
<1>2. builder.stack # <<>> /\ nodes[builder.stack[1]].depth = 1
  BY <1>1, LineFacts DEF AtLine, ReadInv, SectionInv
<1>3. /\ IsSequence(builder.stack) /\ 1 \in DOMAIN builder.stack
      /\ builder.stack[1] \in 1..Len(nodes)
      /\ nodes[builder.stack[1]].section = builder.section
  <2>1. 1 \in DOMAIN builder.stack
    BY <1>2, BuilderFacts, SequenceFacts
  <2> QED BY <2>1, BuilderFacts
<1>4. parent = builder.stack[1] /\ parent \in Nat
  <2>1. Head(builder.stack) = builder.stack[1]
    BY <1>2, <1>3 DEF IsSequence
  <2> QED BY <1>2, <1>3, <2>1, LineFacts
<1>5. PICK id : Opens(id, "CLAUSE", 2, parent, Prefixed(prefix))
  BY DEF OpenLocalList, Prefixed
<1> HIDE DEF parent, prefix
<1>6. Opens(id, "CLAUSE", 2, parent, b)
  BY <1>5, LineFacts, WithFields
<1>7. MayHang(2, parent, builder.section)
  BY <1>2, <1>3, <1>4 DEF MayHang
<1>8. Held(builder.stack, builder.section)
  BY BuilderFacts DEF Held
<1>9. /\ OpensWell /\ \A n \in 1..Len(nodes) : nodes'[n] = nodes[n]
      /\ builder'.stack = builder.stack
  BY <1>4, <1>6, <1>7, <1>8, BuilderFacts, OpensWith
<1> QED BY <1>1, <1>2, <1>3, <1>9 DEF SectionInv

\* What the popped stack holds.
LEMMA PoppedHolds ==
  ASSUME AtLine, NEW depth
  PROVE  /\ \A k \in DOMAIN Popped(depth) :
              /\ Popped(depth)[k] = builder.stack[k] /\ Popped(depth)[k] \in 1..Len(nodes)
              /\ nodes[Popped(depth)[k]].section = builder.section
         /\ Popped(depth) # <<>> =>
              /\ Last(Popped(depth)) \in 1..Len(nodes)
              /\ nodes[Last(Popped(depth))].section = builder.section
              /\ nodes[Last(Popped(depth))].depth < depth
<1> DEFINE stack == Popped(depth)
<1>1. /\ IsSequence(stack)
      /\ \A k \in DOMAIN stack : k \in DOMAIN builder.stack /\ stack[k] = builder.stack[k]
      /\ stack # <<>> => nodes[Last(stack)].depth < depth
  BY LineFacts, PoppedFacts
<1> HIDE DEF stack
<1>2. \A k \in DOMAIN stack :
        stack[k] \in 1..Len(nodes) /\ nodes[stack[k]].section = builder.section
  BY <1>1, BuilderFacts
<1>3. stack # <<>> => Last(stack) = stack[Len(stack)] /\ Len(stack) \in DOMAIN stack
  BY <1>1, SequenceFacts DEF Last
<1> QED BY <1>1, <1>2, <1>3 DEF stack

\* A stack of the section with the new node on it.
LEMMA PushedHolds ==
  ASSUME AtLine, NEW stack, IsSequence(stack),
         \A k \in DOMAIN stack :
           stack[k] \in 1..Len(nodes) /\ nodes[stack[k]].section = builder.section
  PROVE  /\ IsSequence(Append(stack, Len(nodes) + 1))
         /\ Held(Append(stack, Len(nodes) + 1), builder.section)
         /\ stack # <<>> => /\ Append(stack, Len(nodes) + 1) # <<>>
                            /\ Append(stack, Len(nodes) + 1)[1] = stack[1]
<1> DEFINE new == Len(nodes) + 1
<1> HIDE DEF new
<1>1. /\ IsSequence(Append(stack, new)) /\ DOMAIN Append(stack, new) = 1..Len(stack) + 1
      /\ \A i \in 1..Len(stack) : Append(stack, new)[i] = stack[i]
      /\ Append(stack, new)[Len(stack) + 1] = new
      /\ Len(Append(stack, new)) = Len(stack) + 1
  BY AppendedFacts
<1>2. DOMAIN stack = 1..Len(stack) /\ Len(stack) \in Nat /\ (stack # <<>> => Len(stack) > 0)
  BY SequenceFacts
<1>3. \A k \in DOMAIN Append(stack, new) : k \in DOMAIN stack \/ k = Len(stack) + 1
  BY <1>1, <1>2
<1>4. Held(Append(stack, new), builder.section)
  BY <1>1, <1>2, <1>3 DEF Held, new
<1>5. Append(stack, new) # <<>>
  BY <1>1, <1>2
<1>6. stack # <<>> => Append(stack, new)[1] = stack[1]
  BY <1>1, <1>2
<1> QED BY <1>1, <1>4, <1>5, <1>6 DEF new

\* A section stays at the bottom of the stack below its clauses.
LEMMA SectionStays ==
  ASSUME AtLine, NEW depth \in Nat, depth > 1,
         builder.stack # <<>>, nodes[builder.stack[1]].depth = 1
  PROVE  Popped(depth) # <<>> /\ Popped(depth)[1] = builder.stack[1]
         /\ builder.stack[1] \in 1..Len(nodes)
<1>1. 1 \in DOMAIN builder.stack
  BY BuilderFacts, SequenceFacts
<1>2. nodes[builder.stack[1]].depth < depth
  OBVIOUS
<1>3. 1 <= Len(Popped(depth)) /\ DOMAIN Popped(depth) = 1..Len(Popped(depth))
      /\ Len(Popped(depth)) \in Nat /\ IsSequence(Popped(depth))
  BY <1>1, <1>2, LineFacts, PoppedFacts
<1>4. Popped(depth) # <<>> /\ 1 \in DOMAIN Popped(depth)
  BY <1>3
<1> QED BY <1>1, <1>4, PoppedHolds, BuilderFacts

LEMMA OpenClauseWell == ASSUME AtLine, OpenClause PROVE OpensWell /\ SectionInv'
<1> DEFINE depth == Len(Line.num)
           stack == Popped(depth)
           pushed == Append(stack, Len(nodes) + 1)
           b == With(pushed, builder.section, builder.prefix, builder.lastSection,
                     builder.listAnchor)
<1>1. /\ depth \in Nat /\ depth > 1 /\ annexure = 0 /\ ~appendix
      /\ UNCHANGED <<annexure, appendix>>
  <2>1. ~InAnnexures /\ ~InAppendix /\ Len(Line.num) >= 2 /\ UNCHANGED <<annexure, appendix>>
    BY DEF OpenClause, IsClauseLine, InText
  <2>2. Len(Line.num) \in Nat
    BY LineFacts DEF IsLine
  <2> QED BY <2>1, <2>2, PartsFollow
<1>2. PICK id, kind : Opens(id, kind, depth, Top(stack), Stacked(pushed))
  BY DEF OpenClause, Stacked
<1>3. /\ IsSequence(stack)
      /\ \A k \in DOMAIN stack :
           stack[k] \in 1..Len(nodes) /\ nodes[stack[k]].section = builder.section
  BY LineFacts, PoppedFacts, PoppedHolds
<1>4. /\ IsSequence(pushed) /\ Held(pushed, builder.section)
      /\ stack # <<>> => pushed # <<>> /\ pushed[1] = stack[1]
  BY <1>3, PushedHolds
<1>5. Top(stack) \in Nat /\ MayHang(depth, Top(stack), builder.section)
  BY PoppedHolds DEF Top, MayHang
<1>6. builder.lastSection > 0 => /\ stack # <<>> /\ stack[1] \in 1..Len(nodes)
                                 /\ nodes[stack[1]].depth = 1
  <2>1. ASSUME builder.lastSection > 0
        PROVE  builder.stack # <<>> /\ nodes[builder.stack[1]].depth = 1
    BY <1>1, <2>1, LineFacts DEF AtLine, ReadInv, SectionInv
  <2> QED BY <1>1, <2>1, SectionStays
<1> HIDE DEF depth, stack, pushed
<1>7. Opens(id, kind, depth, Top(stack), b)
  BY <1>2, LineFacts, WithFields
<1>8. /\ OpensWell /\ \A n \in 1..Len(nodes) : nodes'[n] = nodes[n]
      /\ builder'.stack = pushed /\ builder'.lastSection = builder.lastSection
  BY <1>1, <1>4, <1>5, <1>7, BuilderFacts, OpensWith
<1> QED BY <1>1, <1>4, <1>6, <1>8 DEF SectionInv

LEMMA OpenAnnexureClauseWell ==
  ASSUME AtLine, OpenAnnexureClause
  PROVE  OpensWell /\ SectionInv'
<1> DEFINE depth == Len(Line.num)
           stack == Popped(depth)
           pushed == Append(stack, Len(nodes) + 1)
           anchor == IF builder.listAnchor # 0 THEN builder.listAnchor ELSE annexure
           above == IF stack = <<>> THEN annexure ELSE Last(stack)
           parent == IF depth = 1 THEN anchor ELSE above
           b == With(pushed, builder.section, builder.prefix, builder.lastSection,
                     builder.listAnchor)
<1>1. /\ depth \in Nat /\ annexure # 0 /\ ~appendix
      /\ UNCHANGED <<annexure, appendix>>
  <2>1. InAnnexures /\ ~InAppendix /\ annexure # 0 /\ UNCHANGED <<annexure, appendix>>
    BY DEF OpenAnnexureClause, IsClauseLine, InText
  <2>2. Len(Line.num) \in Nat
    BY LineFacts DEF IsLine
  <2> QED BY <2>1, <2>2, PartsFollow
<1>2. PICK id, kind : Opens(id, kind, depth, parent, Stacked(pushed))
  BY DEF OpenAnnexureClause, Stacked
<1>3. /\ IsSequence(stack)
      /\ \A k \in DOMAIN stack :
           stack[k] \in 1..Len(nodes) /\ nodes[stack[k]].section = builder.section
  BY LineFacts, PoppedFacts, PoppedHolds
<1>4. IsSequence(pushed) /\ Held(pushed, builder.section)
  BY <1>3, PushedHolds
<1>5. /\ annexure \in 1..Len(nodes) /\ OfAnAnnexure(builder.section)
      /\ nodes[annexure].section = builder.section
      /\ builder.listAnchor # 0 =>
           builder.listAnchor \in 1..Len(nodes) /\ nodes[builder.listAnchor].section = builder.section
  BY <1>1, LineFacts DEF AtLine, ReadInv, SectionInv
<1>6. parent \in 1..Len(nodes) /\ nodes[parent].section = builder.section
  <2>1. stack # <<>> => Last(stack) \in 1..Len(nodes) /\ nodes[Last(stack)].section = builder.section
    BY PoppedHolds
  <2> HIDE DEF stack, depth
  <2> QED BY <1>5, <2>1
<1>7. parent \in Nat /\ MayHang(depth, parent, builder.section)
  BY <1>5, <1>6, LineFacts DEF MayHang
<1> HIDE DEF depth, stack, pushed, parent
<1>8. Opens(id, kind, depth, parent, b)
  BY <1>2, LineFacts, WithFields
<1>9. /\ OpensWell /\ \A n \in 1..Len(nodes) : nodes'[n] = nodes[n]
      /\ Len(nodes') = Len(nodes) + 1
      /\ builder'.section = builder.section /\ builder'.listAnchor = builder.listAnchor
  BY <1>1, <1>4, <1>7, <1>8, BuilderFacts, OpensWith
<1>10. 1..Len(nodes) \subseteq 1..Len(nodes')
  BY <1>9, LineFacts
<1> QED BY <1>1, <1>5, <1>9, <1>10 DEF SectionInv

LEMMA OpenItemWell == ASSUME AtLine, OpenItem PROVE OpensWell /\ SectionInv'
<1> DEFINE stack == builder.stack
           anchor == Top(stack)
           depth == IF anchor = 0 THEN 1 ELSE nodes[anchor].depth + 1
           new == IF InAnnexures THEN Len(nodes) + 1 ELSE builder.listAnchor
           b == With(stack, builder.section, builder.prefix, builder.lastSection, new)
<1>1. /\ ~appendix /\ UNCHANGED <<annexure, appendix>> /\ (annexure # 0 <=> InAnnexures)
  <2>1. (InAnnexures => annexure # 0) /\ ~InAppendix /\ UNCHANGED <<annexure, appendix>>
    BY DEF OpenItem, IsItemLine, InText
  <2> QED BY <2>1, PartsFollow
<1>2. PICK id, kind : Opens(id, kind, depth, anchor, Anchored(new))
  BY DEF OpenItem, Anchored
<1>3. anchor # 0 => anchor \in 1..Len(nodes) /\ nodes[anchor].section = builder.section
  <2>1. stack # <<>> => Last(stack) = stack[Len(stack)] /\ Len(stack) \in DOMAIN stack
    BY BuilderFacts, SequenceFacts DEF Last
  <2> QED BY <2>1, BuilderFacts DEF Top
<1>4. anchor \in Nat /\ depth \in Nat /\ new \in Nat
  <2>1. anchor # 0 => nodes[anchor].depth \in Nat
    BY <1>3, LineFacts DEF IsNode
  <2>2. anchor \in Nat
    BY <1>3
  <2> HIDE DEF anchor
  <2> QED BY <2>1, <2>2, LineFacts, BuilderFacts
<1>5. MayHang(depth, anchor, builder.section)
  <2>1. anchor # 0 => nodes[anchor].depth \in Nat
    BY <1>3, LineFacts DEF IsNode
  <2> HIDE DEF anchor
  <2> QED BY <1>3, <2>1 DEF MayHang
<1>6. Held(stack, builder.section) /\ IsSequence(stack)
  BY BuilderFacts DEF Held
<1> HIDE DEF depth, stack, anchor, new
<1>7. Anchored(new) = b
  BY LineFacts, WithFields DEF stack
<1>8. Opens(id, kind, depth, anchor, b)
  BY <1>2, <1>7
<1>9. /\ OpensWell /\ \A n \in 1..Len(nodes) : nodes'[n] = nodes[n]
      /\ Len(nodes') = Len(nodes) + 1 /\ nodes'[Len(nodes) + 1].section = builder.section
      /\ builder'.section = builder.section /\ builder'.listAnchor = new
      /\ builder'.stack = builder.stack /\ builder'.lastSection = builder.lastSection
  BY <1>4, <1>5, <1>6, <1>8, BuilderFacts, OpensWith DEF stack
<1>10. 1..Len(nodes) \subseteq 1..Len(nodes') /\ Len(nodes) + 1 \in 1..Len(nodes')
  BY <1>9, LineFacts
<1>11. SectionInv
  BY DEF AtLine, ReadInv
<1>12. builder.stack # <<>> => builder.stack[1] \in 1..Len(nodes)
  BY BuilderFacts, SequenceFacts
<1>13. CASE annexure = 0
  BY <1>1, <1>9, <1>10, <1>11, <1>12, <1>13, LineFacts DEF SectionInv
<1>14. CASE annexure # 0
  <2>1. new = Len(nodes) + 1
    BY <1>1, <1>14 DEF new
  <2> QED BY <1>1, <1>9, <1>10, <1>11, <1>14, <2>1, LineFacts DEF SectionInv
<1> QED BY <1>9, <1>13, <1>14

\* Where no node is opened, nothing changes that a parent would be found by.
LEMMA SectionKept ==
  ASSUME AtLine, AppendsWell, UNCHANGED <<annexure, appendix>>,
         builder'.lastSection = builder.lastSection, builder'.listAnchor = builder.listAnchor,
         ~appendix /\ annexure = 0 /\ builder.lastSection > 0 =>
           builder'.stack # <<>> /\ builder'.stack[1] = builder.stack[1]
  PROVE  SectionInv'
<1>1. PICK b : Appends(b) /\ GoesOn(b) /\ b.section = builder.section
  BY DEF AppendsWell
<1>2. /\ Len(nodes') = Len(nodes) /\ builder'.section = builder.section
      /\ \A n \in 1..Len(nodes) :
           nodes'[n].section = nodes[n].section /\ nodes'[n].depth = nodes[n].depth
  BY <1>1, LineFacts, AppendsNodes DEF GoesOn, Appends
<1>3. SectionInv /\ phase = "reading"
  BY LineFacts DEF AtLine, ReadInv
<1>4. builder.stack # <<>> => builder.stack[1] \in 1..Len(nodes)
  BY BuilderFacts, SequenceFacts
<1> QED BY <1>2, <1>3, <1>4 DEF SectionInv

LEMMA AppendsKeepsSection ==
  ASSUME AtLine, Appends(builder)
  PROVE  AppendsWell /\ SectionInv'
<1>1. AppendsWell
  BY AppendsAsBefore
<1>2. builder' = builder /\ UNCHANGED <<annexure, appendix>>
  BY DEF Appends
<1>3. ~appendix /\ annexure = 0 /\ builder.lastSection > 0 => builder.stack # <<>>
  BY LineFacts DEF AtLine, ReadInv, SectionInv
<1> QED BY <1>1, <1>2, <1>3, SectionKept

LEMMA CrossReferenceKeepsSection ==
  ASSUME AtLine, CrossReference
  PROVE  AppendsWell /\ SectionInv'
<1> DEFINE depth == Len(Line.num)
           stack == Popped(depth)
<1>1. AppendsWell
  BY CrossReferenceWell
<1>2. builder' = Stacked(stack) /\ UNCHANGED <<annexure, appendix>> /\ Len(Line.num) >= 2
  BY DEF CrossReference, Appends, Stacked, IsClauseLine
<1>3. /\ builder'.lastSection = builder.lastSection /\ builder'.listAnchor = builder.listAnchor
      /\ builder'.stack = stack
  <2> HIDE DEF stack
  <2> QED BY <1>2, LineFacts, WithFields DEF With
<1>4. ASSUME ~appendix, annexure = 0, builder.lastSection > 0
      PROVE  stack # <<>> /\ stack[1] = builder.stack[1]
  <2>1. builder.stack # <<>> /\ nodes[builder.stack[1]].depth = 1
    BY <1>4, LineFacts DEF AtLine, ReadInv, SectionInv
  <2>2. Len(Line.num) \in Nat /\ Len(Line.num) > 1
    BY <1>2, LineFacts DEF IsLine
  <2> QED BY <2>1, <2>2, SectionStays
<1> QED BY <1>1, <1>2, <1>3, <1>4, SectionKept

\* Whatever a line is, it opens a node, is appended to one, or is passed over.
LEMMA EveryLine ==
  ASSUME AtLine, TreeNext
  PROVE  (OpensWell \/ AppendsWell \/ PassesWell) /\ SectionInv'
<1>1. ASSUME PassesWell
      PROVE  SectionInv'
  BY <1>1, LineFacts DEF PassesWell, Passes, SectionInv, AtLine, ReadInv
<1>2. CASE SkipFront
  BY <1>1, <1>2, SkipFrontWell
<1>3. CASE OpenAppendix
  BY <1>3, OpenAppendixWell
<1>4. CASE AppendixLine
  <2>1. CASE appendix
    BY <1>4, <2>1, AppendsKeepsSection DEF AppendixLine
  <2>2. CASE ~appendix
    BY <1>1, <1>4, <2>2, AppendixLineWell
  <2> QED BY <2>1, <2>2
<1>5. CASE OpenAnnexure
  BY <1>5, OpenAnnexureWell
<1>6. CASE AnnexureBanner
  BY <1>1, <1>6, AnnexureBannerWell
<1>7. CASE BeforeAnnexures \/ Continue
  BY <1>7, AppendsKeepsSection DEF BeforeAnnexures, Continue
<1>8. CASE OpenSection
  BY <1>8, OpenSectionWell
<1>9. CASE OpenLocalList
  BY <1>9, OpenLocalListWell
<1>10. CASE OpenClause
  BY <1>10, OpenClauseWell
<1>11. CASE CrossReference
  BY <1>11, CrossReferenceKeepsSection
<1>12. CASE OpenAnnexureClause
  BY <1>12, OpenAnnexureClauseWell
<1>13. CASE OpenItem
  BY <1>13, OpenItemWell
<1>14. ~(FindRegions \/ EndOfReading \/ FlatLine \/ EndOfFlat)
  BY LineFacts DEF FindRegions, EndOfReading, FlatLine, EndOfFlat, IsDocument
<1> QED BY <1>2, <1>3, <1>4, <1>5, <1>6, <1>7, <1>8, <1>9, <1>10, <1>11, <1>12, <1>13, <1>14
       DEF TreeNext

-----------------------------------------------------------------------------
(* A line keeps the shape and the tree, in either reading.                 *)

\* A line is read, in the first reading or the flat one.
LineRead ==
  /\ ShapeInv /\ TreeInv /\ StackInv
  /\ phase \in {"reading", "flat"} /\ at <= Len(document)
  /\ annexure' \in Nat /\ appendix' \in BOOLEAN

LEMMA LineReadFacts ==
  ASSUME LineRead
  PROVE  /\ IsSequence(nodes) /\ Len(nodes) \in Nat /\ DOMAIN nodes = 1..Len(nodes)
         /\ \A n \in 1..Len(nodes) : IsNode(nodes[n])
         /\ at + 1 \in 1..Len(document) + 1 /\ phase \in {"reading", "flat"}
         /\ IsDocument
<1>1. ShapeInv
  BY DEF LineRead
<1>2. IsSequence(nodes) /\ Len(nodes) \in Nat /\ DOMAIN nodes = 1..Len(nodes)
  BY <1>1, SequenceFacts DEF ShapeInv
<1>3. IsDocument
  BY <1>1, DocumentsAreTyped DEF ShapeInv
<1> QED BY <1>1, <1>2, <1>3 DEF ShapeInv, LineRead, IsDocument

\* What is decided over the document is decided once.
LEMMA RegionsStay ==
  ASSUME document' = document
  PROVE  Regions' = Regions /\ Candidates' = Candidates
<1>1. \A i : Page(i)' = Page(i)
  BY DEF Page
<1>2. Pages' = Pages
  BY <1>1 DEF Pages
<1>3. \A p : OnPage(p)' = OnPage(p)
  BY <1>1 DEF OnPage
<1>4. Ceiling' = Ceiling
  BY DEF Ceiling
<1>5. \A i : IsHeading(i)' = IsHeading(i)
  BY <1>4 DEF IsHeading
<1>6. TocStart' = TocStart /\ NoPage' = NoPage
  BY <1>2, <1>3 DEF TocStart, Earliest, NoPage
<1>7. BodyStart' = BodyStart
  BY <1>2, <1>3, <1>5, <1>6 DEF BodyStart
<1>8. AnnexureStart' = AnnexureStart
  BY <1>2, <1>3, <1>6, <1>7 DEF AnnexureStart, Earliest
<1>9. AppendixStart' = AppendixStart
  BY <1>2, <1>3, <1>6, <1>7 DEF AppendixStart, Earliest
<1>10. Candidates' = Candidates
  BY <1>1, <1>7, <1>8 DEF Candidates
<1> QED BY <1>1, <1>4, <1>7, <1>8, <1>9, <1>10 DEF Regions, Defines

\* The shape after a line, from what became of the nodes and the builder.
LEMMA LineKeepsShape ==
  ASSUME LineRead, IsSequence(nodes'), \A n \in DOMAIN nodes' : IsNode(nodes'[n]),
         IsBuilder(builder'), builder'.current \in {0, Len(nodes')},
         Walking => builder'.current = Len(nodes'), builder'.flat = builder.flat,
         at' = at + 1, UNCHANGED <<document, regions, phase>>
  PROVE  ShapeInv'
<1>1. ShapeInv /\ phase \in {"reading", "flat"}
  BY DEF LineRead
<1>2. /\ document' = document /\ document \in Documents
      /\ phase' = phase /\ phase' \in {"brought", "reading", "flat", "read", "compiled"}
      /\ phase' # "brought"
  BY <1>1 DEF ShapeInv
<1>3. document' \in Documents
  BY <1>1, <1>2 DEF ShapeInv
<1>4. at' \in 1..Len(document') + 1
  BY <1>2, LineReadFacts
<1>5. annexure' \in Nat /\ appendix' \in BOOLEAN
  BY DEF LineRead
<1>6. Walking' => builder'.current = Len(nodes') /\ ~builder'.flat
  BY <1>1, <1>2 DEF ShapeInv, Walking
<1>7. regions' = Regions'
  <2>1. regions = Regions
    BY <1>1 DEF ShapeInv
  <2>2. Regions' = Regions
    BY <1>2, RegionsStay
  <2> QED BY <2>1, <2>2
<1>8. phase' = "flat" => builder'.flat
  BY <1>1, <1>2 DEF ShapeInv
<1>9. ~Read'
  BY <1>1, <1>2 DEF Read
<1> QED BY <1>2, <1>3, <1>4, <1>5, <1>6, <1>7, <1>8, <1>9 DEF ShapeInv

LEMMA OpensKeepsShape ==
  ASSUME LineRead, OpensWell
  PROVE  ShapeInv' /\ TreeInv' /\ StackInv'
<1>1. PICK kind, b : \E depth, parent \in Nat :
        /\ Opened(kind, depth, parent, b) /\ GoesOn(b)
        /\ MayHang(depth, parent, b.section) /\ Held(b.stack, b.section)
  BY DEF OpensWell
<1>2. PICK depth \in Nat, parent \in Nat :
        /\ Opened(kind, depth, parent, b) /\ GoesOn(b)
        /\ MayHang(depth, parent, b.section) /\ Held(b.stack, b.section)
  BY <1>1
<1>3. ShapeInv /\ TreeInv
  BY DEF LineRead
<1>4. /\ IsSequence(nodes') /\ Len(nodes') = Len(nodes) + 1
      /\ DOMAIN nodes' = 1..Len(nodes) + 1
      /\ \A n \in 1..Len(nodes) : nodes'[n] = nodes[n]
      /\ \A n \in DOMAIN nodes' : IsNode(nodes'[n])
  BY <1>2, <1>3, OpenedNodes
<1>5. /\ IsBuilder(builder') /\ builder'.current = Len(nodes) + 1
      /\ builder'.stack = b.stack /\ builder'.section = b.section
      /\ builder'.flat = builder.flat
  BY <1>2, LineReadFacts, OpenedBuilder
<1>6. /\ nodes'[Len(nodes) + 1].parent = parent /\ nodes'[Len(nodes) + 1].depth = depth
      /\ nodes'[Len(nodes) + 1].section = b.section
  <2>1. PICK new : nodes'[Len(nodes) + 1] =
           [id |-> new, kind |-> kind, depth |-> depth,
            parent |-> parent, section |-> b.section, lines |-> <<at>>]
    BY <1>2 DEF Opened
  <2> QED BY <2>1
<1>7. at' = at + 1 /\ UNCHANGED <<document, regions, phase>>
  BY <1>2 DEF Opened
<1>8. ShapeInv'
  BY <1>4, <1>5, <1>7, LineKeepsShape
<1>9. TreeInv'
  <2> SUFFICES ASSUME NEW n \in DOMAIN nodes', nodes'[n].parent # 0
               PROVE  LET p == nodes'[n].parent
                      IN  /\ p \in 1..n - 1 /\ nodes'[p].section = nodes'[n].section
                          /\ ~OfAnAnnexure(nodes'[n].section) =>
                               nodes'[p].depth < nodes'[n].depth
    BY DEF TreeInv
  <2>1. CASE n \in 1..Len(nodes)
    <3> DEFINE p == nodes[n].parent
    <3>1. nodes'[n] = nodes[n] /\ n \in DOMAIN nodes
      BY <1>4, <2>1, LineReadFacts
    <3>2. /\ p \in 1..n - 1 /\ nodes[p].section = nodes[n].section
          /\ ~OfAnAnnexure(nodes[n].section) => nodes[p].depth < nodes[n].depth
      BY <1>3, <3>1 DEF TreeInv
    <3>3. p \in 1..Len(nodes)
      BY <2>1, <3>2, LineReadFacts
    <3> QED BY <1>4, <3>1, <3>2, <3>3
  <2>2. CASE n = Len(nodes) + 1
    BY <1>2, <1>4, <1>6, <2>2, LineReadFacts DEF MayHang
  <2> QED BY <1>4, <2>1, <2>2, LineReadFacts
<1>10. StackInv'
  BY <1>2, <1>4, <1>5, <1>6, LineReadFacts DEF StackInv, Held
<1> QED BY <1>8, <1>9, <1>10

LEMMA AppendsKeepsShape ==
  ASSUME LineRead, AppendsWell
  PROVE  ShapeInv' /\ TreeInv' /\ StackInv'
<1>1. PICK b : /\ Appends(b) /\ GoesOn(b) /\ b.section = builder.section
               /\ \A k \in DOMAIN b.stack :
                    k \in DOMAIN builder.stack /\ b.stack[k] = builder.stack[k]
  BY DEF AppendsWell
<1>2. ShapeInv /\ TreeInv /\ StackInv
  BY DEF LineRead
<1>3. /\ IsSequence(nodes') /\ Len(nodes') = Len(nodes)
      /\ DOMAIN nodes' = 1..Len(nodes)
      /\ \A n \in 1..Len(nodes) :
           /\ IsNode(nodes'[n])
           /\ nodes'[n].depth = nodes[n].depth /\ nodes'[n].parent = nodes[n].parent
           /\ nodes'[n].section = nodes[n].section
  BY <1>1, <1>2, AppendsNodes DEF GoesOn
<1>4. builder' = b /\ at' = at + 1 /\ UNCHANGED <<document, regions, phase>>
  BY <1>1 DEF Appends
<1>5. ShapeInv'
  <2>1. /\ IsBuilder(builder') /\ builder'.current = builder.current
        /\ builder'.flat = builder.flat
    BY <1>1, <1>4 DEF GoesOn
  <2>2. builder.current \in {0, Len(nodes)} /\ (Walking => builder.current = Len(nodes))
    BY <1>2 DEF ShapeInv
  <2> QED BY <1>3, <1>4, <2>1, <2>2, LineKeepsShape
<1>6. TreeInv'
  <2> SUFFICES ASSUME NEW n \in DOMAIN nodes', nodes'[n].parent # 0
               PROVE  LET p == nodes'[n].parent
                      IN  /\ p \in 1..n - 1 /\ nodes'[p].section = nodes'[n].section
                          /\ ~OfAnAnnexure(nodes'[n].section) =>
                               nodes'[p].depth < nodes'[n].depth
    BY DEF TreeInv
  <2> DEFINE p == nodes[n].parent
  <2>1. n \in 1..Len(nodes) /\ n \in DOMAIN nodes
    BY <1>3, LineReadFacts
  <2>2. /\ p \in 1..n - 1 /\ nodes[p].section = nodes[n].section
        /\ ~OfAnAnnexure(nodes[n].section) => nodes[p].depth < nodes[n].depth
    BY <1>2, <1>3, <2>1 DEF TreeInv
  <2>3. p \in 1..Len(nodes) /\ nodes'[n].parent = p
    BY <1>3, <2>1, <2>2, LineReadFacts
  <2> HIDE DEF p
  <2> QED BY <1>3, <2>1, <2>2, <2>3
<1>7. StackInv'
  BY <1>1, <1>2, <1>3, <1>4, LineReadFacts DEF StackInv
<1> QED BY <1>5, <1>6, <1>7

LEMMA PassesKeepsShape ==
  ASSUME LineRead, Passes
  PROVE  ShapeInv' /\ TreeInv' /\ StackInv'
<1>1. at' = at + 1 /\ UNCHANGED <<document, regions, phase, nodes, builder, annexure, appendix>>
  BY DEF Passes
<1>2. ShapeInv /\ TreeInv /\ StackInv
  BY DEF LineRead
<1>3. ShapeInv'
  <2>1. /\ IsSequence(nodes) /\ \A n \in DOMAIN nodes : IsNode(nodes[n])
        /\ IsBuilder(builder) /\ builder.current \in {0, Len(nodes)}
        /\ Walking => builder.current = Len(nodes)
    BY <1>2 DEF ShapeInv
  <2> QED BY <1>1, <2>1, LineKeepsShape
<1> QED BY <1>1, <1>2, <1>3 DEF TreeInv, StackInv

\* When the parts after the body are entered.
LEMMA PartsEntered ==
  ASSUME AtLine, TreeNext
  PROVE  /\ annexure' \in Nat /\ appendix' \in BOOLEAN
         /\ annexure' # annexure => InAnnexures
         /\ appendix' # appendix => InAppendix
         /\ ~appendix' => ~appendix /\
              ~(InAppendix /\ Line.kind = "appendix" /\ Line.bold)
         /\ at' = at + 1 /\ UNCHANGED <<document, regions, phase>>
<1> DEFINE heading == InAppendix /\ Line.kind = "appendix" /\ Line.bold
           kept == UNCHANGED <<annexure, appendix>>
           moved == at' = at + 1 /\ UNCHANGED <<document, regions, phase>>
<1>1. ShapeInv /\ Len(nodes) \in Nat
  BY LineFacts
<1>2. annexure \in Nat /\ appendix \in BOOLEAN
  BY <1>1 DEF ShapeInv
<1>3. CASE SkipFront
  <2>1. kept /\ moved
    BY <1>3 DEF SkipFront, Passes
  <2>2. ~InAppendix
    <3>1. Page(at) < BodyStart
      BY <1>3, LineFacts, RegionFacts DEF SkipFront
    <3>2. ASSUME Page(at) >= AppendixStart
          PROVE  FALSE
      <4>1. AppendixStart \in Nat /\ AppendixStart > BodyStart
        BY <3>2, LineFacts, AppendixHasAPage
      <4> QED BY <3>1, <3>2, <4>1, LineFacts, RegionFacts
    <3> QED BY <3>2, LineFacts, RegionFacts DEF InAppendix
  <2> QED BY <1>2, <2>1, <2>2
<1>4. CASE OpenAppendix
  <2>1. appendix' = TRUE /\ UNCHANGED annexure /\ moved /\ InAppendix
    BY <1>4 DEF OpenAppendix, Opens
  <2> QED BY <1>2, <2>1
<1>5. CASE AppendixLine
  <2>1. kept /\ moved
    BY <1>5 DEF AppendixLine, Appends, Passes
  <2>2. ~appendix => ~heading
    BY <1>5 DEF AppendixLine
  <2> QED BY <1>2, <2>1, <2>2
<1>6. CASE OpenAnnexure
  <2>1. annexure' = Len(nodes) + 1 /\ UNCHANGED appendix /\ moved /\ InAnnexures /\ ~InAppendix
    BY <1>6 DEF OpenAnnexure, Opens
  <2> QED BY <1>1, <1>2, <2>1
<1>7. CASE AnnexureBanner \/ BeforeAnnexures
  <2>1. kept /\ moved /\ ~InAppendix
    BY <1>7 DEF AnnexureBanner, BeforeAnnexures, Passes, Appends
  <2> QED BY <1>2, <2>1
<1>8. CASE OpenSection \/ OpenLocalList \/ OpenClause \/ OpenAnnexureClause \/ OpenItem
  <2>1. kept /\ moved /\ ~InAppendix
    BY <1>8 DEF OpenSection, OpenLocalList, OpenClause, OpenAnnexureClause, OpenItem,
                IsClauseLine, IsItemLine, InText, Opens
  <2> QED BY <1>2, <2>1
<1>9. CASE CrossReference \/ Continue
  <2>1. kept /\ moved /\ ~InAppendix
    BY <1>9 DEF CrossReference, Continue, IsClauseLine, InText, Appends
  <2> QED BY <1>2, <2>1
<1>10. ~(FindRegions \/ EndOfReading \/ FlatLine \/ EndOfFlat)
  BY LineFacts DEF FindRegions, EndOfReading, FlatLine, EndOfFlat, IsDocument
<1> QED BY <1>3, <1>4, <1>5, <1>6, <1>7, <1>8, <1>9, <1>10 DEF TreeNext

LEMMA LineKeepsPages == ASSUME AtLine, TreeNext PROVE PagesInv'
<1>1. /\ annexure' # annexure => regions.page[at] >= regions.annexure
      /\ appendix' # appendix => regions.page[at] >= regions.appendix
      /\ ~appendix' => ~appendix /\
           ~(regions.page[at] >= regions.appendix
               /\ document[at].kind = "appendix" /\ document[at].bold)
      /\ at' = at + 1 /\ UNCHANGED <<document, regions, phase>>
  BY PartsEntered DEF InAnnexures, InAppendix, Line
<1>2. at \in Nat /\ at \in 1..at' - 1 /\ \A i \in 1..at' - 1 : i \in 1..at - 1 \/ i = at
  BY <1>1, LineFacts DEF IsDocument
<1>3. 1..at - 1 \subseteq 1..at' - 1
  BY <1>1, <1>2
<1>4. PagesInv
  BY DEF AtLine, ReadInv
<1> QED BY <1>1, <1>2, <1>3, <1>4, LineFacts DEF PagesInv

-----------------------------------------------------------------------------
(* A line read once is in the text of one clause.                          *)

\* What is opened or appended to, is in the body.
LEMMA InBodyOrPassed ==
  ASSUME AtLine, TreeNext
  PROVE  InBody \/ PassesWell
<1>1. CASE SkipFront
  BY <1>1, SkipFrontWell
<1>2. ASSUME ~SkipFront
      PROVE  InBody
  <2>1. ~(FindRegions \/ EndOfReading \/ FlatLine \/ EndOfFlat)
    BY LineFacts DEF FindRegions, EndOfReading, FlatLine, EndOfFlat, IsDocument
  <2> QED BY <1>2, <2>1 DEF TreeNext, OpenAppendix, AppendixLine, OpenAnnexure, AnnexureBanner,
              BeforeAnnexures, OpenSection, OpenLocalList, OpenClause, CrossReference,
              OpenAnnexureClause, OpenItem, Continue, IsClauseLine, IsItemLine, InText
<1> QED BY <1>1, <1>2

LEMMA PassedStays ==
  ASSUME UNCHANGED <<document, regions>>, NEW i
  PROVE  PassedOver(i)' <=> PassedOver(i)
<1>1. document' = document /\ regions' = regions
  OBVIOUS
<1>2. \A j : Page(j)' = Page(j)
  BY <1>1 DEF Page
<1>3. \A p : OnPage(p)' = OnPage(p)
  BY <1>1, <1>2 DEF OnPage
<1> QED BY <1>1, <1>2, <1>3 DEF PassedOver

\* The lines of the nodes, after a node was opened or appended to.
LEMMA OpenedLines ==
  ASSUME AtLine, OpensWell
  PROVE  /\ DOMAIN nodes' = 1..Len(nodes) + 1 /\ nodes' # <<>>
         /\ \A n \in 1..Len(nodes) : nodes'[n].lines = nodes[n].lines
         /\ nodes'[Len(nodes) + 1].lines = <<at>>
         /\ at' = at + 1 /\ UNCHANGED <<document, regions, phase>>
         /\ builder'.flat = builder.flat
<1>1. PICK kind, b : \E depth, parent \in Nat : Opened(kind, depth, parent, b) /\ GoesOn(b)
  BY DEF OpensWell
<1>2. PICK depth \in Nat, parent \in Nat : Opened(kind, depth, parent, b) /\ GoesOn(b)
  BY <1>1
<1>3. /\ IsSequence(nodes') /\ Len(nodes') = Len(nodes) + 1 /\ Len(nodes) \in Nat
      /\ DOMAIN nodes' = 1..Len(nodes) + 1
      /\ \A n \in 1..Len(nodes) : nodes'[n] = nodes[n]
  BY <1>2, LineFacts, OpenedNodes
<1>4. nodes' # <<>>
  <2>1. ASSUME nodes' = <<>>
        PROVE  FALSE
    <3>1. Len(nodes') = 0
      BY <2>1
    <3> QED BY <1>3, <3>1
  <2> QED BY <2>1
<1>5. nodes'[Len(nodes) + 1].lines = <<at>>
  <2>1. PICK new : nodes'[Len(nodes) + 1] =
           [id |-> new, kind |-> kind, depth |-> depth,
            parent |-> parent, section |-> b.section, lines |-> <<at>>]
    BY <1>2 DEF Opened
  <2> QED BY <2>1
<1>6. builder'.flat = builder.flat
  BY <1>2, LineFacts, OpenedBuilder
<1> QED BY <1>2, <1>3, <1>4, <1>5, <1>6 DEF Opened

LEMMA AppendedLines ==
  ASSUME AtLine, AppendsWell
  PROVE  /\ DOMAIN nodes' = 1..Len(nodes)
         /\ \A n \in 1..Len(nodes) : n # Len(nodes) => nodes'[n].lines = nodes[n].lines
         /\ Len(nodes) # 0 => nodes'[Len(nodes)].lines = Append(nodes[Len(nodes)].lines, at)
         /\ Len(nodes) = 0 => nodes' = nodes /\ nodes = <<>>
         /\ at' = at + 1 /\ UNCHANGED <<document, regions, phase>>
         /\ builder'.flat = builder.flat
<1>1. PICK b : Appends(b) /\ GoesOn(b)
  BY DEF AppendsWell
<1>2. b.current = builder.current /\ b.flat = builder.flat /\ builder.current = Len(nodes)
  BY <1>1, LineFacts DEF GoesOn
<1>3. /\ DOMAIN nodes' = 1..Len(nodes)
      /\ \A n \in 1..Len(nodes) : n # builder.current => nodes'[n] = nodes[n]
      /\ builder.current # 0 =>
           /\ builder.current \in 1..Len(nodes)
           /\ nodes'[builder.current] =
                [nodes[builder.current] EXCEPT !.lines = Append(@, at)]
  BY <1>1, <1>2, LineFacts, AppendsNodes
<1>4. ASSUME Len(nodes) # 0
      PROVE  nodes'[Len(nodes)].lines = Append(nodes[Len(nodes)].lines, at)
  <2>1. IsNode(nodes[Len(nodes)])
    BY <1>2, <1>3, <1>4, LineFacts
  <2> QED BY <1>2, <1>3, <1>4, <2>1 DEF IsNode
<1>5. Len(nodes) = 0 => nodes' = nodes /\ nodes = <<>>
  BY <1>1, <1>2, LineFacts, SequenceFacts DEF Appends
<1>6. /\ at' = at + 1 /\ UNCHANGED <<document, regions, phase>> /\ builder' = b
  BY <1>1 DEF Appends
<1> QED BY <1>2, <1>3, <1>4, <1>5, <1>6

\* What TextInv says at a line.
LEMMA TextAtLine ==
  ASSUME AtLine
  PROVE  /\ \A n \in 1..Len(nodes) : \A k \in DOMAIN nodes[n].lines :
              nodes[n].lines[k] \in 1..at - 1 /\ regions.page[nodes[n].lines[k]] >= regions.body
         /\ \A n, m \in 1..Len(nodes) : n < m =>
              \A k \in DOMAIN nodes[n].lines, l \in DOMAIN nodes[m].lines :
                nodes[n].lines[k] < nodes[m].lines[l]
         /\ Len(nodes) # 0 =>
              \A i \in 1..at - 1 : i >= nodes[1].lines[1] /\ ~PassedOver(i) =>
                \E n \in 1..Len(nodes) : \E k \in DOMAIN nodes[n].lines : nodes[n].lines[k] = i
         /\ \A n \in 1..Len(nodes) : /\ IsSequence(nodes[n].lines)
              /\ DOMAIN nodes[n].lines = 1..Len(nodes[n].lines) /\ Len(nodes[n].lines) \in Nat
              /\ 1 \in DOMAIN nodes[n].lines /\ nodes[n].lines[1] \in 1..at - 1
         /\ \A i \in 1..at : i \in 1..at - 1 \/ i = at
         /\ at \in Nat /\ Len(nodes) \in Nat
<1>1. TextInv /\ ~builder.flat /\ DOMAIN nodes = 1..Len(nodes) /\ Len(nodes) \in Nat /\ at \in Nat
  BY LineFacts DEF AtLine, ReadInv
<1>2. \A n \in 1..Len(nodes) :
        /\ IsSequence(nodes[n].lines) /\ DOMAIN nodes[n].lines = 1..Len(nodes[n].lines)
        /\ Len(nodes[n].lines) \in Nat /\ 1 \in DOMAIN nodes[n].lines
  BY LineFacts, SequenceFacts DEF IsNode
<1>3. Len(nodes) # 0 => nodes # <<>>
  OBVIOUS
<1>4. \A i \in 1..at : i \in 1..at - 1 \/ i = at
  BY <1>1
<1> QED BY <1>1, <1>2, <1>3, <1>4 DEF TextInv

LEMMA OpensKeepsText ==
  ASSUME AtLine, InBody, OpensWell
  PROVE  TextInv'
<1> DEFINE N == Len(nodes)
<1>1. /\ DOMAIN nodes' = 1..N + 1 /\ nodes' # <<>> /\ N \in Nat /\ at \in Nat
      /\ \A n \in 1..N : nodes'[n].lines = nodes[n].lines
      /\ at' = at + 1 /\ document' = document /\ regions' = regions
  BY OpenedLines, TextAtLine
<1>2. DOMAIN nodes'[N + 1].lines = {1} /\ nodes'[N + 1].lines[1] = at
  BY OpenedLines
<1>3. at >= 1 /\ regions.page[at] >= regions.body
  BY LineFacts DEF InBody, IsDocument
<1> HIDE DEF N
<1>4. \A n \in 1..N + 1 : n \in 1..N \/ n = N + 1
  BY <1>1
<1>5. at' - 1 = at /\ 1..at - 1 \subseteq 1..at /\ at \in 1..at
  BY <1>1, <1>3
<1>6. ASSUME NEW n \in 1..N + 1, NEW k \in DOMAIN nodes'[n].lines
      PROVE  nodes'[n].lines[k] \in 1..at /\ regions.page[nodes'[n].lines[k]] >= regions.body
  <2>1. CASE n \in 1..N
    BY <1>1, <1>5, <1>6, <2>1, TextAtLine DEF N
  <2>2. CASE n = N + 1
    BY <1>2, <1>3, <1>5, <1>6, <2>2
  <2> QED BY <1>4, <2>1, <2>2
<1>7. ASSUME NEW n \in 1..N + 1, NEW m \in 1..N + 1, n < m,
             NEW k \in DOMAIN nodes'[n].lines, NEW l \in DOMAIN nodes'[m].lines
      PROVE  nodes'[n].lines[k] < nodes'[m].lines[l]
  <2>1. n \in 1..N
    BY <1>1, <1>7
  <2>2. CASE m \in 1..N
    BY <1>1, <1>7, <2>1, <2>2, TextAtLine DEF N
  <2>3. CASE m = N + 1
    <3>1. nodes'[n].lines[k] \in 1..at - 1
      BY <1>1, <1>7, <2>1, TextAtLine DEF N
    <3> QED BY <1>1, <1>2, <1>7, <2>3, <3>1
  <2> QED BY <1>4, <2>2, <2>3
<1>8. ASSUME NEW i \in 1..at, i >= nodes'[1].lines[1], ~PassedOver(i)
      PROVE  \E n \in 1..N + 1 : \E k \in DOMAIN nodes'[n].lines : nodes'[n].lines[k] = i
  <2>1. CASE i = at
    <3>1. N + 1 \in 1..N + 1 /\ 1 \in DOMAIN nodes'[N + 1].lines
      BY <1>1, <1>2
    <3> QED BY <1>2, <2>1, <3>1
  <2>2. CASE i \in 1..at - 1
    <3>1. N # 0
      <4>1. ASSUME N = 0
            PROVE  FALSE
        <5>1. nodes'[1].lines[1] = at
          BY <1>2, <4>1
        <5> QED BY <1>1, <1>8, <2>2, <5>1
      <4> QED BY <4>1
    <3>2. 1 \in 1..N /\ 1..N \subseteq 1..N + 1
      BY <1>1, <3>1
    <3>3. i >= nodes[1].lines[1]
      BY <1>1, <1>8, <3>2
    <3>4. PICK n \in 1..N : \E k \in DOMAIN nodes[n].lines : nodes[n].lines[k] = i
      BY <1>8, <2>2, <3>1, <3>3, TextAtLine DEF N
    <3> QED BY <1>1, <3>2, <3>4
  <2> QED BY <2>1, <2>2, TextAtLine
<1>9. \A i : PassedOver(i)' <=> PassedOver(i)
  BY <1>1, PassedStays
<1> QED BY <1>1, <1>5, <1>6, <1>7, <1>8, <1>9 DEF TextInv

LEMMA AppendsKeepsText ==
  ASSUME AtLine, InBody, AppendsWell
  PROVE  TextInv'
<1> DEFINE N == Len(nodes)
           last == nodes[N].lines
<1>1. /\ DOMAIN nodes' = 1..N /\ N \in Nat /\ at \in Nat
      /\ \A n \in 1..N : n # N => nodes'[n].lines = nodes[n].lines
      /\ at' = at + 1 /\ document' = document /\ regions' = regions
  BY AppendedLines, TextAtLine
<1>2. at >= 1 /\ regions.page[at] >= regions.body
  BY LineFacts DEF InBody, IsDocument
<1>3. at' - 1 = at /\ 1..at - 1 \subseteq 1..at /\ at \in 1..at
  BY <1>1, <1>2
<1>4. CASE N = 0
  <2>1. nodes' = <<>> /\ DOMAIN nodes' = {}
    BY <1>4, AppendedLines
  <2> QED BY <2>1 DEF TextInv
<1>5. CASE N # 0
  <2>1. N \in 1..N /\ 1 \in 1..N
    BY <1>1, <1>5
  <2>2. /\ DOMAIN nodes'[N].lines = 1..Len(last) + 1 /\ Len(last) \in Nat /\ Len(last) >= 1
        /\ nodes'[N].lines[Len(last) + 1] = at
        /\ \A k \in 1..Len(last) : nodes'[N].lines[k] = last[k]
    <3>1. nodes'[N].lines = Append(last, at)
      BY <1>5, AppendedLines
    <3>2. IsSequence(last) /\ Len(last) \in Nat /\ Len(last) >= 1
      BY <2>1, TextAtLine
    <3> QED BY <3>1, <3>2, AppendedFacts
  <2>3. DOMAIN last = 1..Len(last)
    BY <2>1, TextAtLine
  <2>4. \A n \in 1..N : \A k \in DOMAIN nodes[n].lines :
          k \in DOMAIN nodes'[n].lines /\ nodes'[n].lines[k] = nodes[n].lines[k]
    <3>1. TAKE n \in 1..N
    <3>2. CASE n = N
      BY <2>2, <2>3, <3>2
    <3>3. CASE n # N
      BY <1>1, <3>3
    <3> QED BY <3>2, <3>3
  <2>5. \A n \in 1..N : \A k \in DOMAIN nodes'[n].lines :
          \/ k \in DOMAIN nodes[n].lines
          \/ n = N /\ k = Len(last) + 1 /\ nodes'[n].lines[k] = at
    <3>1. TAKE n \in 1..N
    <3>2. CASE n = N
      BY <2>2, <2>3, <3>2
    <3>3. CASE n # N
      BY <1>1, <3>3
    <3> QED BY <3>2, <3>3
  <2> HIDE DEF N, last
  <2>6. ASSUME NEW n \in 1..N, NEW k \in DOMAIN nodes'[n].lines
        PROVE  nodes'[n].lines[k] \in 1..at /\ regions.page[nodes'[n].lines[k]] >= regions.body
    <3>1. CASE k \in DOMAIN nodes[n].lines
      BY <1>3, <2>4, <3>1, TextAtLine DEF N
    <3>2. CASE nodes'[n].lines[k] = at
      BY <1>2, <1>3, <3>2
    <3> QED BY <2>5, <2>6, <3>1, <3>2
  <2>7. ASSUME NEW n \in 1..N, NEW m \in 1..N, n < m,
               NEW k \in DOMAIN nodes'[n].lines, NEW l \in DOMAIN nodes'[m].lines
        PROVE  nodes'[n].lines[k] < nodes'[m].lines[l]
    <3>1. n # N
      BY <1>1, <2>7
    <3>2. k \in DOMAIN nodes[n].lines /\ nodes'[n].lines[k] = nodes[n].lines[k]
      BY <1>1, <2>7, <3>1
    <3>3. CASE l \in DOMAIN nodes[m].lines
      BY <2>4, <2>7, <3>2, <3>3, TextAtLine DEF N
    <3>4. CASE nodes'[m].lines[l] = at
      <4>1. nodes[n].lines[k] \in 1..at - 1
        BY <3>2, TextAtLine DEF N
      <4> QED BY <1>1, <3>2, <3>4, <4>1
    <3> QED BY <2>5, <2>7, <3>3, <3>4
  <2>8. ASSUME NEW i \in 1..at, i >= nodes'[1].lines[1], ~PassedOver(i)
        PROVE  \E n \in 1..N : \E k \in DOMAIN nodes'[n].lines : nodes'[n].lines[k] = i
    <3>1. CASE i = at
      BY <1>1, <2>1, <2>2, <3>1
    <3>2. CASE i \in 1..at - 1
      <4>1. nodes'[1].lines[1] = nodes[1].lines[1]
        BY <2>1, <2>4, TextAtLine DEF N
      <4>2. PICK n \in 1..N : \E k \in DOMAIN nodes[n].lines : nodes[n].lines[k] = i
        BY <1>5, <2>8, <3>2, <4>1, TextAtLine DEF N
      <4> QED BY <2>4, <4>2
    <3> QED BY <3>1, <3>2, TextAtLine
  <2>9. \A i : PassedOver(i)' <=> PassedOver(i)
    BY <1>1, PassedStays
  <2> QED BY <1>1, <1>3, <2>6, <2>7, <2>8, <2>9 DEF TextInv
<1> QED BY <1>4, <1>5

LEMMA PassesKeepsText ==
  ASSUME AtLine, PassesWell
  PROVE  TextInv'
<1>1. /\ at' = at + 1 /\ document' = document /\ regions' = regions /\ nodes' = nodes
      /\ nodes = <<>> \/ PassedOver(at)
  BY DEF PassesWell, Passes
<1>2. at' - 1 = at /\ 1..at - 1 \subseteq 1..at /\ DOMAIN nodes = 1..Len(nodes)
  BY <1>1, LineFacts
<1>3. \A i : PassedOver(i)' <=> PassedOver(i)
  BY <1>1, PassedStays
<1>4. nodes # <<>> => Len(nodes) # 0
  BY LineFacts, SequenceFacts
<1>5. ASSUME NEW n \in DOMAIN nodes, NEW k \in DOMAIN nodes[n].lines
      PROVE  nodes[n].lines[k] \in 1..at /\ regions.page[nodes[n].lines[k]] >= regions.body
  BY <1>2, <1>5, TextAtLine
<1>6. \A n, m \in DOMAIN nodes : n < m =>
        \A k \in DOMAIN nodes[n].lines, l \in DOMAIN nodes[m].lines :
          nodes[n].lines[k] < nodes[m].lines[l]
  BY <1>2, TextAtLine
<1>7. ASSUME nodes # <<>>, NEW i \in 1..at, i >= nodes[1].lines[1], ~PassedOver(i)
      PROVE  \E n \in DOMAIN nodes : \E k \in DOMAIN nodes[n].lines : nodes[n].lines[k] = i
  <2>1. i \in 1..at - 1 /\ Len(nodes) # 0
    BY <1>1, <1>4, <1>7, TextAtLine
  <2> QED BY <1>2, <1>7, <2>1, TextAtLine
<1> QED BY <1>1, <1>2, <1>3, <1>5, <1>6, <1>7 DEF TextInv

LEMMA LineKeepsText == ASSUME AtLine, TreeNext PROVE TextInv'
<1>1. CASE PassesWell
  BY <1>1, PassesKeepsText
<1>2. CASE ~PassesWell
  BY <1>2, EveryLine, InBodyOrPassed, OpensKeepsText, AppendsKeepsText
<1> QED BY <1>1, <1>2

-----------------------------------------------------------------------------
(* A dotted number of the body opens a clause where it was chosen to.      *)

\* A line that has opened a node, once this line is read.
OpenedAfter(i) == \E n \in DOMAIN nodes' : nodes'[n].lines[1] = i

LEMMA FirstLines ==
  ASSUME AtLine
  PROVE  /\ OpensWell \/ AppendsWell \/ PassesWell =>
              \A i \in 1..at - 1 : OpenedAfter(i) <=> OpenedAt(i)
         /\ OpensWell => OpenedAfter(at)
         /\ AppendsWell \/ PassesWell => ~OpenedAfter(at)
<1>1. /\ DOMAIN nodes = 1..Len(nodes) /\ Len(nodes) \in Nat /\ at \in Nat
      /\ \A n \in 1..Len(nodes) : nodes[n].lines[1] \in 1..at - 1
  BY TextAtLine, LineFacts
<1>2. ~OpenedAt(at)
  <2>1. at \notin 1..at - 1
    BY <1>1
  <2> QED BY <1>1, <2>1 DEF OpenedAt, OpenedAfter
<1>3. ASSUME OpensWell
      PROVE  (\A i \in 1..at - 1 : OpenedAfter(i) <=> OpenedAt(i)) /\ OpenedAfter(at)
  <2>1. /\ DOMAIN nodes' = 1..Len(nodes) + 1
        /\ \A n \in 1..Len(nodes) : nodes'[n].lines = nodes[n].lines
        /\ nodes'[Len(nodes) + 1].lines = <<at>>
    BY <1>3, OpenedLines
  <2>2. nodes'[Len(nodes) + 1].lines[1] = at /\ Len(nodes) + 1 \in DOMAIN nodes'
    BY <1>1, <2>1
  <2>3. \A n \in DOMAIN nodes' : n \in 1..Len(nodes) \/ n = Len(nodes) + 1
    BY <1>1, <2>1
  <2>4. \A i \in 1..at - 1 : i # at
    BY <1>1
  <2>5. \A n \in 1..Len(nodes) : n \in DOMAIN nodes'
    BY <1>1, <2>1
  <2> QED BY <1>1, <2>1, <2>2, <2>3, <2>4, <2>5 DEF OpenedAt, OpenedAfter
<1>4. ASSUME AppendsWell
      PROVE  \A i : OpenedAfter(i) <=> OpenedAt(i)
  <2>1. DOMAIN nodes' = 1..Len(nodes)
    BY <1>4, AppendedLines
  <2>2. ASSUME NEW n \in 1..Len(nodes)
        PROVE  nodes'[n].lines[1] = nodes[n].lines[1]
    <3>1. CASE n # Len(nodes)
      BY <1>4, <3>1, AppendedLines
    <3>2. CASE n = Len(nodes)
      <4>1. nodes'[n].lines = Append(nodes[n].lines, at)
        <5>1. Len(nodes) # 0
          BY <1>1, <2>2, <3>2
        <5>2. nodes'[Len(nodes)].lines = Append(nodes[Len(nodes)].lines, at)
          BY <1>4, <5>1, AppendedLines
        <5> QED BY <3>2, <5>2
      <4>2. IsSequence(nodes[n].lines) /\ 1 \in 1..Len(nodes[n].lines)
        BY TextAtLine
      <4> QED BY <4>1, <4>2, AppendedFacts
    <3> QED BY <3>1, <3>2
  <2> QED BY <1>1, <2>1, <2>2 DEF OpenedAt, OpenedAfter
<1>5. ASSUME PassesWell
      PROVE  \A i : OpenedAfter(i) <=> OpenedAt(i)
  BY <1>5 DEF PassesWell, Passes, OpenedAt, OpenedAfter
<1> QED BY <1>2, <1>3, <1>4, <1>5

\* A line the choice was made for is a clause line, and does what was chosen.
LEMMA ChosenLine ==
  ASSUME AtLine, TreeNext, Dotted(at)
  PROVE  OpenedAfter(at) <=> at \in regions.definitions
<1>1. /\ Line.kind = "numbered" /\ Line.body /\ Len(Line.num) > 1 /\ Len(Line.num) \in Nat
      /\ BodyStart <= Page(at) /\ Page(at) < AnnexureStart
      /\ regions.page[at] < regions.appendix
  BY LineFacts DEF Dotted, Candidates, Line, IsLine
<1>2. /\ InBody /\ ~InAnnexures /\ ~InAppendix /\ ~(regions.page[at] < regions.body)
      /\ at \in DOMAIN document
  <2>1. /\ regions.page[at] = Page(at) /\ regions.body = BodyStart
        /\ regions.annexure = AnnexureStart /\ Page(at) \in Nat /\ BodyStart \in Nat
    BY LineFacts, RegionFacts
  <2>2. AnnexureStart \in Nat /\ AppendixStart \in Nat
    BY PartsAreNumbered
  <2>3. regions.appendix = AppendixStart
    BY RegionFacts
  <2> QED BY <1>1, <2>1, <2>2, <2>3, LineFacts DEF AtLine, InBody, InAnnexures, InAppendix
<1>3. ~LooksLikeSection /\ IsClauseLine /\ ~IsItemLine
  <2>1. \A n \in Nat : n > 1 => n # 1 /\ n >= 2
    OBVIOUS
  <2>2. Len(Line.num) # 1 /\ Len(Line.num) >= 2
    BY <1>1, <2>1, Zenon
  <2>3. Line.kind # "item"
    BY <1>1
  <2> QED BY <1>1, <1>2, <2>2, <2>3 DEF LooksLikeSection, IsClauseLine, IsItemLine, InText
<1>4. OpenClause \/ CrossReference
  <2>1. ~(FindRegions \/ EndOfReading \/ FlatLine \/ EndOfFlat)
    BY LineFacts DEF FindRegions, EndOfReading, FlatLine, EndOfFlat, IsDocument
  <2>2. ~(SkipFront \/ OpenAppendix \/ AppendixLine \/ OpenAnnexure \/ AnnexureBanner
            \/ BeforeAnnexures)
    BY <1>2 DEF SkipFront, OpenAppendix, AppendixLine, OpenAnnexure, AnnexureBanner, BeforeAnnexures
  <2>3. ~(OpenSection \/ OpenLocalList \/ OpenAnnexureClause \/ OpenItem \/ Continue)
    BY <1>2, <1>3 DEF OpenSection, OpenLocalList, OpenAnnexureClause, OpenItem, Continue
  <2> QED BY <2>1, <2>2, <2>3 DEF TreeNext
<1>5. CASE OpenClause
  BY <1>5, OpenClauseWell, FirstLines DEF OpenClause
<1>6. CASE CrossReference
  BY <1>6, CrossReferenceWell, FirstLines DEF CrossReference
<1> QED BY <1>4, <1>5, <1>6

LEMMA LineKeepsChosen == ASSUME AtLine, TreeNext PROVE ChosenInv'
<1>1. /\ at' = at + 1 /\ document' = document /\ regions' = regions /\ phase' = phase
  BY PartsEntered
<1>2. ChosenInv /\ phase = "reading" /\ ~builder.flat /\ at \in Nat
  BY LineFacts DEF AtLine, ReadInv
<1>3. \A i : Dotted(i)' <=> Dotted(i)
  BY <1>1, RegionsStay DEF Dotted
<1>4. \A i \in 1..at - 1 : OpenedAfter(i) <=> OpenedAt(i)
  BY EveryLine, FirstLines
<1>5. Dotted(at) => (OpenedAfter(at) <=> at \in regions.definitions)
  BY ChosenLine
<1>6. \A i \in 1..at' - 1 : i \in 1..at - 1 \/ i = at
  BY <1>1, <1>2
<1> QED BY <1>1, <1>2, <1>3, <1>4, <1>5, <1>6 DEF ChosenInv, OpenedAt, OpenedAfter

-----------------------------------------------------------------------------
(* A line, in the first reading.                                           *)

LEMMA LineKeepsReadInv == ASSUME AtLine, TreeNext PROVE ReadInv'
<1>1. annexure' \in Nat /\ appendix' \in BOOLEAN
  BY PartsEntered
<1>2. LineRead
  BY <1>1, LineFacts DEF LineRead, AtLine, ReadInv, Reading
<1>3. ShapeInv' /\ TreeInv' /\ StackInv'
  BY <1>2, EveryLine, OpensKeepsShape, AppendsKeepsShape, PassesKeepsShape DEF PassesWell
<1> QED BY <1>3, EveryLine, LineKeepsPages, LineKeepsText, LineKeepsChosen DEF ReadInv

-----------------------------------------------------------------------------
(* Before the walk, after it, and the flat reading.                        *)

\* The builder a reading starts with, the first or the flat one.
Starting(flat) ==
  [current |-> 0, stack |-> <<>>, section |-> <<>>, prefix |-> <<>>,
   lastSection |-> 0, listAnchor |-> 0, flat |-> flat, highest |-> 0]

LEMMA NothingIsSequence == IsSequence(<<>>)
<1>1. <<>> \in Seq({})
  OBVIOUS
<1> QED BY <1>1 DEF IsSequence

LEMMA NewBuilderFacts ==
  /\ NewBuilder = Starting(FALSE) /\ [NewBuilder EXCEPT !.flat = TRUE] = Starting(TRUE)
  /\ \A flat \in BOOLEAN :
       LET b == Starting(flat)
       IN  /\ IsBuilder(b) /\ b.current = 0 /\ b.stack = <<>> /\ b.lastSection = 0
           /\ b.flat = flat
<1>1. NewBuilder = Starting(FALSE)
  BY DEF NewBuilder, Starting
<1>2. [NewBuilder EXCEPT !.flat = TRUE] = Starting(TRUE)
  <2>1. ASSUME NEW f, NEW v
        PROVE  [Starting(f) EXCEPT !.flat = v] = Starting(v)
    BY DEF Starting
  <2> QED BY <1>1, <2>1
<1>3. ASSUME NEW flat \in BOOLEAN
      PROVE  LET b == Starting(flat)
             IN  /\ IsBuilder(b) /\ b.current = 0 /\ b.stack = <<>> /\ b.lastSection = 0
                 /\ b.flat = flat
  BY <1>3, NothingIsSequence DEF IsBuilder, Starting
<1> QED BY <1>1, <1>2, <1>3

LEMMA InitHolds == ASSUME TreeInit PROVE ReadInv
<1>1. /\ document \in Documents /\ at = 1 /\ phase = "brought" /\ nodes = <<>>
      /\ builder = NewBuilder /\ annexure = 0 /\ appendix = FALSE
  BY DEF TreeInit
<1>2. /\ IsBuilder(builder) /\ builder.current = 0 /\ builder.stack = <<>> /\ ~builder.flat
  BY <1>1, NewBuilderFacts
<1>3. IsSequence(nodes) /\ DOMAIN nodes = {} /\ Len(nodes) = 0 /\ DOMAIN builder.stack = {}
  <2>1. <<>> \in Seq({})
    OBVIOUS
  <2> QED BY <1>1, <1>2, <2>1 DEF IsSequence
<1>4. 1 \in 1..Len(document) + 1
  <2>1. Len(document) \in Nat
    BY <1>1, DocumentsAreTyped DEF IsDocument
  <2> QED BY <2>1
<1>5. ShapeInv
  BY <1>1, <1>2, <1>3, <1>4 DEF ShapeInv, Walking, Read
<1> QED BY <1>1, <1>2, <1>3, <1>5
        DEF ReadInv, PagesInv, TextInv, ChosenInv, TreeInv, StackInv, SectionInv

LEMMA FindRegionsHolds == ASSUME ReadInv, FindRegions PROVE ReadInv'
<1>1. /\ phase = "brought" /\ phase' = "reading" /\ regions' = Regions
      /\ UNCHANGED <<document, at, nodes, builder, annexure, appendix>>
  BY DEF FindRegions
<1>2. /\ at = 1 /\ nodes = <<>> /\ builder = NewBuilder /\ annexure = 0 /\ ~appendix
  BY <1>1 DEF ReadInv, ShapeInv
<1>3. /\ builder.current = 0 /\ builder.stack = <<>> /\ ~builder.flat /\ builder.lastSection = 0
  BY <1>2, NewBuilderFacts
<1>4. DOMAIN nodes = {} /\ Len(nodes) = 0 /\ DOMAIN builder.stack = {} /\ 1..at - 1 = {}
  BY <1>2, <1>3
<1>5. regions' = Regions'
  BY <1>1, RegionsStay
<1>6. ShapeInv'
  BY <1>1, <1>2, <1>3, <1>4, <1>5 DEF ReadInv, ShapeInv, Walking, Read
<1>7. 1..at' - 1 = {} /\ DOMAIN nodes' = {} /\ nodes' = <<>> /\ DOMAIN builder'.stack = {}
  BY <1>1, <1>2, <1>4
<1>8. PagesInv' /\ SectionInv'
  BY <1>1, <1>2, <1>3, <1>7 DEF PagesInv, SectionInv
<1> QED BY <1>6, <1>7, <1>8 DEF ReadInv, TextInv, ChosenInv, TreeInv, StackInv

\* The shape, when the walk or the compile ends.
LEMMA EndKeepsShape ==
  ASSUME ShapeInv, UNCHANGED <<document, regions, nodes, annexure, appendix>>,
         phase # "brought", phase' \in {"flat", "read", "compiled"},
         IsBuilder(builder'), builder'.current \in {0, Len(nodes)},
         at' \in 1..Len(document) + 1, phase' = "flat" => builder'.flat,
         phase' # "flat" /\ ~builder'.flat => at' > Len(document)
  PROVE  ShapeInv'
<1>1. regions' = Regions'
  BY RegionsStay DEF ShapeInv
<1> QED BY <1>1 DEF ShapeInv, Walking, Read

\* What was read, once it is not touched any more.
LEMMA TextStays ==
  ASSUME TextInv, ChosenInv, phase # "brought", UNCHANGED <<document, regions, at, nodes>>,
         builder'.flat = builder.flat
  PROVE  TextInv' /\ ChosenInv'
<1>1. \A i : PassedOver(i)' <=> PassedOver(i)
  BY PassedStays
<1>2. \A i : Dotted(i)' <=> Dotted(i)
  BY RegionsStay DEF Dotted
<1>3. TextInv'
  BY <1>1 DEF TextInv
<1>4. ChosenInv'
  BY <1>2 DEF ChosenInv, OpenedAt
<1> QED BY <1>3, <1>4

\* A builder whose clause is closed.
LEMMA ClosedBuilder ==
  ASSUME ShapeInv, builder' = [builder EXCEPT !.current = 0]
  PROVE  /\ IsBuilder(builder') /\ builder'.current = 0 /\ builder'.stack = builder.stack
         /\ builder'.section = builder.section /\ builder'.flat = builder.flat
<1>1. PICK c, st, se, p, ls, la, f, h : builder = [current |-> c, stack |-> st, section |-> se,
          prefix |-> p, lastSection |-> ls, listAnchor |-> la, flat |-> f, highest |-> h]
  BY DEF ShapeInv, IsBuilder
<1>2. builder' = [current |-> 0, stack |-> st, section |-> se,
          prefix |-> p, lastSection |-> ls, listAnchor |-> la, flat |-> f, highest |-> h]
  BY <1>1
<1> QED BY <1>1, <1>2 DEF ShapeInv, IsBuilder

\* The reading ends: what was read stays as it is.
LEMMA EndHolds ==
  ASSUME ReadInv, phase \in {"reading", "flat"}, at > Len(document), phase' = "read",
         builder' = [builder EXCEPT !.current = 0],
         UNCHANGED <<document, regions, at, nodes, annexure, appendix>>
  PROVE  ReadInv'
<1>1. ShapeInv
  BY DEF ReadInv
<1>2. /\ IsBuilder(builder') /\ builder'.current = 0 /\ builder'.stack = builder.stack
      /\ builder'.section = builder.section /\ builder'.flat = builder.flat
  BY <1>1, ClosedBuilder
<1>3. ShapeInv'
  <2>1. at' \in 1..Len(document) + 1
    BY <1>1 DEF ShapeInv
  <2> QED BY <1>1, <1>2, <2>1, EndKeepsShape
<1>4. TextInv' /\ ChosenInv'
  BY <1>2, TextStays DEF ReadInv
<1>5. TreeInv' /\ StackInv'
  BY <1>2 DEF ReadInv, TreeInv, StackInv
<1>6. PagesInv' /\ SectionInv'
  BY DEF PagesInv, SectionInv
<1> QED BY <1>3, <1>4, <1>5, <1>6 DEF ReadInv

LEMMA EndOfReadingHolds == ASSUME ReadInv, EndOfReading PROVE ReadInv'
<1>1. /\ phase = "reading" /\ at > Len(document)
      /\ UNCHANGED <<document, regions, nodes, annexure, appendix>>
      /\ \/ phase' = "read" /\ builder' = [builder EXCEPT !.current = 0] /\ at' = at
         \/ phase' = "flat" /\ builder' = [NewBuilder EXCEPT !.flat = TRUE] /\ at' = 1
  BY DEF EndOfReading
<1>2. CASE phase' = "read"
  BY <1>1, <1>2, EndHolds
<1>3. CASE phase' = "flat"
  <2>1. builder' = [NewBuilder EXCEPT !.flat = TRUE] /\ at' = 1
    BY <1>1, <1>3
  <2>2. /\ IsBuilder(builder') /\ builder'.current = 0 /\ builder'.stack = <<>> /\ builder'.flat
    BY <2>1, NewBuilderFacts
  <2>3. ShapeInv /\ TreeInv
    BY DEF ReadInv
  <2>4. at' \in 1..Len(document) + 1
    <3>1. Len(document) \in Nat
      BY <2>3, DocumentsAreTyped DEF ShapeInv, IsDocument
    <3> QED BY <2>1, <3>1
  <2>5. ShapeInv'
    BY <1>1, <1>3, <2>2, <2>3, <2>4, EndKeepsShape
  <2>6. TreeInv'
    BY <1>1, <2>3 DEF TreeInv
  <2>7. DOMAIN builder'.stack = {}
    BY <2>2
  <2> QED BY <1>3, <2>2, <2>5, <2>6, <2>7
          DEF ReadInv, PagesInv, TextInv, ChosenInv, StackInv, SectionInv
<1> QED BY <1>1, <1>2, <1>3

LEMMA FlatLineHolds == ASSUME ReadInv, FlatLine PROVE ReadInv'
<1>1. /\ ShapeInv /\ TreeInv /\ StackInv /\ phase = "flat" /\ at <= Len(document)
  BY DEF ReadInv, FlatLine
<1>2. builder.flat /\ IsBuilder(builder) /\ IsSequence(nodes)
      /\ annexure \in Nat /\ appendix \in BOOLEAN
  BY <1>1 DEF ShapeInv
<1>3. UNCHANGED <<annexure, appendix, phase>>
  BY DEF FlatLine, Passes, Opens, Appends
<1>4. LineRead
  BY <1>1, <1>2, <1>3 DEF LineRead
<1>5. ASSUME Appends(builder)
      PROVE  ShapeInv' /\ TreeInv' /\ StackInv'
  <2>1. AppendsWell
    BY <1>2, <1>5 DEF AppendsWell, GoesOn
  <2> QED BY <1>4, <2>1, AppendsKeepsShape
<1>6. ASSUME NEW b, b = [builder EXCEPT !.highest = Line.num[1]],
             Opens(Line.num, "CLAUSE", 1, 0, b)
      PROVE  ShapeInv' /\ TreeInv' /\ StackInv'
  <2>1. GoesOn(b) /\ b.stack = builder.stack /\ b.section = builder.section
    <3>1. PICK c, st, se, p, ls, la, f, h : builder = [current |-> c, stack |-> st,
              section |-> se, prefix |-> p, lastSection |-> ls, listAnchor |-> la,
              flat |-> f, highest |-> h]
      BY <1>2 DEF IsBuilder
    <3>2. PICK x : b = [current |-> c, stack |-> st, section |-> se, prefix |-> p,
              lastSection |-> ls, listAnchor |-> la, flat |-> f, highest |-> x]
      BY <1>6, <3>1
    <3> QED BY <1>2, <3>1, <3>2 DEF GoesOn, IsBuilder
  <2>2. Opened("CLAUSE", 1, 0, b)
    BY <1>2, <1>6, OpensOpened
  <2>3. MayHang(1, 0, b.section) /\ Held(b.stack, b.section)
    BY <1>1, <2>1 DEF MayHang, Held, StackInv
  <2>4. OpensWell
    <3>1. 0 \in Nat /\ 1 \in Nat
      OBVIOUS
    <3> QED BY <2>1, <2>2, <2>3, <3>1 DEF OpensWell
  <2> QED BY <1>4, <2>4, OpensKeepsShape
<1>7. ShapeInv' /\ TreeInv' /\ StackInv'
  <2>1. Passes \/ Appends(builder)
        \/ Opens(Line.num, "CLAUSE", 1, 0, [builder EXCEPT !.highest = Line.num[1]])
    BY DEF FlatLine
  <2> QED BY <1>4, <1>5, <1>6, <2>1, PassesKeepsShape
<1>8. phase' = "flat" /\ builder'.flat
  BY <1>1, <1>3, <1>7 DEF ShapeInv
<1> QED BY <1>7, <1>8 DEF ReadInv, PagesInv, TextInv, ChosenInv, SectionInv

LEMMA TreeStays == ASSUME ReadInv, UNCHANGED treeVars PROVE ReadInv'
<1>1. /\ document' = document /\ regions' = regions /\ at' = at /\ phase' = phase
      /\ nodes' = nodes /\ builder' = builder /\ annexure' = annexure /\ appendix' = appendix
  BY DEF treeVars
<1>2. ShapeInv'
  BY <1>1, RegionsStay DEF ReadInv, ShapeInv, Walking, Read, NewBuilder
<1>3. PagesInv' /\ TreeInv' /\ StackInv' /\ SectionInv'
  BY <1>1 DEF ReadInv, PagesInv, TreeInv, StackInv, SectionInv, OfAnAnnexure
<1>4. \A i : PassedOver(i)' <=> PassedOver(i)
  BY <1>1, PassedStays
<1>5. TextInv'
  BY <1>1, <1>4 DEF ReadInv, TextInv
<1>6. \A i : Dotted(i)' <=> Dotted(i)
  BY <1>1, RegionsStay DEF Dotted
<1>7. ChosenInv'
  BY <1>1, <1>6 DEF ReadInv, ChosenInv, OpenedAt
<1> QED BY <1>2, <1>3, <1>5, <1>7 DEF ReadInv

LEMMA TreeStepHolds == ASSUME ReadInv, TreeNext PROVE ReadInv'
<1>1. CASE Reading
  BY <1>1, LineKeepsReadInv DEF AtLine
<1>2. CASE FindRegions
  BY <1>2, FindRegionsHolds
<1>3. CASE EndOfReading
  BY <1>3, EndOfReadingHolds
<1>4. CASE FlatLine
  BY <1>4, FlatLineHolds
<1>5. CASE EndOfFlat
  BY <1>5, EndHolds DEF EndOfFlat
<1>6. Reading \/ FindRegions \/ EndOfReading \/ FlatLine \/ EndOfFlat
  BY DEF TreeNext, SkipFront, OpenAppendix, AppendixLine, OpenAnnexure, AnnexureBanner,
         BeforeAnnexures, OpenSection, OpenLocalList, OpenClause, CrossReference,
         OpenAnnexureClause, OpenItem, Continue, IsClauseLine, IsItemLine, InText, InBody
<1> QED BY <1>1, <1>2, <1>3, <1>4, <1>5, <1>6

LEMMA CompileStepHolds == ASSUME ReadInv, [CompileNext]_compileVars PROVE ReadInv'
<1>1. CASE Reads
  BY <1>1, TreeStepHolds DEF Reads
<1>2. CASE ExtractByRules \/ AskModel \/ UNCHANGED compileVars
  <2>1. UNCHANGED treeVars
    BY <1>2 DEF ExtractByRules, AskModel, TryAgain, Outcome, compileVars
  <2> QED BY <2>1, TreeStays
<1>3. CASE EndOfCompile
  <2>1. /\ phase = "read" /\ phase' = "compiled" /\ builder' = builder /\ at' = at
        /\ UNCHANGED <<document, regions, nodes, annexure, appendix>>
    BY <1>3 DEF EndOfCompile
  <2>2. ShapeInv'
    BY <2>1, EndKeepsShape DEF ReadInv, ShapeInv, Read
  <2>3. TextInv' /\ ChosenInv'
    BY <2>1, TextStays DEF ReadInv
  <2>4. TreeInv' /\ StackInv'
    BY <2>1 DEF ReadInv, TreeInv, StackInv
  <2> QED BY <2>1, <2>2, <2>3, <2>4 DEF ReadInv, PagesInv, SectionInv
<1> QED BY <1>1, <1>2, <1>3 DEF CompileNext

-----------------------------------------------------------------------------
(* What ReadInv says of a circular that was read.                          *)

LEMMA ReadFacts ==
  ASSUME ReadInv, Read, ~builder.flat
  PROVE  /\ IsDocument /\ regions = Regions
         /\ DOMAIN nodes = 1..Len(nodes) /\ Len(nodes) \in Nat
         /\ \A i \in DOMAIN document : i \in 1..at - 1 /\ i \in Nat
         /\ \A n \in DOMAIN nodes : \A k \in DOMAIN nodes[n].lines :
              nodes[n].lines[k] \in Nat
         /\ \A n \in DOMAIN nodes :
              1 \in DOMAIN nodes[n].lines /\ Len(nodes[n].lines) \in DOMAIN nodes[n].lines
<1>1. ShapeInv /\ TextInv
  BY DEF ReadInv
<1>2. IsDocument /\ DOMAIN nodes = 1..Len(nodes) /\ Len(nodes) \in Nat
  BY <1>1, DocumentsAreTyped, SequenceFacts DEF ShapeInv
<1>3. regions = Regions /\ at > Len(document) /\ at \in 1..Len(document) + 1
  BY <1>1 DEF ShapeInv, Read
<1>4. \A i \in DOMAIN document : i \in 1..at - 1 /\ i \in Nat
  BY <1>2, <1>3 DEF IsDocument
<1>5. ASSUME NEW n \in DOMAIN nodes
      PROVE  /\ \A k \in DOMAIN nodes[n].lines : nodes[n].lines[k] \in Nat
             /\ 1 \in DOMAIN nodes[n].lines /\ Len(nodes[n].lines) \in DOMAIN nodes[n].lines
  <2>1. IsSequence(nodes[n].lines) /\ nodes[n].lines # <<>>
    BY <1>1, <1>5 DEF ShapeInv, IsNode
  <2>2. \A k \in DOMAIN nodes[n].lines : nodes[n].lines[k] \in 1..at - 1
    BY <1>1, <1>5 DEF TextInv
  <2> QED BY <2>1, <2>2, SequenceFacts
<1> QED BY <1>2, <1>3, <1>4, <1>5

LEMMA ReadNothingIsLost == ASSUME ReadInv PROVE NothingIsLost
<1> SUFFICES ASSUME Read, ~builder.flat
    PROVE  /\ \A i \in DOMAIN document :
                nodes # <<>> /\ i >= nodes[1].lines[1] /\ ~PassedOver(i) =>
                  Cardinality(NodesWith(i)) = 1
           /\ \A n, m \in DOMAIN nodes : n < m =>
                Last(nodes[n].lines) < nodes[m].lines[1]
  BY DEF NothingIsLost
<1>1. TextInv
  BY DEF ReadInv
<1>2. \A n, m \in DOMAIN nodes : n < m =>
        \A k \in DOMAIN nodes[n].lines, l \in DOMAIN nodes[m].lines :
          nodes[n].lines[k] < nodes[m].lines[l]
  BY <1>1 DEF TextInv
<1>3. ASSUME NEW i \in DOMAIN document, nodes # <<>>, i >= nodes[1].lines[1], ~PassedOver(i)
      PROVE  Cardinality(NodesWith(i)) = 1
  <2>1. i \in 1..at - 1
    BY <1>3, ReadFacts
  <2>2. PICK n \in DOMAIN nodes : \E k \in DOMAIN nodes[n].lines : nodes[n].lines[k] = i
    BY <1>1, <1>3, <2>1 DEF TextInv
  <2>3. ASSUME NEW m \in NodesWith(i)
        PROVE  m = n
    <3>1. m \in DOMAIN nodes /\ \E l \in DOMAIN nodes[m].lines : nodes[m].lines[l] = i
      BY <2>3 DEF NodesWith
    <3>2. i \in Nat /\ m \in Nat /\ n \in Nat
      <4>1. i \in Nat /\ DOMAIN nodes = 1..Len(nodes) /\ Len(nodes) \in Nat
        BY <1>3, ReadFacts
      <4> QED BY <2>2, <3>1, <4>1
    <3>3. ~(m < n)
      <4>1. ASSUME m < n
            PROVE  i < i
        BY <1>2, <2>2, <3>1, <4>1
      <4> QED BY <3>2, <4>1
    <3>4. ~(n < m)
      <4>1. ASSUME n < m
            PROVE  i < i
        BY <1>2, <2>2, <3>1, <4>1
      <4> QED BY <3>2, <4>1
    <3> QED BY <3>2, <3>3, <3>4
  <2>4. NodesWith(i) = {n}
    BY <2>2, <2>3 DEF NodesWith
  <2> QED BY <2>4, FS_Singleton
<1>4. ASSUME NEW n \in DOMAIN nodes, NEW m \in DOMAIN nodes, n < m
      PROVE  Last(nodes[n].lines) < nodes[m].lines[1]
  BY <1>2, <1>4, ReadFacts DEF Last
<1> QED BY <1>3, <1>4

\* Of the lines printed with one number one defines it, and no other is further left.
LEMMA OneDefines ==
  ASSUME IsDocument, NEW same \in SUBSET DOMAIN document, same # {}
  PROVE  \E c \in same :
           /\ \A j \in same : document[c].x <= document[j].x
           /\ \A d \in same : d = c <=> \A j \in same :
                document[d].x < document[j].x \/ (document[d].x = document[j].x /\ d <= j)
<1> DEFINE xs == {document[j].x : j \in same}
           leftmost == {j \in same : document[j].x = Min(xs)}
<1>1. \A j \in same : j \in Nat /\ document[j].x \in Nat
  <2>1. /\ DOMAIN document = 1..Len(document) /\ Len(document) \in Nat
        /\ \A i \in DOMAIN document : IsLine(document[i])
    BY DEF IsDocument
  <2>2. \A i \in DOMAIN document : document[i].x \in Nat
    BY <2>1 DEF IsLine
  <2>3. \A i \in DOMAIN document : i \in Nat
    BY <2>1
  <2> QED BY <2>2, <2>3
<1>2. Min(xs) \in xs /\ \A y \in xs : Min(xs) <= y
  <2>1. xs \in SUBSET Nat /\ xs # {}
    BY <1>1
  <2> QED BY <2>1, MinIsLeast
<1>3. leftmost \in SUBSET Nat /\ leftmost # {} /\ leftmost \subseteq same
  BY <1>1, <1>2
<1> DEFINE c == Min(leftmost)
<1>4. c \in leftmost /\ \A y \in leftmost : c <= y
  BY <1>3, MinIsLeast
<1>5. c \in same /\ c \in Nat /\ document[c].x = Min(xs) /\ Min(xs) \in Nat
  BY <1>1, <1>4
<1>6. \A j \in same : document[c].x <= document[j].x
  BY <1>2, <1>5
<1>7. \A j \in same : document[j].x = document[c].x => c <= j
  BY <1>4, <1>5
<1> HIDE DEF c, leftmost, xs
<1>8. ASSUME NEW d \in same
      PROVE  d = c <=> \A j \in same :
                document[d].x < document[j].x \/ (document[d].x = document[j].x /\ d <= j)
  <2>1. ASSUME d = c, NEW j \in same
        PROVE  document[d].x < document[j].x \/ (document[d].x = document[j].x /\ d <= j)
    <3>1. document[c].x <= document[j].x /\ document[c].x \in Nat /\ document[j].x \in Nat
      BY <1>1, <1>5, <1>6, <2>1
    <3> QED BY <1>7, <2>1, <3>1
  <2>2. ASSUME \A j \in same :
                 document[d].x < document[j].x \/ (document[d].x = document[j].x /\ d <= j)
        PROVE  d = c
    <3>1. document[d].x < document[c].x \/ (document[d].x = document[c].x /\ d <= c)
      BY <1>5, <2>2
    <3>2. document[c].x <= document[d].x /\ document[c].x \in Nat /\ document[d].x \in Nat
      BY <1>1, <1>5, <1>6, <1>8
    <3>3. document[d].x = document[c].x /\ d <= c
      BY <3>1, <3>2
    <3>4. c <= d /\ c \in Nat /\ d \in Nat
      BY <1>1, <1>5, <1>7, <1>8, <3>3
    <3> QED BY <3>3, <3>4
  <2> QED BY <2>1, <2>2
<1> QED BY <1>5, <1>6, <1>8

LEMMA ReadDefinedOnce == ASSUME ReadInv PROVE DefinedOnce
<1> SUFFICES ASSUME Read, ~builder.flat
    PROVE  DefinedOnce
  BY DEF DefinedOnce
<1> DEFINE body == {i \in Candidates : Len(document[i].num) > 1}
           same(i) == {j \in body : document[j].num = document[i].num}
           clauses(i) == {j \in same(i) : OpenedAt(j)}
<1>1. ASSUME NEW i \in body, \A j \in same(i) : regions.page[j] < regions.appendix
      PROVE  /\ Cardinality(clauses(i)) = 1
             /\ \A j \in same(i), c \in clauses(i) : document[c].x <= document[j].x
  <2>1. same(i) \subseteq DOMAIN document /\ i \in same(i) /\ same(i) \subseteq Candidates
    BY <1>1 DEF Candidates
  <2>2. \A j \in same(i) : Dotted(j)
    BY <1>1 DEF Dotted
  <2>3. \A j \in same(i) : OpenedAt(j) <=> j \in regions.definitions
    <3>1. ChosenInv /\ phase # "brought"
      BY DEF ReadInv, Read
    <3>2. \A j \in same(i) : j \in 1..at - 1
      BY <2>1, ReadFacts
    <3> QED BY <2>2, <3>1, <3>2 DEF ChosenInv
  <2>4. regions.definitions = {j \in Candidates : Defines(j, Candidates)}
    BY ReadFacts DEF Regions
  <2>5. \A j \in same(i) : OpenedAt(j) <=> \A k \in same(i) :
          document[j].x < document[k].x \/ (document[j].x = document[k].x /\ j <= k)
    <3> SUFFICES ASSUME NEW j \in same(i)
        PROVE  Defines(j, Candidates) <=> \A k \in same(i) :
          document[j].x < document[k].x \/ (document[j].x = document[k].x /\ j <= k)
      BY <2>1, <2>3, <2>4
    <3>1. \A k \in Candidates : document[k].num = document[j].num <=> k \in same(i)
      BY <1>1
    <3> QED BY <2>1, <3>1 DEF Defines
  <2> HIDE DEF same
  <2>6. PICK c \in same(i) :
           /\ \A j \in same(i) : document[c].x <= document[j].x
           /\ \A d \in same(i) : d = c <=> \A j \in same(i) :
                document[d].x < document[j].x \/ (document[d].x = document[j].x /\ d <= j)
    BY <2>1, ReadFacts, OneDefines
  <2>7. clauses(i) = {c}
    BY <2>5, <2>6
  <2> QED BY <2>6, <2>7, FS_Singleton
<1> QED BY <1>1 DEF DefinedOnce, OpenedAt

LEMMA ReadTreeIsSound == ASSUME ReadInv PROVE TreeIsSound
<1>1. TreeInv /\ DOMAIN nodes = 1..Len(nodes) /\ Len(nodes) \in Nat
  BY SequenceFacts DEF ReadInv, ShapeInv
<1>2. \A n \in DOMAIN nodes : OfAnnexure(n) <=> OfAnAnnexure(nodes[n].section)
  BY DEF OfAnnexure, OfAnAnnexure
<1>3. ASSUME NEW n \in DOMAIN nodes, NEW p \in 1..n - 1
      PROVE  p < n
  BY <1>1, <1>3
<1> QED BY <1>1, <1>2, <1>3 DEF TreeIsSound, TreeInv

-----------------------------------------------------------------------------
(* The theorems.                                                           *)

LEMMA ReadInvHolds == CompileSpec => []ReadInv
<1>1. CompileInit => ReadInv
  BY InitHolds DEF CompileInit
<1>2. ReadInv /\ [CompileNext]_compileVars => ReadInv'
  BY CompileStepHolds
<1> QED BY <1>1, <1>2, PTL DEF CompileSpec

\* Whatever circular is read, from its first clause on each of its lines is in the
\* text of one clause and of no other, and the clauses stand in its order.
THEOREM NothingIsEverLost == CompileSpec => []NothingIsLost
<1>1. ReadInv => NothingIsLost
  BY ReadNothingIsLost
<1> QED BY <1>1, ReadInvHolds, PTL

\* Whatever circular is read, a dotted number of its body opens one clause, where
\* it is printed furthest left, and every other line with it cites that clause.
THEOREM NumbersAreDefinedOnce == CompileSpec => []DefinedOnce
<1>1. ReadInv => DefinedOnce
  BY ReadDefinedOnce
<1> QED BY <1>1, ReadInvHolds, PTL

\* Whatever circular is read, its clauses form a tree: each hangs on an earlier one
\* of its section and, outside annexures, of a shallower level.
THEOREM TreeAlwaysSound == CompileSpec => []TreeIsSound
<1>1. ReadInv => TreeIsSound
  BY ReadTreeIsSound
<1> QED BY <1>1, ReadInvHolds, PTL

-----------------------------------------------------------------------------
(* What the rules read in a text.                                          *)

\* The first place of some phrases is one of their places.
LEMMA FirstPlace ==
  ASSUME NEW text \in Seq(STRING), NEW phrases
  PROVE  /\ At(text, phrases) \in SUBSET Nat
         /\ First(At(text, phrases)) = 0 <=> At(text, phrases) = {}
         /\ First(At(text, phrases)) # 0 =>
              /\ First(At(text, phrases)) \in DOMAIN text
              /\ text[First(At(text, phrases))] \in phrases
<1> DEFINE S == At(text, phrases)
<1>1. S \subseteq DOMAIN text /\ \A i \in S : text[i] \in phrases
  BY DEF At
<1>2. DOMAIN text \subseteq Nat \ {0}
  OBVIOUS
<1> HIDE DEF S
<1>3. S \in SUBSET Nat /\ 0 \notin S
  BY <1>1, <1>2
<1>4. S # {} => Min(S) \in S
  BY <1>3, MinIsLeast
<1> QED BY <1>1, <1>3, <1>4 DEF First, S

\* The phrases a deadline is read from.
Stated == {"T+2 days", "within 2 working days", "within 7 days", "within 24 hours", "within 2 weeks",
           "within 6 months", "end of the month", "on demand", "immediately"}

SoundDeadline(d) ==
  /\ d.kind = "RELATIVE" => d.unit # "none" /\ d.anchor
  /\ d.kind = "END_OF_PERIOD" => d.period # "none"
  /\ d.kind = "ON_DEMAND" => d.unit = "none"
  /\ d.count # "UNSPECIFIED" => d.unit = "days"

LEMMA StatedDeadlines ==
  ASSUME NEW w \in Stated
  PROVE  /\ SoundDeadline(DeadlineOf(w)) /\ DeadlineOf(w).kind # "none" /\ w \notin Recurrences
         /\ DeadlineOf(w).count # "UNSPECIFIED" => w = "within 2 working days"
<1>1. \A unit : /\ Relative(unit, w).kind = "RELATIVE" /\ Relative(unit, w).unit = unit
                /\ Relative(unit, w).anchor = TRUE /\ Relative(unit, w).count = DayCount(w)
  BY DEF Relative, Unset
<1>2. \A period : /\ EndOf(period).kind = "END_OF_PERIOD" /\ EndOf(period).period = period
                  /\ EndOf(period).count = "UNSPECIFIED"
  BY DEF EndOf, Unset
<1>3. /\ [Unset EXCEPT !.kind = "ON_DEMAND"].kind = "ON_DEMAND"
      /\ [Unset EXCEPT !.kind = "ON_DEMAND"].unit = "none"
      /\ [Unset EXCEPT !.kind = "ON_DEMAND"].count = "UNSPECIFIED"
  BY DEF Unset
<1>4. w \notin Recurrences
  BY DEF Stated, Recurrences
<1>5. DayCount(w) # "UNSPECIFIED" => w = "within 2 working days"
  BY DEF DayCount
<1>6. CASE w \in {"T+2 days", "within 2 working days", "within 7 days", "within 2 weeks"}
  <2>1. DeadlineOf(w) = Relative("days", w)
    BY <1>6 DEF DeadlineOf
  <2> QED BY <1>1, <1>4, <1>5, <2>1 DEF SoundDeadline
<1>7. CASE w \in {"within 24 hours", "immediately"}
  <2>1. DeadlineOf(w) = Relative("hours", w) /\ DayCount(w) = "UNSPECIFIED"
    BY <1>7 DEF DeadlineOf, DayCount
  <2> QED BY <1>1, <1>4, <2>1 DEF SoundDeadline
<1>8. CASE w = "within 6 months"
  <2>1. DeadlineOf(w) = Relative("months", w) /\ DayCount(w) = "UNSPECIFIED"
    BY <1>8 DEF DeadlineOf, DayCount
  <2> QED BY <1>1, <1>4, <2>1 DEF SoundDeadline
<1>9. CASE w = "end of the month"
  <2>1. DeadlineOf(w) = EndOf("MONTH")
    BY <1>9 DEF DeadlineOf
  <2> QED BY <1>2, <1>4, <2>1 DEF SoundDeadline
<1>10. CASE w = "on demand"
  <2>1. DeadlineOf(w) = [Unset EXCEPT !.kind = "ON_DEMAND"]
    BY <1>10 DEF DeadlineOf
  <2> QED BY <1>3, <1>4, <2>1 DEF SoundDeadline
<1> QED BY <1>6, <1>7, <1>8, <1>9, <1>10 DEF Stated

LEMMA DeadlinePlace ==
  ASSUME NEW text \in Seq(STRING), DeadlineAt(text) # 0
  PROVE  DeadlineAt(text) \in DOMAIN text /\ text[DeadlineAt(text)] \in Stated
<1> DEFINE has == {k \in DOMAIN Shapes : At(text, Shapes[k]) # {}}
<1>1. DOMAIN Shapes = 1..8
  BY DEF Shapes
<1>2. has # {} /\ DeadlineAt(text) = First(At(text, Shapes[Min(has)]))
  BY DEF DeadlineAt
<1>3. has \in SUBSET Nat
  BY <1>1
<1>4. Min(has) \in 1..8
  BY <1>1, <1>2, <1>3, MinIsLeast
<1>5. \A k \in 1..8 : Shapes[k] \subseteq Stated
  <2>1. /\ Shapes[1] = {"T+2 days"} /\ Shapes[2] = {"within 2 working days", "within 7 days"}
        /\ Shapes[3] = {"within 24 hours"} /\ Shapes[4] = {"within 2 weeks"}
        /\ Shapes[5] = {"within 6 months"} /\ Shapes[6] = {"end of the month"}
        /\ Shapes[7] = {"on demand"} /\ Shapes[8] = {"immediately"}
    BY DEF Shapes
  <2>2. \A k \in 1..8 : k \in {1, 2, 3, 4, 5, 6, 7, 8}
    OBVIOUS
  <2> QED BY <2>1, <2>2 DEF Stated
<1> HIDE DEF has
<1> QED BY <1>2, <1>4, <1>5, FirstPlace

\* The deadline read is the one the phrase it is read from states.
SoundReading(read, text) ==
  /\ SoundDeadline(read.deadline)
  /\ read.at = 0 => read.deadline = Unset
  /\ read.at # 0 => /\ read.at \in DOMAIN text /\ read.deadline.kind # "none"
                    /\ read.deadline = IF text[read.at] \in Recurrences
                         THEN EndOf(PeriodOf(text[read.at])) ELSE DeadlineOf(text[read.at])
  /\ read.deadline.count # "UNSPECIFIED" => At(text, {"within 2 working days"}) # {}

LEMMA TemporalSays ==
  ASSUME NEW text \in Seq(STRING)
  PROVE  SoundReading(Temporal(text), text)
<1> DEFINE d == DeadlineAt(text)
           r == RecurrenceAt(text)
           read == Temporal(text)
<1>1. CASE d # 0
  <2>1. d \in DOMAIN text /\ text[d] \in Stated
    BY <1>1, DeadlinePlace
  <2>2. read.deadline = DeadlineOf(text[d]) /\ read.at = d
    BY <1>1 DEF Temporal
  <2>3. text[d] = "within 2 working days" => d \in At(text, {"within 2 working days"})
    BY <2>1 DEF At
  <2>4. /\ SoundDeadline(read.deadline) /\ read.deadline.kind # "none"
        /\ text[d] \notin Recurrences
        /\ read.deadline.count # "UNSPECIFIED" => text[d] = "within 2 working days"
    BY <2>1, <2>2, StatedDeadlines
  <2> HIDE DEF d
  <2> QED BY <1>1, <2>1, <2>2, <2>3, <2>4 DEF SoundReading
<1>2. CASE d = 0 /\ r # 0 /\ PeriodOf(text[r]) # "none"
  <2>1. r \in DOMAIN text /\ text[r] \in Recurrences
    BY <1>2, FirstPlace DEF RecurrenceAt
  <2>2. read.deadline = EndOf(PeriodOf(text[r])) /\ read.at = r
    BY <1>2 DEF Temporal
  <2>3. /\ read.deadline.kind = "END_OF_PERIOD" /\ read.deadline.period = PeriodOf(text[r])
        /\ read.deadline.count = "UNSPECIFIED"
    BY <2>2 DEF EndOf, Unset
  <2>4. SoundDeadline(read.deadline)
    BY <1>2, <2>3 DEF SoundDeadline
  <2> HIDE DEF r
  <2> QED BY <1>2, <2>1, <2>2, <2>3, <2>4 DEF SoundReading
<1>3. CASE d = 0 /\ ~(r # 0 /\ PeriodOf(text[r]) # "none")
  <2>1. read.deadline = Unset /\ read.at = 0
    BY <1>3 DEF Temporal
  <2>2. Unset.kind = "none" /\ Unset.count = "UNSPECIFIED"
    BY DEF Unset
  <2>3. SoundDeadline(read.deadline)
    BY <2>1, <2>2 DEF SoundDeadline
  <2> QED BY <2>1, <2>2, <2>3 DEF SoundReading
<1> QED BY <1>1, <1>2, <1>3

-----------------------------------------------------------------------------
(* Places in their order.                                                  *)

Rank(S, i) == Cardinality({j \in S : j <= i})

\* The k-th place of a set of places is the one that k of them do not exceed.
LEMMA InOrderPlaces ==
  ASSUME NEW n \in Nat, NEW S \in SUBSET (1..n)
  PROVE  /\ Cardinality(S) \in Nat /\ InOrder(S) \in [1..Cardinality(S) -> S]
         /\ \A k \in 1..Cardinality(S) : InOrder(S)[k] \in S /\ Rank(S, InOrder(S)[k]) = k
<1> DEFINE c == Cardinality(S)
           r == [i \in S |-> Rank(S, i)]
<1>1. IsFiniteSet(S) /\ c \in Nat
  <2>1. IsFiniteSet(1..n)
    BY FS_Interval
  <2>2. IsFiniteSet(S)
    BY <2>1, FS_Subset
  <2> QED BY <2>2, FS_CardinalityType
<1>2. \A i \in S : IsFiniteSet({j \in S : j <= i}) /\ Rank(S, i) \in Nat /\ Rank(S, i) <= c
  BY <1>1, FS_Subset, FS_CardinalityType DEF Rank
<1>3. \A i \in S : Rank(S, i) \in 1..c
  <2>1. TAKE i \in S
  <2>2. Rank(S, i) # 0
    <3>1. i \in {j \in S : j <= i}
      OBVIOUS
    <3> QED BY <1>2, <3>1, FS_EmptySet DEF Rank
  <2>3. Rank(S, i) \in Nat /\ Rank(S, i) <= c
    BY <1>2
  <2> HIDE DEF c
  <2> QED BY <1>1, <2>2, <2>3
<1>4. ASSUME NEW i \in S, NEW j \in S, i < j
      PROVE  Rank(S, i) # Rank(S, j)
  <2> DEFINE A == {l \in S : l <= i}
             B == {l \in S : l <= j}
  <2>1. A \in SUBSET B /\ j \in B /\ j \notin A
    <3>1. S \subseteq Nat /\ i \in Nat /\ j \in Nat /\ i < j
      BY <1>4
    <3>2. j <= j /\ ~(j <= i) /\ \A l \in Nat : l <= i => l <= j
      BY <3>1
    <3> QED BY <3>1, <3>2, <1>4
  <2>2. A # B
    BY <2>1
  <2> QED BY <1>2, <2>1, <2>2, FS_Subset DEF Rank
<1>5. \A i, j \in S : i # j => i < j \/ j < i
  OBVIOUS
<1>6. r \in Injection(S, 1..c)
  <2>1. r \in [S -> 1..c]
    BY <1>3
  <2>2. \A i, j \in S : r[i] = r[j] => i = j
    BY <1>4, <1>5
  <2> HIDE DEF r
  <2> QED BY <2>1, <2>2 DEF Injection, IsInjective
<1>7. IsFiniteSet(1..c) /\ Cardinality(1..c) = c
  BY <1>1, FS_Interval
<1>8. r \in Surjection(S, 1..c)
  BY <1>6, <1>7, FS_Injection
<1>9. \A k \in 1..c : \E i \in S : Rank(S, i) = k
  <2>1. \A k \in 1..c : \E i \in S : r[i] = k
    BY <1>8 DEF Surjection
  <2> QED BY <2>1
<1> DEFINE place(k) == CHOOSE i \in S : Rank(S, i) = k
<1>10. InOrder(S) = [k \in 1..c |-> place(k)]
  BY DEF InOrder, Rank
<1>11. \A k \in 1..c : place(k) \in S /\ Rank(S, place(k)) = k
  BY <1>9
<1> HIDE DEF place, c
<1>12. \A k \in 1..c : InOrder(S)[k] = place(k)
  BY <1>10
<1>13. InOrder(S) \in [1..c -> S]
  BY <1>10, <1>11
<1> QED BY <1>1, <1>11, <1>12, <1>13 DEF c

LEMMA WordsOf ==
  ASSUME NEW W, NEW q \in Seq(W)
  PROVE  /\ DOMAIN q = 1..Len(q) /\ Len(q) \in Nat /\ \A i \in DOMAIN q : q[i] \in W
         /\ q \o <<>> = q
OBVIOUS

LEMMA OneMore ==
  ASSUME NEW W, NEW q \in Seq(W), NEW e \in W
  PROVE  /\ Len(q \o <<e>>) = Len(q) + 1 /\ DOMAIN (q \o <<e>>) = 1..Len(q) + 1
         /\ (q \o <<e>>)[Len(q) + 1] = e
         /\ \A k \in 1..Len(q) : (q \o <<e>>)[k] = q[k]
<1>1. <<e>> \in Seq(W) /\ Len(<<e>>) = 1 /\ <<e>>[1] = e
  OBVIOUS
<1> DEFINE t == <<e>>
<1> HIDE DEF t
<1>2. q \o t \in Seq(W) /\ Len(q \o t) = Len(q) + Len(t) /\ Len(q) \in Nat
  BY <1>1 DEF t
<1>3. \A k \in 1..Len(q) : (q \o t)[k] = q[k]
  BY <1>1 DEF t
<1>4. (q \o t)[Len(q) + 1] = t[1]
  BY <1>1 DEF t
<1> QED BY <1>1, <1>2, <1>3, <1>4 DEF t

LEMMA KeptPlaces ==
  ASSUME NEW text \in Seq(STRING)
  PROVE  LET C == At(text, Conditions \ {"if so"})
         IN  /\ Len(Kept(text)) \in Nat /\ DOMAIN Kept(text) = 1..Len(Kept(text))
             /\ \A k \in DOMAIN Kept(text) : Kept(text)[k] \in C /\ Rank(C, Kept(text)[k]) = k
<1> DEFINE C == At(text, Conditions \ {"if so"})
           c == Cardinality(C)
           m == Min({MaxConditions, c})
<1>1. C \in SUBSET (1..Len(text)) /\ Len(text) \in Nat
  <2>1. DOMAIN text = 1..Len(text) /\ Len(text) \in Nat
    OBVIOUS
  <2> QED BY <2>1 DEF At
<1> HIDE DEF C
<1>2. /\ c \in Nat /\ InOrder(C) \in [1..c -> C]
      /\ \A k \in 1..c : InOrder(C)[k] \in C /\ Rank(C, InOrder(C)[k]) = k
  BY <1>1, InOrderPlaces
<1>3. InOrder(C) \in Seq(C) /\ Len(InOrder(C)) = c
  <2> HIDE DEF c
  <2> QED BY <1>2
<1>4. m \in Nat /\ m <= c
  <2>1. {MaxConditions, c} \in SUBSET Nat
    BY <1>2, ExtractionAssumption
  <2>2. m \in {MaxConditions, c} /\ \A y \in {MaxConditions, c} : m <= y
    BY <2>1, MinIsLeast
  <2> HIDE DEF m
  <2> QED BY <2>1, <2>2
<1>5. Kept(text) = SubSeq(InOrder(C), 1, m)
  BY <1>3 DEF Kept, C
<1> HIDE DEF m, c
<1>6. Kept(text) \in Seq(C) /\ Len(Kept(text)) = m
      /\ \A k \in 1..m : Kept(text)[k] = InOrder(C)[k]
  BY <1>3, <1>4, <1>5, <1>2
<1>7. DOMAIN Kept(text) = 1..m /\ \A k \in 1..m : k \in 1..c
  BY <1>2, <1>4, <1>6
<1>8. \A k \in DOMAIN Kept(text) : Kept(text)[k] \in C /\ Rank(C, Kept(text)[k]) = k
  BY <1>2, <1>6, <1>7
<1> QED BY <1>4, <1>6, <1>7, <1>8 DEF C

\* No condition too short is read: the words of each are filed under its place.
LEMMA ConditionsSaid ==
  ASSUME NEW text \in Seq(STRING)
  PROVE  At(text, {"if so"}) = {} => \A k \in DOMAIN ConditionsOf(text) :
           \E s \in ConditionSpans(text) : s[1] = k /\ text[s[2]] = ConditionsOf(text)[k]
<1> DEFINE C == At(text, Conditions)
           K == Kept(text)
           m == Len(K)
           t == At(text, Thresholds)
           f == First(t)
           said == [k \in DOMAIN K |-> text[K[k]]]
           more == IF t = {} THEN <<>> ELSE <<text[f]>>
<1>0. SUFFICES ASSUME At(text, {"if so"}) = {}
               PROVE  \A k \in DOMAIN ConditionsOf(text) :
                        \E s \in ConditionSpans(text) : s[1] = k /\ text[s[2]] = ConditionsOf(text)[k]
  OBVIOUS
<1>1. At(text, Conditions \ {"if so"}) = C
  BY <1>0 DEF At, Conditions
<1>2. /\ m \in Nat /\ DOMAIN K = 1..m
      /\ \A k \in 1..m : K[k] \in C /\ Rank(C, K[k]) = k
  BY <1>1, KeptPlaces
<1>3. C \subseteq DOMAIN text /\ \A i \in C : text[i] \in Conditions
  BY DEF At
<1>4. t # {} => f # 0 /\ f \in DOMAIN text /\ text[f] \in Thresholds
  BY FirstPlace
<1>5. t = {} => f = 0
  BY FirstPlace
<1>6. ConditionsOf(text) = said \o more
  BY DEF ConditionsOf
<1> HIDE DEF C, K, m, t, f
<1>7. said \in Seq(STRING) /\ Len(said) = m /\ \A k \in 1..m : said[k] = text[K[k]]
  <2>1. \A i \in DOMAIN text : text[i] \in STRING
    BY WordsOf
  <2>2. \A k \in 1..m : text[K[k]] \in STRING
    BY <1>2, <1>3, <2>1
  <2>3. said = [k \in 1..m |-> text[K[k]]]
    BY <1>2
  <2> HIDE DEF said
  <2>4. said \in [1..m -> STRING]
    BY <2>2, <2>3
  <2>5. \A k \in 1..m : said[k] = text[K[k]]
    BY <2>3
  <2> QED BY <1>2, <2>4, <2>5
<1> HIDE DEF said
<1>8. /\ t = {} => ConditionsOf(text) = said /\ DOMAIN ConditionsOf(text) = 1..m
      /\ t # {} => /\ Len(ConditionsOf(text)) = m + 1
                   /\ DOMAIN ConditionsOf(text) = 1..m + 1
                   /\ ConditionsOf(text)[m + 1] = text[f]
                   /\ \A k \in 1..m : ConditionsOf(text)[k] = said[k]
  <2>1. CASE t = {}
    <3>1. said \o <<>> = said /\ DOMAIN said = 1..Len(said)
      BY <1>7, WordsOf
    <3> QED BY <1>6, <1>7, <2>1, <3>1
  <2>2. CASE t # {}
    <3>1. text[f] \in STRING
      <4>1. \A i \in DOMAIN text : text[i] \in STRING
        BY WordsOf
      <4> QED BY <1>4, <2>2, <4>1
    <3>2. ConditionsOf(text) = said \o <<text[f]>>
      BY <1>6, <2>2
    <3>3. /\ Len(said \o <<text[f]>>) = m + 1 /\ DOMAIN (said \o <<text[f]>>) = 1..m + 1
          /\ (said \o <<text[f]>>)[m + 1] = text[f]
          /\ \A k \in 1..m : (said \o <<text[f]>>)[k] = said[k]
      BY <1>7, <3>1, OneMore
    <3> QED BY <1>2, <1>7, <2>2, <3>1, <3>2, <3>3
  <2> QED BY <2>1, <2>2
<1>9. \A i \in C : ConditionPlace(text, i) = Rank(C, i)
  <2>1. \A i \in C : text[i] \notin Thresholds
    BY <1>3 DEF Conditions, Thresholds
  <2> QED BY <2>1 DEF ConditionPlace, Rank, C
<1>10. t # {} => ConditionPlace(text, f) = m + 1
  BY <1>4, <1>8 DEF ConditionPlace
<1> DEFINE filed == {<<ConditionPlace(text, i), i>> : i \in ToSet(K)}
           last == {<<ConditionPlace(text, i), i>> : i \in {f} \ {0}}
<1>11. ConditionSpans(text) = {s \in filed : \A l \in last : l[1] # s[1]} \union last
  BY DEF ConditionSpans, K, f, t
<1>12. \A l \in last : t # {} /\ l = <<m + 1, f>>
  BY <1>5, <1>10
<1>13. t # {} => <<m + 1, f>> \in last
  BY <1>4, <1>10
<1>14. \A k \in 1..m : <<k, K[k]>> \in filed
  <2>1. TAKE k \in 1..m
  <2>2. K[k] \in ToSet(K) /\ ConditionPlace(text, K[k]) = k
    BY <1>2, <1>9 DEF ToSet
  <2> QED BY <2>2
<1> HIDE DEF filed, last
<1>15. \A k \in 1..m : <<k, K[k]>> \in ConditionSpans(text)
  <2>1. TAKE k \in 1..m
  <2>2. k # m + 1
    <3> QED BY <1>2, <2>1
  <2>3. \A l \in last : l[1] # <<k, K[k]>>[1]
    BY <1>12, <2>1, <2>2
  <2> QED BY <1>11, <1>14, <2>3
<1>16. t # {} => <<m + 1, f>> \in ConditionSpans(text)
  BY <1>11, <1>13
<1> SUFFICES ASSUME NEW k \in DOMAIN ConditionsOf(text)
             PROVE  \E s \in ConditionSpans(text) : s[1] = k /\ text[s[2]] = ConditionsOf(text)[k]
  OBVIOUS
<1>17. CASE k \in 1..m
  <2>1. <<k, K[k]>>[1] = k /\ <<k, K[k]>>[2] = K[k]
    OBVIOUS
  <2>2. ConditionsOf(text)[k] = text[K[k]]
    BY <1>7, <1>8, <1>17
  <2> QED BY <1>15, <1>17, <2>1, <2>2
<1>18. CASE t # {} /\ k = m + 1
  <2>1. <<m + 1, f>>[1] = m + 1 /\ <<m + 1, f>>[2] = f
    OBVIOUS
  <2> QED BY <1>8, <1>16, <1>18, <2>1
<1>19. k \in 1..m \/ (t # {} /\ k = m + 1)
  BY <1>2, <1>7, <1>8
<1> QED BY <1>17, <1>18, <1>19

-----------------------------------------------------------------------------
(* A duty the rules read.                                                  *)

\* The words filed under a field, and the field's places.
Says(duty, text, field) == {text[s[2]] : s \in {s \in duty.spans : s[1] = field}}
Filed(field, places) == {<<field, j>> : j \in places}

LEMMA FiledWords ==
  ASSUME NEW duty, NEW text, NEW field, NEW places,
         Filed(field, places) \subseteq duty.spans,
         \A s \in duty.spans : s[1] = field => s \in Filed(field, places)
  PROVE  Says(duty, text, field) = {text[j] : j \in places}
<1>1. \A s \in Filed(field, places) : s[1] = field /\ s[2] \in places
  BY DEF Filed
<1>2. \A j \in places : <<field, j>> \in Filed(field, places) /\ <<field, j>>[2] = j
  BY DEF Filed
<1>3. {s \in duty.spans : s[1] = field} = Filed(field, places)
  BY <1>1
<1>4. Says(duty, text, field) = {text[s[2]] : s \in Filed(field, places)}
  BY <1>3 DEF Says
<1>5. \A s \in Filed(field, places) : text[s[2]] \in {text[j] : j \in places}
  BY <1>1
<1>6. \A j \in places : text[j] \in {text[s[2]] : s \in Filed(field, places)}
  BY <1>2
<1> QED BY <1>4, <1>5, <1>6

LEMMA DutyWords ==
  ASSUME NEW text, NEW i
  PROVE  /\ Says(Duty(text, i), text, "modality") = {text[i]}
         /\ Says(Duty(text, i), text, "actor") = {text[SubjectOf(text, i)]}
         /\ Says(Duty(text, i), text, "verb") = {text[i + 1]}
         /\ Says(Duty(text, i), text, "deadline") = {text[j] : j \in {Temporal(text).at} \ {0}}
         /\ Says(Duty(text, i), text, "trigger.recurrence") =
              {text[j] : j \in {RecurrenceAt(text)} \ {0}}
         /\ Says(Duty(text, i), text, "trigger") = {text[j] : j \in
              IF RecurrenceAt(text) # 0 THEN {} ELSE {First(At(text, Events))} \ {0}}
<1> DEFINE duty == Duty(text, i)
           occurs == IF RecurrenceAt(text) # 0 THEN {} ELSE {First(At(text, Events))} \ {0}
           M == Filed("modality", {i})
           A == Filed("actor", {SubjectOf(text, i)})
           V == Filed("verb", {i + 1})
           D == Filed("deadline", {Temporal(text).at} \ {0})
           R == Filed("trigger.recurrence", {RecurrenceAt(text)} \ {0})
           T == Filed("trigger", occurs)
<1>1. duty.spans = M \union A \union V \union D \union R \union T
  <2>1. M = {<<"modality", i>>} /\ A = {<<"actor", SubjectOf(text, i)>>} /\ V = {<<"verb", i + 1>>}
    BY DEF Filed
  <2>2. /\ D = {<<"deadline", j>> : j \in {Temporal(text).at} \ {0}}
        /\ R = {<<"trigger.recurrence", j>> : j \in {RecurrenceAt(text)} \ {0}}
        /\ T = {<<"trigger", j>> : j \in occurs}
    BY DEF Filed
  <2> HIDE DEF M, A, V, D, R, T
  <2>3. duty.spans = {<<"modality", i>>, <<"actor", SubjectOf(text, i)>>, <<"verb", i + 1>>}
           \union {<<"deadline", j>> : j \in {Temporal(text).at} \ {0}}
           \union {<<"trigger.recurrence", j>> : j \in {RecurrenceAt(text)} \ {0}}
           \union {<<"trigger", j>> : j \in occurs}
    BY DEF Duty
  <2>4. {<<"modality", i>>, <<"actor", SubjectOf(text, i)>>, <<"verb", i + 1>>} = M \union A \union V
    BY <2>1
  <2> QED BY <2>2, <2>3, <2>4
<1>2. /\ \A s \in M : s[1] = "modality"
      /\ \A s \in A : s[1] = "actor"
      /\ \A s \in V : s[1] = "verb"
      /\ \A s \in D : s[1] = "deadline"
      /\ \A s \in R : s[1] = "trigger.recurrence"
      /\ \A s \in T : s[1] = "trigger"
  BY DEF Filed
<1> HIDE DEF M, A, V, D, R, T, duty, occurs
<1>3. Says(duty, text, "modality") = {text[j] : j \in {i}}
  <2> DEFINE places == {i}
  <2>1. M \subseteq duty.spans /\ \A s \in duty.spans : s[1] = "modality" => s \in M
    BY <1>1, <1>2
  <2>2. M = Filed("modality", places)
    BY DEF M
  <2> HIDE DEF places
  <2>3. Says(duty, text, "modality") = {text[j] : j \in places}
    BY <2>1, <2>2, FiledWords
  <2> QED BY <2>3 DEF places
<1>4. Says(duty, text, "actor") = {text[j] : j \in {SubjectOf(text, i)}}
  <2> DEFINE places == {SubjectOf(text, i)}
  <2>1. A \subseteq duty.spans /\ \A s \in duty.spans : s[1] = "actor" => s \in A
    BY <1>1, <1>2
  <2>2. A = Filed("actor", places)
    BY DEF A
  <2> HIDE DEF places
  <2>3. Says(duty, text, "actor") = {text[j] : j \in places}
    BY <2>1, <2>2, FiledWords
  <2> QED BY <2>3 DEF places
<1>5. Says(duty, text, "verb") = {text[j] : j \in {i + 1}}
  <2> DEFINE places == {i + 1}
  <2>1. V \subseteq duty.spans /\ \A s \in duty.spans : s[1] = "verb" => s \in V
    BY <1>1, <1>2
  <2>2. V = Filed("verb", places)
    BY DEF V
  <2> HIDE DEF places
  <2>3. Says(duty, text, "verb") = {text[j] : j \in places}
    BY <2>1, <2>2, FiledWords
  <2> QED BY <2>3 DEF places
<1>6. Says(duty, text, "deadline") = {text[j] : j \in {Temporal(text).at} \ {0}}
  <2> DEFINE places == {Temporal(text).at} \ {0}
  <2>1. D \subseteq duty.spans /\ \A s \in duty.spans : s[1] = "deadline" => s \in D
    BY <1>1, <1>2
  <2>2. D = Filed("deadline", places)
    BY DEF D
  <2> HIDE DEF places
  <2>3. Says(duty, text, "deadline") = {text[j] : j \in places}
    BY <2>1, <2>2, FiledWords
  <2> QED BY <2>3 DEF places
<1>7. Says(duty, text, "trigger.recurrence") = {text[j] : j \in {RecurrenceAt(text)} \ {0}}
  <2> DEFINE places == {RecurrenceAt(text)} \ {0}
  <2>1. R \subseteq duty.spans /\ \A s \in duty.spans : s[1] = "trigger.recurrence" => s \in R
    BY <1>1, <1>2
  <2>2. R = Filed("trigger.recurrence", places)
    BY DEF R
  <2> HIDE DEF places
  <2>3. Says(duty, text, "trigger.recurrence") = {text[j] : j \in places}
    BY <2>1, <2>2, FiledWords
  <2> QED BY <2>3 DEF places
<1>8. Says(duty, text, "trigger") = {text[j] : j \in occurs}
  <2>1. T \subseteq duty.spans /\ \A s \in duty.spans : s[1] = "trigger" => s \in T
    BY <1>1, <1>2
  <2> QED BY <2>1, FiledWords DEF T
<1>9. \A x : {text[j] : j \in {x}} = {text[x]}
  OBVIOUS
<1> QED BY <1>3, <1>4, <1>5, <1>6, <1>7, <1>8, <1>9 DEF duty, occurs

LEMMA DutyFields ==
  ASSUME NEW text, NEW i
  PROVE  /\ Duty(text, i).modality = Modality(text[i]) /\ Duty(text, i).verb = text[i + 1]
         /\ Duty(text, i).actor = ActorOf(text[SubjectOf(text, i)])
         /\ Duty(text, i).recurs = (RecurrenceAt(text) # 0)
         /\ Duty(text, i).conditions = ConditionsOf(text)
         /\ Duty(text, i).conditionSpans = ConditionSpans(text)
         /\ Duty(text, i).trigger = "SCHEDULE" <=> RecurrenceAt(text) # 0
         /\ Duty(text, i).evidence = (Modality(text[i]) \notin {"MUST_NOT", "MAY"})
         /\ Duty(text, i).deadline = IF RecurrenceAt(text) # 0 /\ Temporal(text).deadline = Unset
              THEN EndOf("DAY") ELSE Temporal(text).deadline
BY DEF Duty

LEMMA DutyDeadline ==
  ASSUME NEW text \in Seq(STRING), NEW i
  PROVE  /\ SoundDeadline(Duty(text, i).deadline)
         /\ Temporal(text).at # 0 => Duty(text, i).deadline = Temporal(text).deadline
         /\ Duty(text, i).deadline.count # "UNSPECIFIED" => At(text, {"within 2 working days"}) # {}
<1> DEFINE read == Temporal(text)
           d == Duty(text, i).deadline
<1>1. SoundReading(read, text)
  BY TemporalSays
<1>2. d = IF RecurrenceAt(text) # 0 /\ read.deadline = Unset THEN EndOf("DAY") ELSE read.deadline
  BY DutyFields
<1>3. Unset.kind = "none" /\ SoundDeadline(EndOf("DAY")) /\ EndOf("DAY").count = "UNSPECIFIED"
  <2>1. /\ Unset.kind = "none" /\ EndOf("DAY").kind = "END_OF_PERIOD"
        /\ EndOf("DAY").period = "DAY" /\ EndOf("DAY").count = "UNSPECIFIED"
    BY DEF EndOf, Unset
  <2> QED BY <2>1 DEF SoundDeadline
<1> HIDE DEF d
<1>4. CASE read.deadline = Unset
  <2>1. read.at = 0
    BY <1>1, <1>3, <1>4 DEF SoundReading
  <2>2. d = EndOf("DAY") \/ d = read.deadline
    BY <1>2
  <2> QED BY <1>1, <1>3, <2>1, <2>2 DEF SoundReading, d
<1>5. CASE read.deadline # Unset
  <2>1. d = read.deadline
    BY <1>2, <1>5
  <2> QED BY <1>1, <2>1 DEF SoundReading, d
<1> QED BY <1>4, <1>5

LEMMA DutyIsValid ==
  ASSUME NEW text \in Seq(STRING), NEW i
  PROVE  Valid(Duty(text, i))
<1> DEFINE duty == Duty(text, i)
<1>1. SoundDeadline(duty.deadline)
  BY DutyDeadline
<1>2. /\ duty.trigger = "SCHEDULE" <=> duty.recurs
      /\ duty.evidence <=> duty.modality \notin {"MUST_NOT", "MAY"}
  BY DutyFields
<1> HIDE DEF duty
<1>3. duty.modality = "MUST" => duty.evidence
  BY <1>2
<1> QED BY <1>1, <1>2, <1>3 DEF Valid, SoundDeadline, duty

LEMMA DutyIsSaid ==
  ASSUME NEW text \in Seq(STRING), NEW i
  PROVE  ByRules(Duty(text, i), text)
<1> DEFINE duty == Duty(text, i)
           read == Temporal(text)
           r == RecurrenceAt(text)
           e == First(At(text, Events))
<1>1. \A w \in Says(duty, text, "modality") : Modality(w) = duty.modality
  <2>1. Says(duty, text, "modality") = {text[i]} /\ duty.modality = Modality(text[i])
    BY DutyWords, DutyFields
  <2> QED BY <2>1
<1>2. \A w \in Says(duty, text, "actor") : ActorOf(w) = duty.actor
  <2>1. /\ Says(duty, text, "actor") = {text[SubjectOf(text, i)]}
        /\ duty.actor = ActorOf(text[SubjectOf(text, i)])
    BY DutyWords, DutyFields
  <2> QED BY <2>1
<1>3. /\ Says(duty, text, "modality") # {} /\ Says(duty, text, "actor") # {}
      /\ Says(duty, text, "verb") = {duty.verb}
  <2>1. /\ Says(duty, text, "modality") = {text[i]}
        /\ Says(duty, text, "actor") = {text[SubjectOf(text, i)]}
        /\ Says(duty, text, "verb") = {text[i + 1]} /\ duty.verb = text[i + 1]
    BY DutyWords, DutyFields
  <2> QED BY <2>1
<1>4. /\ Says(duty, text, "trigger.recurrence") \subseteq Recurrences
      /\ duty.trigger = "SCHEDULE" => Says(duty, text, "trigger.recurrence") # {}
  <2>1. Says(duty, text, "trigger.recurrence") = {text[j] : j \in {r} \ {0}}
    BY DutyWords
  <2>2. r # 0 => text[r] \in Recurrences
    BY FirstPlace DEF RecurrenceAt
  <2>3. duty.trigger = "SCHEDULE" => r # 0
    BY DutyFields
  <2> HIDE DEF r, duty
  <2> QED BY <2>1, <2>2, <2>3
<1>5. Says(duty, text, "trigger") \subseteq Events
  <2>1. Says(duty, text, "trigger") = {text[j] : j \in IF r # 0 THEN {} ELSE {e} \ {0}}
    BY DutyWords
  <2>2. e # 0 => text[e] \in Events
    BY FirstPlace
  <2> HIDE DEF r, e, duty
  <2>3. CASE r # 0
    BY <2>1, <2>3
  <2>4. CASE r = 0
    BY <2>1, <2>2, <2>4
  <2> QED BY <2>3, <2>4
<1>6. \A w \in Says(duty, text, "deadline") : duty.deadline =
           (IF w \in Recurrences THEN EndOf(PeriodOf(w)) ELSE DeadlineOf(w))
  <2>1. Says(duty, text, "deadline") = {text[j] : j \in {read.at} \ {0}}
    BY DutyWords
  <2>2. read.at # 0 => duty.deadline = read.deadline
    BY DutyDeadline
  <2>3. SoundReading(read, text)
    BY TemporalSays
  <2>4. read.at # 0 => read.deadline = IF text[read.at] \in Recurrences
                         THEN EndOf(PeriodOf(text[read.at])) ELSE DeadlineOf(text[read.at])
    BY <2>3 DEF SoundReading
  <2> HIDE DEF read, duty
  <2> QED BY <2>1, <2>2, <2>4
<1>7. At(text, {"if so"}) = {} => \A k \in DOMAIN duty.conditions :
           \E s \in duty.conditionSpans : s[1] = k /\ text[s[2]] = duty.conditions[k]
  <2>1. duty.conditions = ConditionsOf(text) /\ duty.conditionSpans = ConditionSpans(text)
    BY DutyFields
  <2> HIDE DEF duty
  <2>2. At(text, {"if so"}) = {} => \A k \in DOMAIN ConditionsOf(text) :
           \E s \in ConditionSpans(text) : s[1] = k /\ text[s[2]] = ConditionsOf(text)[k]
    BY ConditionsSaid
  <2> QED BY <2>1, <2>2, Zenon
<1> HIDE DEF duty
<1>8. ByRules(duty, text)
  BY <1>1, <1>2, <1>3, <1>4, <1>5, <1>6, <1>7 DEF ByRules, Says
<1> QED BY <1>8 DEF duty

-----------------------------------------------------------------------------
(* The text of a clause.                                                   *)

\* What flattening the first m of some sequences takes, one after the other.
Flattens(f, q, m) == \A i \in 1..m : f[i] = IF i = 1 THEN q[i] ELSE f[i - 1] \o q[i]

LEMMA FlatteningExists ==
  ASSUME NEW W, NEW q \in Seq(Seq(W)), NEW n \in 0..Len(q)
  PROVE  \E f \in [1..n -> Seq(W)] : Flattens(f, q, n)
<1> DEFINE Bad == {m \in 0..Len(q) : ~\E f \in [1..m -> Seq(W)] : Flattens(f, q, m)}
<1>1. /\ DOMAIN q = 1..Len(q) /\ Len(q) \in Nat /\ \A i \in 1..Len(q) : q[i] \in Seq(W)
      /\ Bad \in SUBSET Nat
  BY WordsOf
<1>2. SUFFICES ASSUME Bad # {}
               PROVE  FALSE
  OBVIOUS
<1> DEFINE m == Min(Bad)
<1>3. m \in Bad /\ \A y \in Bad : m <= y
  BY <1>1, <1>2, MinIsLeast
<1>4. m \in 0..Len(q) /\ ~\E f \in [1..m -> Seq(W)] : Flattens(f, q, m)
  BY <1>3
<1>5. m # 0
  <2>1. CASE m = 0
    <3>1. [i \in 1..0 |-> <<>>] \in [1..0 -> Seq(W)]
      OBVIOUS
    <3>2. Flattens([i \in 1..0 |-> <<>>], q, 0)
      BY DEF Flattens
    <3> HIDE DEF m
    <3> QED BY <1>4, <2>1, <3>1, <3>2
  <2> QED BY <2>1
<1>6. m - 1 \in 0..Len(q) /\ m - 1 \notin Bad
  <2> HIDE DEF m, Bad
  <2>1. m - 1 \in 0..Len(q) /\ ~(m <= m - 1)
    BY <1>1, <1>4, <1>5
  <2> QED BY <1>3, <2>1
<1>7. PICK f \in [1..m - 1 -> Seq(W)] : Flattens(f, q, m - 1)
  BY <1>6
<1> HIDE DEF m, Bad
<1> DEFINE last == IF m = 1 THEN q[m] ELSE f[m - 1] \o q[m]
           h == [i \in 1..m |-> IF i = m THEN last ELSE f[i]]
<1>8. m \in Nat /\ m \in 1..Len(q)
  BY <1>1, <1>4, <1>5
<1>9. last \in Seq(W)
  <2>1. q[m] \in Seq(W)
    BY <1>1, <1>8
  <2>2. CASE m = 1
    BY <2>1, <2>2
  <2>3. CASE m # 1
    <3>1. f[m - 1] \in Seq(W)
      BY <1>8, <2>3
    <3> QED BY <2>1, <2>3, <3>1
  <2> QED BY <2>2, <2>3
<1> HIDE DEF last
<1>10. h \in [1..m -> Seq(W)]
  BY <1>8, <1>9
<1>11. /\ h[m] = last
       /\ \A i \in 1..m : i # m => h[i] = f[i]
  BY <1>8
<1> HIDE DEF h
<1>12. Flattens(h, q, m)
  <2> SUFFICES ASSUME NEW i \in 1..m
               PROVE  h[i] = IF i = 1 THEN q[i] ELSE h[i - 1] \o q[i]
    BY DEF Flattens
  <2>1. CASE i # m
    <3>1. i \in 1..m - 1 /\ (i # 1 => i - 1 \in 1..m /\ i - 1 # m)
      BY <1>8, <2>1
    <3>2. f[i] = IF i = 1 THEN q[i] ELSE f[i - 1] \o q[i]
      BY <1>7, <3>1 DEF Flattens
    <3> QED BY <1>11, <2>1, <3>1, <3>2
  <2>2. CASE i = m
    <3>1. m # 1 => m - 1 \in 1..m /\ m - 1 # m
      BY <1>8
    <3>2. m # 1 => h[m - 1] = f[m - 1]
      BY <1>11, <3>1
    <3> QED BY <1>11, <2>2, <3>2 DEF last
  <2> QED BY <2>1, <2>2
<1> QED BY <1>4, <1>10, <1>12

LEMMA FlattenedTyped ==
  ASSUME NEW W, NEW q \in Seq(Seq(W))
  PROVE  FlattenSeq(q) \in Seq(W)
<1> DEFINE n == Len(q)
<1>1. DOMAIN q = 1..n /\ n \in Nat /\ \A i \in 1..n : q[i] \in Seq(W)
  BY WordsOf
<1>2. CASE n = 0
  <2>1. FlattenSeq(q) = q /\ q = <<>>
    BY <1>2 DEF FlattenSeq
  <2>2. <<>> \in Seq(W)
    OBVIOUS
  <2> QED BY <2>1, <2>2
<1>3. CASE n # 0
  <2>1. PICK f \in [1..n -> Seq(W)] : Flattens(f, q, n)
    <3>1. n \in 0..Len(q)
      BY <1>1
    <3> QED BY <3>1, FlatteningExists
  <2>2. f = [i \in 1..Len(q) |-> IF i = 1 THEN q[i] ELSE f[i - 1] \o q[i]]
    <3>1. f = [i \in 1..n |-> f[i]]
      OBVIOUS
    <3> QED BY <2>1, <3>1 DEF Flattens
  <2> DEFINE flatten[i \in 1..Len(q)] == IF i = 1 THEN q[i] ELSE flatten[i - 1] \o q[i]
  <2>3. flatten = [i \in 1..Len(q) |-> IF i = 1 THEN q[i] ELSE flatten[i - 1] \o q[i]]
    BY <2>2
  <2>4. FlattenSeq(q) = flatten[Len(q)]
    BY <1>3 DEF FlattenSeq
  <2> HIDE DEF flatten
  <2> DEFINE Bad == {i \in 1..n : flatten[i] \notin Seq(W)}
  <2>5. Bad = {}
    <3>1. SUFFICES ASSUME Bad # {} PROVE FALSE
      OBVIOUS
    <3> DEFINE m == Min(Bad)
    <3>2. Bad \in SUBSET Nat
      BY <1>1
    <3>3. m \in Bad /\ \A y \in Bad : m <= y
      BY <3>1, <3>2, MinIsLeast
    <3>4. m \in 1..n /\ flatten[m] \notin Seq(W)
      BY <3>3
    <3>5. m # 1 => m - 1 \in 1..n /\ m - 1 \notin Bad
      <4> HIDE DEF Bad, m
      <4>1. m # 1 => m - 1 \in 1..n /\ ~(m <= m - 1)
        BY <1>1, <3>4
      <4> QED BY <3>3, <4>1
    <3>6. m # 1 => flatten[m - 1] \in Seq(W)
      BY <3>5
    <3> HIDE DEF m, Bad
    <3>7. flatten[m] = IF m = 1 THEN q[m] ELSE flatten[m - 1] \o q[m]
      BY <2>3, <3>4
    <3>8. q[m] \in Seq(W)
      BY <1>1, <3>4
    <3>9. CASE m = 1
      BY <3>4, <3>7, <3>8, <3>9
    <3>10. CASE m # 1
      <4>1. flatten[m - 1] \o q[m] \in Seq(W)
        BY <3>6, <3>8, <3>10
      <4> QED BY <3>4, <3>7, <3>10, <4>1
    <3> QED BY <3>9, <3>10
  <2>6. n \in 1..n
    BY <1>1, <1>3
  <2> QED BY <2>4, <2>5, <2>6
<1> QED BY <1>2, <1>3

\* A node's lines are lines of the document.
LinesInv == \A n \in DOMAIN nodes : \A k \in DOMAIN nodes[n].lines : nodes[n].lines[k] \in DOMAIN document

LEMMA TextsAreWords ==
  ASSUME ShapeInv, LinesInv, NEW n \in DOMAIN nodes
  PROVE  TextOf(n) \in Seq(STRING)
<1> DEFINE lines == nodes[n].lines
           q == [k \in DOMAIN lines |-> document[lines[k]].words]
<1>1. DOMAIN lines = 1..Len(lines) /\ Len(lines) \in Nat
  BY SequenceFacts DEF ShapeInv, IsNode
<1>2. \A k \in DOMAIN lines : document[lines[k]].words \in Seq(STRING)
  <2>1. \A i \in DOMAIN document : document[i].words \in Seq(STRING)
    <3> DEFINE Lines == [
        kind : {"text", "numbered", "item", "toc", "banner", "annexure", "appendix"},
        num : Seq(Nat), x : Nat, bold : BOOLEAN, body : BOOLEAN, top : BOOLEAN,
        words : Seq(STRING)]
    <3>1. document \in Seq(Lines)
      BY ClauseTreeAssumption DEF ShapeInv
    <3>2. \A l \in Lines : l.words \in Seq(STRING)
      OBVIOUS
    <3> HIDE DEF Lines
    <3>3. \A i \in DOMAIN document : document[i] \in Lines
      BY <3>1
    <3> QED BY <3>2, <3>3
  <2>2. \A k \in DOMAIN lines : lines[k] \in DOMAIN document
    BY DEF LinesInv
  <2> QED BY <2>1, <2>2
<1> HIDE DEF lines
<1>3. q \in Seq(Seq(STRING))
  <2>1. q = [k \in 1..Len(lines) |-> document[lines[k]].words]
    BY <1>1
  <2>2. q \in [1..Len(lines) -> Seq(STRING)]
    BY <1>1, <1>2, <2>1
  <2> QED BY <1>1, <2>2
<1>4. TextOf(n) = FlattenSeq(q)
  BY DEF TextOf, lines
<1> HIDE DEF q
<1> QED BY <1>3, <1>4, FlattenedTyped

-----------------------------------------------------------------------------
(* A duty the model proposes.                                              *)

\* Every field is behind the words the model quoted for it.
ByModel(duty, text) == \A s \in duty.spans : \E q \in duty.quotes :
  q[1] = s[1] /\ q[2] = s[2] /\ q[3] \in {"", text[s[2]]}

LEMMA VerifiedSpan ==
  ASSUME NEW text \in Seq(STRING), NEW claim
  PROVE  claim \in Claims(text) \union {NoClaim} /\ VerifySpan(claim, text) # 0 =>
           claim.quote \in {"", text[VerifySpan(claim, text)]}
<1> DEFINE i == claim.at
           none == claim = NoClaim \/ i > Len(text)
           matches == claim.quote \in {"", text[i]}
           found == First(At(text, {claim.quote}))
<1>1. VerifySpan(claim, text) =
        CASE none -> 0
          [] claim # NoClaim /\ i <= Len(text) /\ matches -> i
          [] OTHER -> found
  BY DEF VerifySpan
<1>2. SUFFICES ASSUME claim \in Claims(text) \union {NoClaim}, VerifySpan(claim, text) # 0
               PROVE  claim.quote \in {"", text[VerifySpan(claim, text)]}
  OBVIOUS
<1>3. claim # NoClaim => i \in Nat
  <2>1. claim # NoClaim => claim \in Claims(text)
    BY <1>2
  <2> DEFINE Q == {text[j] : j \in DOMAIN text} \union {"", "not said"}
  <2>2. Claims(text) = [at : 1..Len(text) + 1, quote : Q]
    BY DEF Claims
  <2> HIDE DEF Q
  <2> QED BY <2>1, <2>2
<1> HIDE DEF i, matches, found
<1>4. none <=> ~(claim # NoClaim /\ i <= Len(text))
  <2>1. Len(text) \in Nat
    BY WordsOf
  <2> QED BY <1>3, <2>1
<1> HIDE DEF none
<1>5. ~none
  BY <1>1, <1>2, <1>4
<1>6. CASE matches
  <2>1. VerifySpan(claim, text) = i
    BY <1>1, <1>4, <1>5, <1>6
  <2> QED BY <1>6, <2>1 DEF matches
<1>7. CASE ~matches
  <2>1. VerifySpan(claim, text) = found
    BY <1>1, <1>5, <1>7
  <2>2. text[found] = claim.quote
    BY <1>2, <2>1, FirstPlace DEF found
  <2> QED BY <2>1, <2>2
<1> QED BY <1>6, <1>7

LEMMA ProposedDuty ==
  ASSUME NEW text \in Seq(STRING), NEW p \in Proposals(text)
  PROVE  /\ ByModel(ToDuty(p, text), text)
         /\ ToDuty(p, text).deadline.count # "UNSPECIFIED" => At(text, {"within 2 working days"}) # {}
<1> DEFINE said == VerifySpan(p.says, text)
           cited == VerifySpan(p.cites, text)
           duty == ToDuty(p, text)
<1>1. p.says \in Claims(text) \union {NoClaim} /\ p.cites \in Claims(text) \union {NoClaim}
  BY DEF Proposals
<1>2. /\ said # 0 => p.says.quote \in {"", text[said]}
      /\ cited # 0 => p.cites.quote \in {"", text[cited]}
  BY <1>1, VerifiedSpan
<1>3. /\ duty.quotes = {<<"modality", said, p.says.quote>>, <<"deadline", cited, p.cites.quote>>}
      /\ duty.spans \subseteq {s \in {<<"modality", said>>, <<"deadline", cited>>} : s[2] # 0}
      /\ duty.deadline = IF p.count = "none" THEN Unset
           ELSE [Unset EXCEPT !.kind = "RELATIVE", !.unit = "days", !.anchor = TRUE,
                  !.count = VerifiedDayCount(p.count, text, cited)]
  BY DEF ToDuty
<1> HIDE DEF said, cited, duty
<1>4. ByModel(duty, text)
  <2> SUFFICES ASSUME NEW s \in duty.spans
               PROVE  \E q \in duty.quotes : q[1] = s[1] /\ q[2] = s[2] /\ q[3] \in {"", text[s[2]]}
    BY DEF ByModel
  <2>1. s = <<"modality", said>> \/ s = <<"deadline", cited>>
    BY <1>3
  <2>2. s[2] # 0
    BY <1>3
  <2>3. CASE s = <<"modality", said>>
    <3> DEFINE q == <<"modality", said, p.says.quote>>
    <3>1. q \in duty.quotes
      BY <1>3
    <3>2. q[1] = s[1] /\ q[2] = s[2] /\ q[3] = p.says.quote /\ s[2] = said
      BY <2>3
    <3> HIDE DEF q
    <3> QED BY <1>2, <2>2, <3>1, <3>2
  <2>4. CASE s = <<"deadline", cited>>
    <3> DEFINE q == <<"deadline", cited, p.cites.quote>>
    <3>1. q \in duty.quotes
      BY <1>3
    <3>2. q[1] = s[1] /\ q[2] = s[2] /\ q[3] = p.cites.quote /\ s[2] = cited
      BY <2>4
    <3> HIDE DEF q
    <3> QED BY <1>2, <2>2, <3>1, <3>2
  <2> QED BY <2>1, <2>3, <2>4
<1>5. duty.deadline.count # "UNSPECIFIED" =>
        VerifiedDayCount(p.count, text, cited) # "UNSPECIFIED"
  <2>1. Unset.count = "UNSPECIFIED"
    BY DEF Unset
  <2>2. \A c : [Unset EXCEPT !.kind = "RELATIVE", !.unit = "days", !.anchor = TRUE, !.count = c].count = c
    BY DEF Unset
  <2> QED BY <1>3, <2>1, <2>2
<1>6. VerifiedDayCount(p.count, text, cited) # "UNSPECIFIED" => At(text, {"within 2 working days"}) # {}
  BY DEF VerifiedDayCount
<1> QED BY <1>4, <1>5, <1>6 DEF duty

-----------------------------------------------------------------------------
(* No two clauses have one id.                                             *)

\* The free suffix: there are more copies of an id than there are ids taken.
LEMMA UniqueIsNew ==
  ASSUME IsSequence(nodes), NEW id \in Seq(Nat)
  PROVE  Unique(id) \in Seq(Nat) /\ \A n \in DOMAIN nodes : nodes[n].id # Unique(id)
<1> DEFINE N == Len(nodes)
           taken == {nodes[n].id : n \in DOMAIN nodes}
           suffixed(k) == Append(id, CopyMark + k)
           free == {k \in 2..N + 1 : suffixed(k) \notin taken}
<1>1. DOMAIN nodes = 1..N /\ N \in Nat
  BY SequenceFacts
<1>2. Unique(id) = IF id \notin taken THEN id ELSE suffixed(Min(free))
  BY DEF Unique
<1>3. ASSUME NEW k \in Nat
      PROVE  suffixed(k) \in Seq(Nat) /\ suffixed(k) # id
             /\ Len(suffixed(k)) = Len(id) + 1 /\ suffixed(k)[Len(id) + 1] = CopyMark + k
  <2>1. CopyMark + k \in Nat
    BY DEF CopyMark
  <2> DEFINE m == CopyMark + k
  <2> HIDE DEF m
  <2>2. Append(id, m) \in Seq(Nat) /\ Len(Append(id, m)) = Len(id) + 1
        /\ Append(id, m)[Len(id) + 1] = m /\ Len(id) \in Nat
    BY <2>1 DEF m
  <2>3. Append(id, m) # id
    BY <2>2
  <2> QED BY <2>2, <2>3 DEF m
<1>4. ASSUME NEW k \in Nat, NEW l \in Nat, suffixed(k) = suffixed(l)
      PROVE  k = l
  <2>1. CopyMark + k = CopyMark + l
    BY <1>3, <1>4
  <2> QED BY <2>1 DEF CopyMark
<1>5. IsFiniteSet(taken) /\ Cardinality(taken) <= N /\ Cardinality(taken) \in Nat
  <2> DEFINE g == [n \in 1..N |-> nodes[n].id]
  <2>1. g \in Surjection(1..N, taken)
    BY <1>1 DEF Surjection
  <2> HIDE DEF g, taken, N
  <2>2. IsFiniteSet(1..N) /\ Cardinality(1..N) = N
    BY <1>1, FS_Interval
  <2>3. IsFiniteSet(taken) /\ Cardinality(taken) <= Cardinality(1..N)
    BY <2>1, <2>2, FS_Surjection
  <2> QED BY <2>2, <2>3, FS_CardinalityType
<1> HIDE DEF suffixed, taken
<1>6. ASSUME id \in taken, free = {}
      PROVE  FALSE
  <2> DEFINE f == [k \in 1..N + 1 |-> IF k = 1 THEN id ELSE suffixed(k)]
  <2>1. f \in [1..N + 1 -> taken]
    <3>1. \A k \in 1..N + 1 : k # 1 => suffixed(k) \in taken
      BY <1>1, <1>6
    <3> QED BY <1>6, <3>1
  <2>2. IsFiniteSet(1..N + 1) /\ Cardinality(1..N + 1) = N + 1
    BY <1>1, FS_Interval
  <2>3. \A k \in 1..N + 1 : f[k] = IF k = 1 THEN id ELSE suffixed(k)
    OBVIOUS
  <2> HIDE DEF f, N
  <2>4. Cardinality(taken) < Cardinality(1..N + 1)
    BY <1>1, <1>5, <2>2
  <2>5. PICK x \in 1..N + 1, y \in 1..N + 1 : x # y /\ f[x] = f[y]
    BY <1>5, <2>1, <2>2, <2>4, FS_PigeonHole
  <2>6. x \in Nat /\ y \in Nat
    BY <1>1
  <2>7. f[x] = (IF x = 1 THEN id ELSE suffixed(x)) /\ f[y] = (IF y = 1 THEN id ELSE suffixed(y))
    BY <2>3
  <2>8. suffixed(x) # id /\ suffixed(y) # id /\ (suffixed(x) = suffixed(y) => x = y)
    BY <1>3, <1>4, <2>6
  <2> QED BY <2>5, <2>7, <2>8
<1>7. free \in SUBSET Nat
  BY <1>1
<1>8. CASE id \notin taken
  BY <1>2, <1>8 DEF taken
<1>9. CASE id \in taken
  <2>1. Min(free) \in free
    BY <1>6, <1>7, <1>9, MinIsLeast
  <2>2. Min(free) \in Nat /\ suffixed(Min(free)) \notin taken
    BY <1>7, <2>1
  <2> HIDE DEF free
  <2>3. Unique(id) \in Seq(Nat) /\ Unique(id) \notin taken
    BY <1>2, <1>3, <1>9, <2>2
  <2> QED BY <2>3 DEF taken
<1> QED BY <1>8, <1>9

IdsInv ==
  /\ builder.section \in Seq(Nat) /\ builder.prefix \in Seq(Nat)
  /\ \A n \in DOMAIN nodes : nodes[n].id \in Seq(Nat)
  /\ \A n, m \in DOMAIN nodes : nodes[n].id = nodes[m].id => n = m

\* What a line may do to the ids.
OpensIds == \E id \in Seq(Nat) : \E kind, depth, parent, b :
  /\ Opens(id, kind, depth, parent, b)
  /\ IsBuilder(b) /\ b.section \in Seq(Nat) /\ b.prefix \in Seq(Nat)
AppendsIds == \E b : Appends(b) /\ b.current = builder.current
                       /\ b.section = builder.section /\ b.prefix = builder.prefix
KeepsIds == UNCHANGED <<document, nodes>> /\ builder'.section \in Seq(Nat) /\ builder'.prefix \in Seq(Nat)

LEMMA OpensKeepsIds ==
  ASSUME ShapeInv, IdsInv, LinesInv, at \in DOMAIN document, OpensIds
  PROVE  IdsInv' /\ LinesInv'
<1>1. PICK id, kind, depth, parent, b :
        /\ id \in Seq(Nat) /\ Opens(id, kind, depth, parent, b)
        /\ IsBuilder(b) /\ b.section \in Seq(Nat) /\ b.prefix \in Seq(Nat)
  BY DEF OpensIds
<1> DEFINE node == [id |-> Unique(id), kind |-> kind, depth |-> depth,
                    parent |-> parent, section |-> b.section, lines |-> <<at>>]
<1>2. nodes' = Append(nodes, node) /\ builder' = [b EXCEPT !.current = Len(nodes) + 1]
      /\ document' = document
  BY <1>1 DEF Opens
<1>3. node.id = Unique(id) /\ node.lines = <<at>>
  OBVIOUS
<1> HIDE DEF node
<1>4. /\ IsSequence(nodes) /\ DOMAIN nodes = 1..Len(nodes) /\ Len(nodes) \in Nat
      /\ DOMAIN nodes' = 1..Len(nodes) + 1
      /\ \A n \in 1..Len(nodes) : nodes'[n] = nodes[n]
      /\ nodes'[Len(nodes) + 1] = node
  BY <1>2, SequenceFacts, AppendedFacts DEF ShapeInv
<1>5. builder'.section = b.section /\ builder'.prefix = b.prefix
  BY <1>1, <1>2 DEF IsBuilder
<1>6. Unique(id) \in Seq(Nat) /\ \A n \in DOMAIN nodes : nodes[n].id # Unique(id)
  BY <1>1, <1>4, UniqueIsNew
<1>7. \A n \in DOMAIN nodes' : \/ n \in DOMAIN nodes /\ nodes'[n] = nodes[n]
                               \/ n = Len(nodes) + 1 /\ nodes'[n] = node
  <2>1. \A n \in DOMAIN nodes' : n \in 1..Len(nodes) \/ n = Len(nodes) + 1
    BY <1>4
  <2> QED BY <1>4, <2>1
<1>8. IdsInv'
  <2>1. \A n \in DOMAIN nodes' : nodes'[n].id \in Seq(Nat)
    BY <1>3, <1>6, <1>7 DEF IdsInv
  <2>2. \A n, m \in DOMAIN nodes' : nodes'[n].id = nodes'[m].id => n = m
    BY <1>3, <1>6, <1>7 DEF IdsInv
  <2> QED BY <1>1, <1>5, <2>1, <2>2 DEF IdsInv
<1>9. \A k \in DOMAIN node.lines : node.lines[k] = at
  BY <1>3
<1>10. LinesInv'
  BY <1>2, <1>7, <1>9 DEF LinesInv
<1> QED BY <1>8, <1>10

LEMMA AppendsKeepsIds ==
  ASSUME ShapeInv, IdsInv, LinesInv, at \in DOMAIN document, AppendsIds
  PROVE  IdsInv' /\ LinesInv'
<1>1. PICK b : Appends(b) /\ b.current = builder.current
               /\ b.section = builder.section /\ b.prefix = builder.prefix
  BY DEF AppendsIds
<1>2. builder' = b /\ document' = document
  BY <1>1 DEF Appends
<1> DEFINE c == builder.current
<1>3. /\ DOMAIN nodes' = 1..Len(nodes) /\ DOMAIN nodes = 1..Len(nodes)
      /\ \A n \in 1..Len(nodes) : n # c => nodes'[n] = nodes[n]
      /\ c # 0 => c \in 1..Len(nodes) /\ nodes'[c] = [nodes[c] EXCEPT !.lines = Append(@, at)]
      /\ \A n \in 1..Len(nodes) : IsNode(nodes[n])
  BY <1>1, AppendsNodes DEF ShapeInv
<1> HIDE DEF c
<1>4. c # 0 => nodes'[c].id = nodes[c].id /\ nodes'[c].lines = Append(nodes[c].lines, at)
  BY <1>3 DEF IsNode
<1>5. \A n \in 1..Len(nodes) : c # 0 \/ n # c
  BY <1>3
<1>6. \A n \in 1..Len(nodes) : nodes'[n].id = nodes[n].id
  BY <1>3, <1>4, <1>5
<1>7. IdsInv'
  BY <1>1, <1>2, <1>3, <1>6 DEF IdsInv
<1>8. ASSUME NEW n \in 1..Len(nodes)
      PROVE  \A k \in DOMAIN nodes'[n].lines : nodes'[n].lines[k] \in DOMAIN document
  <2>1. CASE n # c
    BY <1>3, <2>1 DEF LinesInv
  <2>2. CASE n = c
    <3> DEFINE ls == nodes[c].lines
    <3>1. IsSequence(ls) /\ nodes'[n].lines = Append(ls, at)
      BY <1>3, <1>4, <1>5, <2>2 DEF IsNode
    <3>2. \A k \in DOMAIN ls : ls[k] \in DOMAIN document
      BY <1>3, <2>2 DEF LinesInv
    <3> HIDE DEF ls
    <3>3. /\ DOMAIN Append(ls, at) = 1..Len(ls) + 1 /\ DOMAIN ls = 1..Len(ls) /\ Len(ls) \in Nat
          /\ \A i \in 1..Len(ls) : Append(ls, at)[i] = ls[i]
          /\ Append(ls, at)[Len(ls) + 1] = at
      BY <3>1, AppendedFacts, SequenceFacts
    <3>4. \A k \in 1..Len(ls) + 1 : k \in 1..Len(ls) \/ k = Len(ls) + 1
      BY <3>3
    <3> QED BY <3>1, <3>2, <3>3, <3>4
  <2> QED BY <2>1, <2>2
<1>9. LinesInv'
  BY <1>2, <1>3, <1>8 DEF LinesInv
<1> QED BY <1>7, <1>9

LEMMA KeptIds == ASSUME IdsInv, LinesInv, KeepsIds PROVE IdsInv' /\ LinesInv'
BY DEF IdsInv, LinesInv, KeepsIds

-----------------------------------------------------------------------------
(* The ids a line opens.                                                   *)

LEMMA OpensIdsWith ==
  ASSUME ShapeInv, NEW id \in Seq(Nat), NEW kind, NEW depth, NEW parent,
         NEW stack, IsSequence(stack), NEW section \in Seq(Nat), NEW prefix \in Seq(Nat),
         NEW lastSection \in Nat, NEW listAnchor \in Nat,
         Opens(id, kind, depth, parent, With(stack, section, prefix, lastSection, listAnchor))
  PROVE  OpensIds
<1> DEFINE b == With(stack, section, prefix, lastSection, listAnchor)
<1>1. IsBuilder(b) /\ b.section = section /\ b.prefix = prefix
  BY WithGoesOn DEF With, GoesOn
<1> HIDE DEF b
<1> QED BY <1>1 DEF OpensIds, b

LEMMA Marked ==
  ASSUME NEW q \in Seq(Nat), NEW k \in Nat, NEW r \in Seq(Nat)
  PROVE  Append(q, k) \in Seq(Nat) /\ <<k>> \in Seq(Nat) /\ q \o r \in Seq(Nat)
OBVIOUS

\* What is known of the line and the builder.
LEMMA IdFacts ==
  ASSUME AtLine, IdsInv
  PROVE  /\ Line.num \in Seq(Nat) /\ (Line.num # <<>> => Line.num[1] \in Nat)
         /\ Line.kind \in {"numbered", "annexure", "item"} => Line.num[1] \in Nat
         /\ builder.section \in Seq(Nat) /\ builder.prefix \in Seq(Nat)
         /\ builder.lastSection \in Nat /\ builder.listAnchor \in Nat
         /\ IsSequence(builder.stack) /\ ShapeInv
         /\ \A n \in 1..Len(nodes) : nodes[n].id \in Seq(Nat)
         /\ IsSequence(<<>>) /\ <<>> \in Seq(Nat) /\ Len(nodes) + 1 \in Nat
<1>1. <<>> \in Seq(Nat)
  OBVIOUS
<1>2. /\ Line.num \in Seq(Nat) /\ (Line.num # <<>> => Line.num[1] \in Nat)
      /\ Line.kind \in {"numbered", "annexure", "item"} => Line.num[1] \in Nat
  BY LineFacts DEF IsLine
<1>3. \A n \in 1..Len(nodes) : nodes[n].id \in Seq(Nat)
  BY LineFacts DEF IdsInv
<1>4. builder.section \in Seq(Nat) /\ builder.prefix \in Seq(Nat) /\ ShapeInv
  BY LineFacts DEF IdsInv
<1> QED BY <1>1, <1>2, <1>3, <1>4, LineFacts, BuilderFacts

LEMMA OpenAppendixIds == ASSUME AtLine, IdsInv, OpenAppendix PROVE OpensIds
<1> DEFINE apx == <<AppendixMark>>
<1>1. Opens(apx, "APPENDIX", 0, 0, InPart(apx, <<>>, apx))
  BY DEF OpenAppendix, InPart
<1>2. apx \in Seq(Nat)
  BY DEF AppendixMark
<1> HIDE DEF apx
<1>3. Opens(apx, "APPENDIX", 0, 0, With(<<>>, apx, apx, builder.lastSection, builder.listAnchor))
  BY <1>1, LineFacts, WithFields
<1> QED BY <1>2, <1>3, IdFacts, OpensIdsWith

LEMMA OpenAnnexureIds == ASSUME AtLine, IdsInv, OpenAnnexure PROVE OpensIds
<1> DEFINE id == <<AnnexureMark + Line.num[1]>>
<1>1. Opens(id, "ANNEXURE", 0, 0, InNewPart(id, <<>>, id, 0))
  BY DEF OpenAnnexure, InNewPart
<1>2. id \in Seq(Nat)
  <2>1. Line.num[1] \in Nat
    BY IdFacts DEF OpenAnnexure
  <2>2. AnnexureMark + Line.num[1] \in Nat
    BY <2>1 DEF AnnexureMark
  <2> QED BY <2>2, Marked
<1> HIDE DEF id
<1>3. Opens(id, "ANNEXURE", 0, 0, With(<<>>, id, id, builder.lastSection, 0))
  BY <1>1, LineFacts, WithFields
<1>4. 0 \in Nat
  OBVIOUS
<1> QED BY <1>2, <1>3, <1>4, IdFacts, OpensIdsWith

LEMMA OpenSectionIds == ASSUME AtLine, IdsInv, OpenSection PROVE OpensIds
<1> DEFINE id == Line.num
           stack == <<Len(nodes) + 1>>
<1>1. Opens(id, "SECTION", 1, 0, InSection(id, <<>>, Line.num[1], stack))
  BY DEF OpenSection, InSection
<1>2. id \in Seq(Nat) /\ Line.num[1] \in Nat
  BY IdFacts DEF OpenSection, LooksLikeSection
<1>3. IsSequence(stack)
  <2>1. stack \in Seq(Nat)
    BY IdFacts, Marked
  <2> QED BY <2>1 DEF IsSequence
<1> HIDE DEF id, stack
<1>4. Opens(id, "SECTION", 1, 0, With(stack, id, <<>>, Line.num[1], builder.listAnchor))
  BY <1>1, LineFacts, WithFields
<1> QED BY <1>2, <1>3, <1>4, IdFacts, OpensIdsWith

LEMMA OpenLocalListIds == ASSUME AtLine, IdsInv, OpenLocalList PROVE OpensIds
<1> DEFINE id == Append(builder.section, ListMark + Line.num[1])
           prefix == Append(builder.section, ListMark)
<1>1. PICK parent : Opens(id, "CLAUSE", 2, parent, Prefixed(prefix))
  BY DEF OpenLocalList, Prefixed
<1>2. id \in Seq(Nat) /\ prefix \in Seq(Nat)
  <2>1. Line.num[1] \in Nat
    BY IdFacts DEF OpenLocalList, LooksLikeSection
  <2>2. ListMark + Line.num[1] \in Nat /\ ListMark \in Nat
    BY <2>1 DEF ListMark
  <2> QED BY <2>2, IdFacts, Marked
<1> HIDE DEF id, prefix
<1>3. Opens(id, "CLAUSE", 2, parent, With(builder.stack, builder.section, prefix,
            builder.lastSection, builder.listAnchor))
  BY <1>1, LineFacts, WithFields
<1> QED BY <1>2, <1>3, IdFacts, OpensIdsWith

\* A node that goes on the stack.
LEMMA PushedIds ==
  ASSUME AtLine, IdsInv, NEW id \in Seq(Nat), NEW kind, NEW depth, NEW parent, NEW d,
         Opens(id, kind, depth, parent, Stacked(Append(Popped(d), Len(nodes) + 1)))
  PROVE  OpensIds
<1> DEFINE pushed == Append(Popped(d), Len(nodes) + 1)
<1>1. IsSequence(pushed)
  BY LineFacts, PoppedFacts, AppendedFacts
<1> HIDE DEF pushed
<1>2. Opens(id, kind, depth, parent, With(pushed, builder.section, builder.prefix,
            builder.lastSection, builder.listAnchor))
  BY LineFacts, WithFields DEF pushed
<1> QED BY <1>1, <1>2, IdFacts, OpensIdsWith

LEMMA OpenClauseIds == ASSUME AtLine, IdsInv, OpenClause PROVE OpensIds
<1> DEFINE id == builder.prefix \o Line.num
<1>1. PICK kind, depth, parent :
        Opens(id, kind, depth, parent, Stacked(Append(Popped(Len(Line.num)), Len(nodes) + 1)))
  BY DEF OpenClause, Stacked
<1>2. id \in Seq(Nat)
  BY IdFacts, Marked
<1> HIDE DEF id
<1> QED BY <1>1, <1>2, PushedIds

LEMMA OpenAnnexureClauseIds == ASSUME AtLine, IdsInv, OpenAnnexureClause PROVE OpensIds
<1> DEFINE anchor == IF builder.listAnchor # 0 THEN builder.listAnchor ELSE annexure
           id == nodes[anchor].id \o Line.num
<1>1. PICK kind, depth, parent :
        Opens(id, kind, depth, parent, Stacked(Append(Popped(Len(Line.num)), Len(nodes) + 1)))
  BY DEF OpenAnnexureClause, Stacked
<1>2. annexure # 0 /\ ~appendix
  BY PartsFollow DEF OpenAnnexureClause, IsClauseLine, InText
<1>3. anchor \in 1..Len(nodes)
  BY <1>2, LineFacts DEF AtLine, ReadInv, SectionInv
<1>4. id \in Seq(Nat)
  <2> HIDE DEF anchor
  <2>1. nodes[anchor].id \in Seq(Nat) /\ Line.num \in Seq(Nat)
    BY <1>3, IdFacts
  <2> QED BY <2>1, Marked
<1> HIDE DEF id
<1> QED BY <1>1, <1>4, PushedIds

LEMMA OpenItemIds == ASSUME AtLine, IdsInv, OpenItem PROVE OpensIds
<1> DEFINE anchor == Top(builder.stack)
           id == Append(IdOf(anchor), ItemMark + Line.num[1])
           new == IF InAnnexures THEN Len(nodes) + 1 ELSE builder.listAnchor
<1>1. PICK depth : Opens(id, "ITEM", depth, anchor, Anchored(new))
  BY DEF OpenItem, Anchored
<1>2. anchor # 0 => anchor \in 1..Len(nodes)
  <2>1. builder.stack # <<>> =>
          Last(builder.stack) = builder.stack[Len(builder.stack)] /\ Len(builder.stack) \in DOMAIN builder.stack
    BY BuilderFacts, SequenceFacts DEF Last
  <2> QED BY <2>1, BuilderFacts DEF Top
<1>3. new \in Nat
  BY IdFacts
<1> HIDE DEF anchor, new
<1>4. id \in Seq(Nat)
  <2>1. IdOf(anchor) \in Seq(Nat)
    BY <1>2, IdFacts DEF IdOf
  <2>2. Line.num[1] \in Nat
    BY IdFacts DEF OpenItem, IsItemLine
  <2>3. ItemMark + Line.num[1] \in Nat
    BY <2>2 DEF ItemMark
  <2> QED BY <2>1, <2>3, Marked
<1> HIDE DEF id
<1>5. Opens(id, "ITEM", depth, anchor, With(builder.stack, builder.section, builder.prefix,
            builder.lastSection, new))
  BY <1>1, LineFacts, WithFields
<1> QED BY <1>3, <1>4, <1>5, IdFacts, OpensIdsWith

\* A line of either reading keeps the ids apart.
LEMMA LineKeepsIds ==
  ASSUME AtLine, IdsInv, LinesInv, TreeNext
  PROVE  IdsInv' /\ LinesInv'
<1>1. ShapeInv /\ at \in DOMAIN document
  BY LineFacts
<1>2. CASE SkipFront \/ AnnexureBanner \/ (AppendixLine /\ ~appendix)
  <2>1. KeepsIds
    BY <1>2 DEF SkipFront, AnnexureBanner, AppendixLine, Passes, KeepsIds, IdsInv
  <2> QED BY <2>1, KeptIds
<1>3. CASE BeforeAnnexures \/ Continue \/ (AppendixLine /\ appendix)
  <2>1. Appends(builder)
    BY <1>3 DEF BeforeAnnexures, Continue, AppendixLine
  <2>2. AppendsIds
    BY <2>1 DEF AppendsIds
  <2> QED BY <1>1, <2>2, AppendsKeepsIds
<1>4. CASE CrossReference
  <2> DEFINE stack == Popped(Len(Line.num))
  <2>1. Appends(Stacked(stack))
    BY <1>4 DEF CrossReference, Stacked
  <2> HIDE DEF stack
  <2>2. Stacked(stack) = With(stack, builder.section, builder.prefix, builder.lastSection,
                              builder.listAnchor)
    BY <1>1, WithFields
  <2>3. /\ Stacked(stack).current = builder.current /\ Stacked(stack).section = builder.section
        /\ Stacked(stack).prefix = builder.prefix
    BY <2>2 DEF With
  <2>4. AppendsIds
    BY <2>1, <2>3 DEF AppendsIds
  <2> QED BY <1>1, <2>4, AppendsKeepsIds
<1>5. CASE OpenAppendix \/ OpenAnnexure \/ OpenSection \/ OpenLocalList \/ OpenClause
             \/ OpenAnnexureClause \/ OpenItem
  <2>1. OpensIds
    BY <1>5, OpenAppendixIds, OpenAnnexureIds, OpenSectionIds, OpenLocalListIds, OpenClauseIds,
       OpenAnnexureClauseIds, OpenItemIds
  <2> QED BY <1>1, <2>1, OpensKeepsIds
<1>6. ~(FindRegions \/ EndOfReading \/ FlatLine \/ EndOfFlat)
  BY LineFacts DEF FindRegions, EndOfReading, FlatLine, EndOfFlat, IsDocument
<1>7. CASE AppendixLine
  BY <1>2, <1>3, <1>7
<1> QED BY <1>2, <1>3, <1>4, <1>5, <1>6, <1>7 DEF TreeNext

LEMMA FlatLineKeepsIds ==
  ASSUME ReadInv, IdsInv, LinesInv, FlatLine
  PROVE  IdsInv' /\ LinesInv'
<1>1. ShapeInv /\ IsBuilder(builder)
  BY DEF ReadInv, ShapeInv
<1>2. at \in DOMAIN document /\ IsLine(Line)
  <2>1. IsDocument /\ at \in 1..Len(document) + 1 /\ at <= Len(document)
    BY <1>1, DocumentsAreTyped DEF ShapeInv, FlatLine
  <2>2. at \in DOMAIN document
    BY <2>1 DEF IsDocument
  <2> QED BY <2>1, <2>2 DEF IsDocument, Line
<1>3. CASE Passes
  <2>1. KeepsIds
    BY <1>3 DEF Passes, KeepsIds, IdsInv
  <2> QED BY <2>1, KeptIds
<1>4. CASE Appends(builder)
  <2>1. AppendsIds
    BY <1>4 DEF AppendsIds
  <2> QED BY <1>1, <1>2, <2>1, AppendsKeepsIds
<1>5. ASSUME NEW b, b = [builder EXCEPT !.highest = Line.num[1]],
             Opens(Line.num, "CLAUSE", 1, 0, b)
      PROVE  IdsInv' /\ LinesInv'
  <2>1. IsBuilder(b) /\ b.section = builder.section /\ b.prefix = builder.prefix
    <3>1. PICK c, st, se, p, ls, la, f, h : builder = [current |-> c, stack |-> st,
              section |-> se, prefix |-> p, lastSection |-> ls, listAnchor |-> la,
              flat |-> f, highest |-> h]
      BY <1>1 DEF IsBuilder
    <3>2. PICK x : b = [current |-> c, stack |-> st, section |-> se, prefix |-> p,
              lastSection |-> ls, listAnchor |-> la, flat |-> f, highest |-> x]
      BY <1>5, <3>1
    <3> QED BY <1>1, <3>1, <3>2 DEF IsBuilder
  <2>2. Line.num \in Seq(Nat)
    BY <1>2 DEF IsLine
  <2>3. OpensIds
    BY <1>5, <2>1, <2>2 DEF OpensIds, IdsInv
  <2> QED BY <1>1, <1>2, <2>3, OpensKeepsIds
<1>6. Passes \/ Appends(builder)
      \/ Opens(Line.num, "CLAUSE", 1, 0, [builder EXCEPT !.highest = Line.num[1]])
  BY DEF FlatLine
<1> QED BY <1>3, <1>4, <1>5, <1>6

\* A builder that starts anew, or whose clause is closed.
LEMMA EndKeepsIds ==
  ASSUME ReadInv, IdsInv, LinesInv, EndOfReading \/ EndOfFlat
  PROVE  IdsInv' /\ LinesInv'
<1>1. UNCHANGED <<document, nodes>>
  BY DEF EndOfReading, EndOfFlat
<1>2. CASE builder' = [builder EXCEPT !.current = 0]
  <2>1. builder'.section = builder.section /\ builder'.prefix = builder.prefix
    BY <1>2 DEF ReadInv, ShapeInv, IsBuilder
  <2>2. KeepsIds
    BY <1>1, <2>1 DEF KeepsIds, IdsInv
  <2> QED BY <2>2, KeptIds
<1>3. CASE builder' = [NewBuilder EXCEPT !.flat = TRUE]
  <2>1. builder' = Starting(TRUE)
    BY <1>3, NewBuilderFacts
  <2>2. builder'.section = <<>> /\ builder'.prefix = <<>> /\ <<>> \in Seq(Nat)
    BY <2>1 DEF Starting
  <2>3. KeepsIds
    BY <1>1, <2>2 DEF KeepsIds
  <2> QED BY <2>3, KeptIds
<1> QED BY <1>2, <1>3 DEF EndOfReading, EndOfFlat

LEMMA TreeKeepsIds ==
  ASSUME ReadInv, IdsInv, LinesInv, TreeNext
  PROVE  IdsInv' /\ LinesInv'
<1>1. CASE Reading
  BY <1>1, LineKeepsIds DEF AtLine
<1>2. CASE FindRegions
  <2>1. KeepsIds
    BY <1>2 DEF FindRegions, KeepsIds, IdsInv
  <2> QED BY <2>1, KeptIds
<1>3. CASE EndOfReading \/ EndOfFlat
  BY <1>3, EndKeepsIds
<1>4. CASE FlatLine
  BY <1>4, FlatLineKeepsIds
<1>5. Reading \/ FindRegions \/ EndOfReading \/ FlatLine \/ EndOfFlat
  BY DEF TreeNext, SkipFront, OpenAppendix, AppendixLine, OpenAnnexure, AnnexureBanner,
         BeforeAnnexures, OpenSection, OpenLocalList, OpenClause, CrossReference,
         OpenAnnexureClause, OpenItem, Continue, IsClauseLine, IsItemLine, InText, InBody
<1> QED BY <1>1, <1>2, <1>3, <1>4, <1>5

-----------------------------------------------------------------------------
(* What a compile has said so far.                                         *)

SoundDuty(duty, text) ==
  /\ engine = "rules" => ByRules(duty, text)
  /\ engine = "llm" => ByModel(duty, text)
  /\ duty.deadline.count # "UNSPECIFIED" => At(text, {"within 2 working days"}) # {}
SoundOutcome(o) ==
  /\ o.clause \in DOMAIN nodes /\ Compiled(o.clause)
  /\ engine = "rules" => o.status # "EXTRACTION_FAILED"
  /\ \A a \in DOMAIN o.duties : o.duties[a].id = <<nodes[o.clause].id, a>>
                                /\ SoundDuty(o.duties[a].duty, TextOf(o.clause))

OutcomesInv ==
  /\ IsSequence(outcomes) /\ (~Read => outcomes = <<>>)
  /\ \A k \in DOMAIN outcomes : SoundOutcome(outcomes[k])
  /\ \A k, l \in DOMAIN outcomes : outcomes[k].clause = outcomes[l].clause => k = l
  /\ phase = "compiled" => Left = {}

LEMMA OutcomeStays ==
  ASSUME UNCHANGED <<document, nodes, engine>>, NEW o
  PROVE  SoundOutcome(o)' <=> SoundOutcome(o)
<1>1. TextOf(o.clause)' = TextOf(o.clause)
  BY DEF TextOf
<1>2. Compiled(o.clause)' <=> Compiled(o.clause)
  BY DEF Compiled, OfAnnexure
<1>3. ASSUME NEW duty, NEW text
      PROVE  SoundDuty(duty, text)' <=> SoundDuty(duty, text)
  BY DEF SoundDuty
<1> QED BY <1>1, <1>2, <1>3 DEF SoundOutcome

\* A clause that was left is spoken of.
LEMMA OutcomeIsSound ==
  ASSUME ShapeInv, OutcomesInv, phase = "read", NEW n \in Left, NEW status, NEW duties,
         Outcome(n, status, duties), engine = "rules" => status # "EXTRACTION_FAILED",
         \A k \in DOMAIN duties : SoundDuty(duties[k], TextOf(n))
  PROVE  OutcomesInv'
<1> DEFINE said == [k \in DOMAIN duties |-> [id |-> <<nodes[n].id, k>>, duty |-> duties[k]]]
           o == [clause |-> n, status |-> status, duties |-> said]
<1>1. /\ outcomes' = Append(outcomes, o) /\ UNCHANGED <<document, nodes, engine, phase>>
  BY DEF Outcome, treeVars
<1>2. n \in DOMAIN nodes /\ Compiled(n) /\ \A k \in DOMAIN outcomes : outcomes[k].clause # n
  BY DEF Left
<1>3. DOMAIN said = DOMAIN duties
      /\ \A k \in DOMAIN duties : said[k].id = <<nodes[n].id, k>> /\ said[k].duty = duties[k]
  OBVIOUS
<1> HIDE DEF said
<1>4. o.clause = n /\ o.status = status /\ o.duties = said
  OBVIOUS
<1> HIDE DEF o
<1>5. SoundOutcome(o)
  BY <1>2, <1>3, <1>4 DEF SoundOutcome
<1>6. IsSequence(outcomes)
  BY DEF OutcomesInv
<1>7. /\ IsSequence(outcomes') /\ DOMAIN outcomes = 1..Len(outcomes) /\ Len(outcomes) \in Nat
      /\ DOMAIN outcomes' = 1..Len(outcomes) + 1
      /\ \A k \in 1..Len(outcomes) : outcomes'[k] = outcomes[k]
      /\ outcomes'[Len(outcomes) + 1] = o
  BY <1>1, <1>6, AppendedFacts, SequenceFacts
<1>8. \A k \in DOMAIN outcomes' : \/ k \in DOMAIN outcomes /\ outcomes'[k] = outcomes[k]
                                  \/ k = Len(outcomes) + 1 /\ outcomes'[k] = o
  <2>1. \A k \in 1..Len(outcomes) + 1 : k \in 1..Len(outcomes) \/ k = Len(outcomes) + 1
    BY <1>7
  <2> QED BY <1>7, <2>1
<1>9. \A k \in DOMAIN outcomes' : SoundOutcome(outcomes'[k])
  BY <1>5, <1>8 DEF OutcomesInv
<1>10. \A x : SoundOutcome(x)' <=> SoundOutcome(x)
  BY <1>1, OutcomeStays
<1>11. \A k \in DOMAIN outcomes' : SoundOutcome(outcomes[k])'
  BY <1>9, <1>10
<1>12. \A k, l \in DOMAIN outcomes' : outcomes'[k].clause = outcomes'[l].clause => k = l
  BY <1>2, <1>4, <1>8 DEF OutcomesInv
<1> QED BY <1>1, <1>7, <1>11, <1>12 DEF OutcomesInv, Read

LEMMA RulesSay ==
  ASSUME ReadInv, LinesInv, OutcomesInv, ExtractByRules
  PROVE  OutcomesInv'
<1>1. PICK n \in Left : /\ Compiling(n) /\ engine = "rules"
        /\ LET text == TextOf(n)
               duties == DutiesOf(text)
               heading == nodes[n].kind \in {"SECTION", "ANNEXURE", "APPENDIX"}
           IN  CASE heading \/ Len(text) < TooShort \/ duties = <<>> -> Outcome(n, "NO_OBLIGATION", <<>>)
                 [] OTHER -> IF \A k \in DOMAIN duties : Valid(duties[k])
                             THEN Outcome(n, "PROPOSED", duties)
                             ELSE Outcome(n, "EXTRACTION_FAILED", <<>>)
  BY DEF ExtractByRules
<1> DEFINE text == TextOf(n)
           duties == DutiesOf(text)
<1>2. phase = "read" /\ ShapeInv /\ n \in DOMAIN nodes
  BY <1>1 DEF Compiling, ReadInv, Left
<1>3. text \in Seq(STRING)
  BY <1>2, TextsAreWords
<1> HIDE DEF text
<1>4. \A k \in DOMAIN duties : \E i : duties[k] = Duty(text, i)
  BY DEF DutiesOf
<1>5. \A k \in DOMAIN duties : Valid(duties[k])
  BY <1>3, <1>4, DutyIsValid
<1>6. \A k \in DOMAIN duties : SoundDuty(duties[k], text)
  <2>1. \A i : ByRules(Duty(text, i), text)
    BY <1>3, DutyIsSaid
  <2>2. \A i : Duty(text, i).deadline.count # "UNSPECIFIED" => At(text, {"within 2 working days"}) # {}
    BY <1>3, DutyDeadline
  <2>3. engine # "llm"
    BY <1>1
  <2> HIDE DEF duties
  <2> QED BY <1>4, <2>1, <2>2, <2>3 DEF SoundDuty
<1>7. Outcome(n, "NO_OBLIGATION", <<>>) \/ Outcome(n, "PROPOSED", duties)
  BY <1>1, <1>5 DEF text
<1> HIDE DEF duties
<1>8. CASE Outcome(n, "NO_OBLIGATION", <<>>)
  BY <1>2, <1>8, OutcomeIsSound
<1>9. CASE Outcome(n, "PROPOSED", duties)
  BY <1>2, <1>6, <1>9, OutcomeIsSound DEF text
<1> QED BY <1>7, <1>8, <1>9

LEMMA OutcomesStay ==
  ASSUME OutcomesInv, UNCHANGED <<document, nodes, engine, outcomes>>,
         phase' = phase \/ (Read /\ phase' = "compiled" /\ Left = {})
  PROVE  OutcomesInv'
<1>1. \A x : SoundOutcome(x)' <=> SoundOutcome(x)
  BY OutcomeStays
<1>2. \A k \in DOMAIN outcomes : SoundOutcome(outcomes[k])'
  BY <1>1 DEF OutcomesInv
<1>3. Left' = Left
  <2>1. \A n : Compiled(n)' <=> Compiled(n)
    BY DEF Compiled, OfAnnexure
  <2> QED BY <2>1 DEF Left
<1> QED BY <1>2, <1>3 DEF OutcomesInv, Read

LEMMA ModelSays ==
  ASSUME ReadInv, LinesInv, OutcomesInv, AskModel
  PROVE  OutcomesInv'
<1>1. PICK n \in Left : /\ Compiling(n) /\ engine = "llm"
        /\ \/ TryAgain(n) \/ Outcome(n, "NO_OBLIGATION", <<>>)
           \/ \E p \in Proposals(TextOf(n)) :
                LET duty == ToDuty(p, TextOf(n))
                IN  IF Valid(duty) THEN Outcome(n, "PROPOSED", <<duty>>)
                    ELSE TryAgain(n)
  BY DEF AskModel
<1> DEFINE text == TextOf(n)
<1>2. phase = "read" /\ ShapeInv /\ n \in DOMAIN nodes /\ engine # "rules"
  BY <1>1 DEF Compiling, ReadInv, Left
<1>3. text \in Seq(STRING)
  BY <1>2, TextsAreWords
<1>4. ASSUME NEW status, Outcome(n, status, <<>>)
      PROVE  OutcomesInv'
  BY <1>2, <1>4, OutcomeIsSound
<1>5. CASE TryAgain(n)
  <2>1. CASE attempt = 2
    BY <1>4, <1>5, <2>1 DEF TryAgain
  <2>2. CASE attempt # 2
    <3>1. UNCHANGED <<document, nodes, engine, outcomes, phase>>
      BY <1>5, <2>2 DEF TryAgain, treeVars
    <3> QED BY <3>1, OutcomesStay
  <2> QED BY <2>1, <2>2
<1>6. ASSUME NEW p \in Proposals(text), Outcome(n, "PROPOSED", <<ToDuty(p, text)>>)
      PROVE  OutcomesInv'
  <2> DEFINE duty == ToDuty(p, text)
  <2>1. /\ ByModel(duty, text)
        /\ duty.deadline.count # "UNSPECIFIED" => At(text, {"within 2 working days"}) # {}
    BY <1>3, ProposedDuty
  <2> HIDE DEF duty
  <2>2. SoundDuty(duty, text)
    BY <1>2, <2>1 DEF SoundDuty
  <2>3. \A k \in DOMAIN <<duty>> : <<duty>>[k] = duty
    OBVIOUS
  <2> DEFINE duties == <<duty>>
  <2>4. \A k \in DOMAIN duties : SoundDuty(duties[k], text)
    BY <2>2, <2>3
  <2> HIDE DEF duties
  <2>5. Outcome(n, "PROPOSED", duties)
    BY <1>6 DEF duty, duties
  <2> QED BY <1>2, <2>4, <2>5, OutcomeIsSound
<1>7. CASE Outcome(n, "NO_OBLIGATION", <<>>)
  BY <1>4, <1>7
<1> QED BY <1>1, <1>5, <1>6, <1>7

\* A line that is read says nothing yet.
LEMMA ReadingSays ==
  ASSUME ReadInv, OutcomesInv, Reads
  PROVE  OutcomesInv'
<1>1. TreeNext /\ UNCHANGED <<engine, outcomes>>
  BY DEF Reads
<1>2. phase \in {"brought", "reading", "flat"} /\ phase' # "compiled"
  BY <1>1 DEF TreeNext, FindRegions, SkipFront, OpenAppendix, AppendixLine, OpenAnnexure, AnnexureBanner,
         BeforeAnnexures, OpenSection, OpenLocalList, OpenClause, CrossReference,
         OpenAnnexureClause, OpenItem, Continue, IsClauseLine, IsItemLine, InText, InBody, Reading,
         EndOfReading, EndOfFlat, FlatLine, Opens, Appends, Passes
<1>3. outcomes = <<>> /\ outcomes' = <<>>
  BY <1>1, <1>2 DEF OutcomesInv, Read
<1>4. DOMAIN outcomes' = {} /\ IsSequence(outcomes')
  BY <1>3, NothingIsSequence
<1> QED BY <1>2, <1>3, <1>4 DEF OutcomesInv

CompileInv == ReadInv /\ IdsInv /\ LinesInv /\ OutcomesInv

LEMMA CompileInitHolds == ASSUME CompileInit PROVE CompileInv
<1>1. TreeInit /\ outcomes = <<>>
  BY DEF CompileInit
<1>2. nodes = <<>> /\ builder = Starting(FALSE) /\ phase = "brought"
  BY <1>1, NewBuilderFacts DEF TreeInit
<1>3. DOMAIN nodes = {} /\ DOMAIN outcomes = {} /\ IsSequence(outcomes)
  BY <1>1, <1>2, NothingIsSequence
<1>4. builder.section = <<>> /\ builder.prefix = <<>> /\ <<>> \in Seq(Nat)
  BY <1>2 DEF Starting
<1>5. IdsInv /\ LinesInv
  BY <1>3, <1>4 DEF IdsInv, LinesInv
<1>6. OutcomesInv
  BY <1>1, <1>2, <1>3 DEF OutcomesInv
<1> QED BY <1>1, <1>5, <1>6, InitHolds DEF CompileInv

LEMMA CompileInvStep == ASSUME CompileInv, [CompileNext]_compileVars PROVE CompileInv'
<1>1. ReadInv'
  BY CompileStepHolds DEF CompileInv
<1>2. CASE Reads
  <2>1. IdsInv' /\ LinesInv'
    BY <1>2, TreeKeepsIds DEF Reads, CompileInv
  <2> QED BY <1>1, <1>2, <2>1, ReadingSays DEF CompileInv
<1>3. CASE ExtractByRules \/ AskModel \/ EndOfCompile \/ UNCHANGED compileVars
  <2>1. UNCHANGED <<document, nodes, builder>>
    BY <1>3 DEF ExtractByRules, AskModel, TryAgain, Outcome, EndOfCompile, compileVars, treeVars
  <2>2. IdsInv' /\ LinesInv'
    BY <2>1 DEF CompileInv, IdsInv, LinesInv
  <2>3. ASSUME ExtractByRules PROVE OutcomesInv'
    BY <2>3, RulesSay DEF CompileInv
  <2>4. ASSUME AskModel PROVE OutcomesInv'
    BY <2>4, ModelSays DEF CompileInv
  <2>5. ASSUME EndOfCompile \/ UNCHANGED compileVars PROVE OutcomesInv'
    <3>1. /\ UNCHANGED <<document, nodes, engine, outcomes>>
          /\ phase' = phase \/ (Read /\ phase' = "compiled" /\ Left = {})
      BY <2>5 DEF EndOfCompile, compileVars, treeVars, Read
    <3> QED BY <3>1, OutcomesStay DEF CompileInv
  <2> QED BY <1>1, <1>3, <2>2, <2>3, <2>4, <2>5 DEF CompileInv
<1> QED BY <1>2, <1>3 DEF CompileNext

-----------------------------------------------------------------------------
(* What CompileInv says of a circular that was compiled.                   *)

LEMMA NothingWasInvented == ASSUME CompileInv PROVE NothingInvented
<1>1. \A k \in DOMAIN outcomes : \A j \in DOMAIN outcomes[k].duties :
        SoundDuty(outcomes[k].duties[j].duty, TextOf(outcomes[k].clause))
  BY DEF CompileInv, OutcomesInv, SoundOutcome
<1> QED BY <1>1 DEF NothingInvented, SoundDuty, ByModel

LEMMA DutiesAreApart == ASSUME CompileInv PROVE DutiesAreDistinct
<1> SUFFICES ASSUME phase = "compiled"
             PROVE  /\ {outcomes[k].clause : k \in DOMAIN outcomes} = {n \in DOMAIN nodes : Compiled(n)}
                    /\ \A k, l \in DOMAIN outcomes :
                         /\ outcomes[k].clause = outcomes[l].clause => k = l
                         /\ \A a \in DOMAIN outcomes[k].duties, b \in DOMAIN outcomes[l].duties :
                              outcomes[k].duties[a].id = outcomes[l].duties[b].id => k = l /\ a = b
  BY DEF DutiesAreDistinct
<1>1. /\ \A k \in DOMAIN outcomes : SoundOutcome(outcomes[k])
      /\ \A k, l \in DOMAIN outcomes : outcomes[k].clause = outcomes[l].clause => k = l
      /\ Left = {}
  BY DEF CompileInv, OutcomesInv
<1>2. \A k \in DOMAIN outcomes : outcomes[k].clause \in DOMAIN nodes /\ Compiled(outcomes[k].clause)
  BY <1>1 DEF SoundOutcome
<1>3. \A n \in DOMAIN nodes : Compiled(n) => \E k \in DOMAIN outcomes : outcomes[k].clause = n
  BY <1>1 DEF Left
<1>4. ASSUME NEW k \in DOMAIN outcomes, NEW l \in DOMAIN outcomes,
             NEW a \in DOMAIN outcomes[k].duties, NEW b \in DOMAIN outcomes[l].duties,
             outcomes[k].duties[a].id = outcomes[l].duties[b].id
      PROVE  k = l /\ a = b
  <2>1. /\ outcomes[k].duties[a].id = <<nodes[outcomes[k].clause].id, a>>
        /\ outcomes[l].duties[b].id = <<nodes[outcomes[l].clause].id, b>>
    BY <1>1, <1>4 DEF SoundOutcome
  <2>2. a = b /\ nodes[outcomes[k].clause].id = nodes[outcomes[l].clause].id
    <3> DEFINE x == nodes[outcomes[k].clause].id
               y == nodes[outcomes[l].clause].id
    <3>1. <<x, a>> = <<y, b>>
      BY <1>4, <2>1
    <3> HIDE DEF x, y
    <3>2. x = y /\ a = b
      BY <3>1
    <3> QED BY <3>2 DEF x, y
  <2>3. outcomes[k].clause = outcomes[l].clause
    BY <1>2, <1>4, <2>2 DEF CompileInv, IdsInv
  <2> QED BY <1>1, <1>4, <2>2, <2>3
<1> QED BY <1>1, <1>2, <1>3, <1>4

LEMMA RulesWereValid == ASSUME CompileInv PROVE RulesAlwaysValid
BY DEF CompileInv, OutcomesInv, SoundOutcome, RulesAlwaysValid

-----------------------------------------------------------------------------
\* Whatever circular is compiled, by either engine: every field of a duty is what
\* the words filed behind it say; every clause of the body is spoken of once, and no
\* two duties share an id; and the rules lose no clause to a duty the register's
\* types refuse.
THEOREM CompiledAlwaysSound == CompileSpec => []CompiledIsSound
<1>1. CompileInit => CompileInv
  BY CompileInitHolds
<1>2. CompileInv /\ [CompileNext]_compileVars => CompileInv'
  BY CompileInvStep
<1>3. CompileInv => CompiledIsSound
  BY NothingWasInvented, DutiesAreApart, RulesWereValid DEF CompiledIsSound
<1> QED BY <1>1, <1>2, <1>3, PTL DEF CompileSpec

-----------------------------------------------------------------------------
(* The comparison of two editions.                                         *)

\* A landing is a clause that came.
LEMMA LandedCame ==
  ASSUME NEW b, NEW a
  PROVE  Landed(b, a) \subseteq Came(b, a)
<1>1. ASSUME NEW c \in Moved(b, a)
      PROVE  NowAt(b, a, c) \in Came(b, a)
  <2>1. Landings(b, a, c) # {} /\ Landings(b, a, c) \subseteq Came(b, a)
    BY DEF Moved, Landings
  <2>2. Landings(b, a, c) \in SUBSET Nat
    BY <2>1, AmendmentAssumption DEF Came
  <2>3. QED
    BY <2>1, <2>2, MinIsLeast DEF NowAt
<1>2. QED
  BY <1>1 DEF Landed

\* Whatever a clause held in the earlier edition and does not hold in the
\* later one is hit, and not as an addition.
LEMMA LossIsHit ==
  ASSUME NEW b, NEW a, NEW c \in Clauses, b[c] # Gone, a[c] # b[c]
  PROVE  Diff(b, a)[c] \in {"MODIFIED", "REMOVED", "RENUMBERED"}
<1>1. c \notin Came(b, a) /\ c \notin Landed(b, a)
  BY LandedCame DEF Came
<1>2. CASE c \in Went(b, a)
  <2>1. CASE c \in Moved(b, a)
    BY <1>1, <2>1 DEF Diff
  <2>2. CASE c \notin Moved(b, a)
    BY <1>1, <1>2, <2>2 DEF Diff
  <2>3. QED
    BY <2>1, <2>2
<1>3. CASE c \notin Went(b, a)
  <2>1. c \notin Moved(b, a)
    BY <1>3 DEF Moved
  <2>2. QED
    BY <1>1, <1>3, <2>1 DEF Diff
<1>4. QED
  BY <1>2, <1>3

-----------------------------------------------------------------------------
(* The rules.                                                              *)

\* A rule that exists was drawn from one of the two editions.
TextKept(c) ==
  ~Is(c, "NONE") => rules[c].text \in {before[c], after[c]} \ {Gone}

RuleInv ==
  /\ edition \in Editions
  /\ now \in Nat
  /\ rules \in [Clauses -> [status : Statuses, text : Words, at : Nat]]
  /\ \A c \in Clauses : rules[c].at <= now
  /\ \A c \in Clauses : TextKept(c)

\* A request leaves the rulebook and the clock alone.
LEMMA RequestsKeepRules ==
  ASSUME NEW t \in Threads, Request(t)
  PROVE  UNCHANGED <<edition, rules, now>>
BY DEF Request, AskDecision, AskRaise, AskRecheck, AskAttach, Ask, LoadPlans,
       Load, Raise, Judge, Refused, Dropped, Save, Decide, Step

LEMMA OfficersKeepEdition ==
  ASSUME Officers
  PROVE  /\ UNCHANGED <<edition, now, tasks, plan, requests, alone>>
         /\ \/ \E found \in SUBSET Clauses : Compile(found)
            \/ \E c \in Clauses : Certify(c) \/ Reject(c) \/ Edit(c)
BY DEF Officers, Compile, Certify, Reject, Edit, Act

LEMMA RuleInvInit == Init => RuleInv
<1>1. SUFFICES ASSUME Init PROVE RuleInv
  OBVIOUS
<1>2. edition \in [Clauses -> Words] \X [Clauses -> Words]
  BY <1>1, AmendmentAssumption DEF Init
<1>3. before \in [Clauses -> Words]
  BY <1>2 DEF before
<1>4. \A c \in Clauses : before[c] \in Duties => before[c] \in Words /\ before[c] # Gone
  BY <1>3, AmendmentAssumption DEF Words
<1>5. rules \in [Clauses -> [status : Statuses, text : Words, at : Nat]]
  BY <1>1, <1>4 DEF Init, Statuses, Words
<1>6. QED
  BY <1>1, <1>4, <1>5 DEF RuleInv, TextKept, Is, Init

LEMMA RuleInvStep == RuleInv /\ [Next]_vars => RuleInv'
<1>1. SUFFICES ASSUME RuleInv, [Next]_vars PROVE RuleInv'
  OBVIOUS
<1>2. CASE UNCHANGED <<edition, rules, now>>
  BY <1>1, <1>2 DEF RuleInv, TextKept, Is, before, after
<1>3. CASE Officers
  <2>1. UNCHANGED <<edition, now>>
    BY <1>3, OfficersKeepEdition
  <2>2. before' = before /\ after' = after
    BY <2>1 DEF before, after
  <2>3. ASSUME NEW found \in SUBSET Clauses, Compile(found)
        PROVE  RuleInv'
    <3>1. after \in [Clauses -> Words]
      BY <1>1, AmendmentAssumption DEF RuleInv, after
    <3>2. \A c \in found : after[c] \in Words /\ after[c] # Gone
      BY <2>3, <3>1, AmendmentAssumption DEF Compile
    <3>3. ASSUME NEW c \in Clauses
          PROVE  \/ rules'[c] = rules[c]
                 \/ /\ c \in found
                    /\ rules'[c] = [rules[c] EXCEPT !.status = "PROPOSED", !.text = after[c]]
      BY <2>3, <3>3 DEF Compile
    <3>4. ASSUME NEW c \in Clauses
          PROVE  /\ rules'[c] \in [status : Statuses, text : Words, at : Nat]
                 /\ rules'[c].at <= now
                 /\ TextKept(c)'
      <4>1. /\ rules[c] \in [status : Statuses, text : Words, at : Nat]
            /\ rules[c].at <= now
            /\ TextKept(c)
        BY <1>1 DEF RuleInv
      <4>2. CASE rules'[c] = rules[c]
        BY <2>2, <4>1, <4>2 DEF TextKept, Is
      <4>3. CASE c \in found /\ rules'[c] = [rules[c] EXCEPT !.status = "PROPOSED", !.text = after[c]]
        <5>1. /\ rules'[c] \in [status : Statuses, text : Words, at : Nat]
              /\ rules'[c].at = rules[c].at
              /\ rules'[c].text = after[c]
          BY <3>2, <4>1, <4>3 DEF Statuses
        <5>2. QED
          BY <2>2, <3>2, <4>1, <4>3, <5>1 DEF TextKept
      <4>4. QED
        BY <3>3, <4>2, <4>3
    <3>5. rules' \in [Clauses -> [status : Statuses, text : Words, at : Nat]]
      BY <2>3, <3>4 DEF Compile
    <3>6. QED
      BY <1>1, <2>1, <3>4, <3>5 DEF RuleInv
  <2>4. ASSUME NEW c \in Clauses, NEW s \in Statuses \ {"NONE"}, NEW time \in Nat,
               ~Is(c, "NONE"), time <= now,
               rules' = [rules EXCEPT ![c] = [rules[c] EXCEPT !.status = s, !.at = time]]
        PROVE  RuleInv'
    <3>1. rules' \in [Clauses -> [status : Statuses, text : Words, at : Nat]]
      BY <1>1, <2>4 DEF RuleInv
    <3>2. ASSUME NEW d \in Clauses
          PROVE  rules'[d].at <= now /\ TextKept(d)'
      BY <1>1, <2>2, <2>4, <3>2 DEF RuleInv, TextKept, Is
    <3>3. QED
      BY <1>1, <2>1, <3>1, <3>2 DEF RuleInv
  <2>5. ASSUME NEW c \in Clauses, Certify(c)
        PROVE  RuleInv'
    <3>1. ~Is(c, "NONE") /\ now \in Nat
      BY <1>1, <2>5 DEF Certify, Is, RuleInv
    <3>2. rules' = [rules EXCEPT ![c] = [rules[c] EXCEPT !.status = "CERTIFIED", !.at = now]]
      BY <1>1, <2>5 DEF Certify, RuleInv
    <3>3. "CERTIFIED" \in Statuses \ {"NONE"} /\ now <= now
      BY <3>1 DEF Statuses
    <3>4. QED
      BY <3>1, <3>2, <3>3, <2>4
  <2>6. ASSUME NEW c \in Clauses, NEW s \in Statuses \ {"NONE"}, ~Is(c, "NONE"),
               rules' = [rules EXCEPT ![c].status = s]
        PROVE  RuleInv'
    <3>1. rules[c].at \in Nat /\ rules[c].at <= now
      BY <1>1 DEF RuleInv
    <3>2. rules' = [rules EXCEPT ![c] = [rules[c] EXCEPT !.status = s, !.at = rules[c].at]]
      BY <1>1, <2>6 DEF RuleInv
    <3>3. QED
      BY <2>6, <3>1, <3>2, <2>4
  <2>7. ASSUME NEW c \in Clauses, Reject(c) \/ Edit(c)
        PROVE  RuleInv'
    BY <2>6, <2>7 DEF Reject, Edit, Is, Statuses
  <2>8. QED
    BY <1>3, <2>3, <2>5, <2>7, OfficersKeepEdition
<1>4. CASE Tick
  <2>1. UNCHANGED <<edition, rules>> /\ now' = now + 1
    BY <1>4 DEF Tick
  <2>2. QED
    BY <1>1, <2>1 DEF RuleInv, TextKept, Is, before, after
<1>5. CASE \E t \in Threads : Request(t)
  BY <1>2, <1>5, RequestsKeepRules
<1>6. CASE WebDies \/ UNCHANGED vars
  BY <1>2, <1>6 DEF WebDies, Dropped, vars
<1>7. QED
  BY <1>1, <1>3, <1>4, <1>5, <1>6 DEF Next

LEMMA RuleInvAlways == Spec => []RuleInv
BY RuleInvInit, RuleInvStep, PTL DEF Spec

\* No signature over words the later edition does not hold goes unasked about
\* (diff/tree_diff.py, diff/impact.py, orchestrate.py).
THEOREM LossNeverMissed == Spec => []NoLossMissed
<1>1. RuleInv => NoLossMissed
  <2>1. SUFFICES ASSUME RuleInv, NEW c \in Clauses,
                        Is(c, "CERTIFIED"), rules[c].text # after[c]
                 PROVE  \E a \in Actions :
                          a.clause = c /\ a.kind \in {"RECERTIFY", "WITHDRAW", "REPOINT"}
    BY DEF NoLossMissed
  <2>2. before[c] # Gone /\ after[c] # before[c]
    BY <2>1 DEF RuleInv, TextKept, Is
  <2>3. Diff(before, after)[c] \in {"MODIFIED", "REMOVED", "RENUMBERED"}
    BY <2>2, LossIsHit
  <2>4. Comparison[edition].diff = Diff(before, after)
    BY <2>1 DEF RuleInv, Comparison, before, after
  <2>5. Change(c) \in {"MODIFIED", "REMOVED", "RENUMBERED"} /\ c \in Hit
    BY <2>3, <2>4 DEF Change, Hit, HitBy
  <2>6. Kind(c) \in {"RECERTIFY", "WITHDRAW", "REPOINT"}
    BY <2>5 DEF Kind
  <2>7. [kind |-> Kind(c), clause |-> c] \in Actions
    BY <2>1, <2>5, <2>6 DEF Actions, Action, Kinds
  <2>8. QED
    BY <2>6, <2>7
<1>2. QED
  BY <1>1, RuleInvAlways, PTL

-----------------------------------------------------------------------------
(* The task file, as it is and as a request holds it.                      *)

TaskFile(s) ==
  /\ s \in [DOMAIN s -> [status : {"OPEN", "READY_FOR_RECHECK", "CLOSED"}, raised : Nat]]
  /\ DOMAIN s \subseteq Action \X Nat
  /\ IsFiniteSet(DOMAIN s)

OneOpen(s) ==
  \A i, j \in DOMAIN s :
    i # j /\ i[1] = j[1] /\ IsOpen(s[i]) /\ IsOpen(s[j])
      => "READY_FOR_RECHECK" \in {s[i].status, s[j].status}

\* Closed is dealt with, given the rules rs, the re-reads un and the later
\* edition a; and nothing signed since it was raised still counts as unread.
Settled(s, rs, un, a) ==
  \A id \in DOMAIN s :
    /\ ~IsOpen(s[id]) =>
         /\ id[1].kind = "REREAD" => id \notin un
         /\ id[1].kind = "RECERTIFY" => rs[id[1].clause].text = a[id[1].clause]
    /\ id \in un => rs[id[1].clause].at <= s[id].raised

Good(s) == TaskFile(s) /\ OneOpen(s) /\ Settled(s, rules, unread, after)

LEMMA ActionClause ==
  ASSUME NEW a \in Action PROVE a.clause \in Clauses
BY DEF Action

\* What the comparison finds to do is an action on a rule.
LEMMA ActionsAreActions == Actions \subseteq Action
<1>1. ASSUME NEW c \in Hit PROVE [kind |-> Kind(c), clause |-> c] \in Action
  <2> DEFINE found == Comparison[edition].diff
  <2>1. c \in Clauses /\ found[c] \in {"MODIFIED", "REMOVED", "RENUMBERED"}
    BY DEF Hit, HitBy
  <2>2. Kind(c) = CASE found[c] = "MODIFIED"   -> "RECERTIFY"
                    [] found[c] = "REMOVED"    -> "WITHDRAW"
                    [] found[c] = "RENUMBERED" -> "REPOINT"
    BY DEF Kind, Change
  <2> HIDE DEF found
  <2>3. Kind(c) \in Kinds
    BY <2>1, <2>2 DEF Kinds
  <2>4. QED
    BY <2>1, <2>3 DEF Action
<1>2. ASSUME NEW c \in Clauses, NEW k \in {"REREAD", "ASSESS_NEW"}
      PROVE  [kind |-> k, clause |-> c] \in Action
  BY DEF Action, Kinds
<1> DEFINE hits == {d \in Hit : Is(d, "CERTIFIED")}
           again == {d \in Clauses : d \in Reread /\ Live(d)}
           new == {d \in Clauses : Change(d) = "ADDED" /\ Is(d, "NONE")}
<1>3. Actions = {[kind |-> Kind(c), clause |-> c] : c \in hits}
                  \cup {[kind |-> "REREAD", clause |-> c] : c \in again}
                  \cup {[kind |-> "ASSESS_NEW", clause |-> c] : c \in new}
  BY DEF Actions
<1>4. hits \subseteq Hit /\ again \subseteq Clauses /\ new \subseteq Clauses
  OBVIOUS
<1> HIDE DEF hits, again, new
<1>5. QED
  BY <1>1, <1>2, <1>3, <1>4

\* There are no more actions than kinds and clauses.
LEMMA ActionsFinite ==
  ASSUME NEW as \in SUBSET Action PROVE IsFiniteSet(as)
<1> DEFINE f == [p \in Kinds \X Clauses |-> [kind |-> p[1], clause |-> p[2]]]
           A == {"RECERTIFY"} \cup {"WITHDRAW"} \cup {"REPOINT"} \cup {"REREAD"}
                  \cup {"ASSESS_NEW"}
<1>1. IsFiniteSet(A)
  BY FS_Singleton, FS_Union
<1>2. Kinds = A
  BY DEF Kinds
<1>3. IsFiniteSet(Kinds \X Clauses)
  BY <1>1, <1>2, FS_Product, AmendmentAssumption
<1>4. \A p \in Kinds \X Clauses : f[p] \in Action
  BY DEF Action
<1>5. ASSUME NEW a \in Action
      PROVE  \E p \in Kinds \X Clauses : f[p] = a
  <2>1. <<a.kind, a.clause>> \in Kinds \X Clauses
    BY DEF Action
  <2>2. f[<<a.kind, a.clause>>] = a
    BY <2>1 DEF Action
  <2>3. QED
    BY <2>1, <2>2
<1>6. f \in Surjection(Kinds \X Clauses, Action)
  <2>1. f \in [Kinds \X Clauses -> Action]
    BY <1>4
  <2>2. QED
    BY <1>5, <2>1, FS_Surjection DEF Surjection
<1>7. IsFiniteSet(Action)
  BY <1>3, <1>6, FS_Surjection
<1>8. QED
  BY <1>7, FS_Subset

\* The ids name a task in D for each of the actions as.
Covers(as, ids, D) ==
  /\ ids \subseteq D
  /\ \A a \in as : \E id \in ids : id[1] = a

\* Of all an officer or a compile does, this is what the tasks notice.
LEMMA OfficersShape ==
  ASSUME RuleInv, Officers
  PROVE  /\ unread' \subseteq unread
         /\ \A c \in Clauses :
              /\ rules'[c].text \in {rules[c].text, after[c]}
              /\ rules'[c].at = rules[c].at \/ \A id \in unread' : id[1].clause # c
<1>1. rules \in [Clauses -> [status : Statuses, text : Words, at : Nat]]
  BY DEF RuleInv
<1>2. ASSUME NEW found \in SUBSET Clauses, Compile(found), NEW c \in Clauses
      PROVE  /\ unread' = unread
             /\ rules'[c].text \in {rules[c].text, after[c]}
             /\ rules'[c].at = rules[c].at
  <2>1. rules[c] \in [status : Statuses, text : Words, at : Nat]
    BY <1>1
  <2>2. rules'[c] \in {rules[c], [rules[c] EXCEPT !.status = "PROPOSED", !.text = after[c]]}
    BY <1>2 DEF Compile
  <2>3. QED
    BY <1>2, <2>1, <2>2 DEF Compile
<1>3. ASSUME NEW d \in Clauses, Certify(d), NEW c \in Clauses
      PROVE  /\ unread' = {id \in unread : id[1].clause # d}
             /\ rules'[c].text = rules[c].text
             /\ c # d => rules'[c].at = rules[c].at
  BY <1>1, <1>3 DEF Certify
<1>4. ASSUME NEW d \in Clauses, Reject(d) \/ Edit(d), NEW c \in Clauses
      PROVE  /\ unread' = unread
             /\ rules'[c].text = rules[c].text
             /\ rules'[c].at = rules[c].at
  BY <1>1, <1>4 DEF Reject, Edit
<1>5. CASE \E found \in SUBSET Clauses : Compile(found)
  <2>1. unread' = unread
    BY <1>5 DEF Compile
  <2>2. QED
    BY <1>2, <1>5, <2>1
<1>6. CASE \E d \in Clauses : Certify(d)
  <2>1. PICK d \in Clauses : Certify(d)
    BY <1>6
  <2>2. unread' = {id \in unread : id[1].clause # d}
    BY <2>1 DEF Certify
  <2>3. QED
    BY <1>3, <2>1, <2>2
<1>7. CASE \E d \in Clauses : Reject(d) \/ Edit(d)
  <2>1. unread' = unread
    BY <1>7 DEF Reject, Edit
  <2>2. QED
    BY <1>4, <1>7, <2>1
<1>8. QED
  BY <1>5, <1>6, <1>7, OfficersKeepEdition

LEMMA AfterKept ==
  ASSUME UNCHANGED edition PROVE after' = after
BY DEF after

\* What is settled stays settled whatever officers do.
LEMMA OfficersSettle ==
  ASSUME NEW s, RuleInv, Officers, TaskFile(s),
         Settled(s, rules, unread, after)
  PROVE  Settled(s, rules', unread', after)
<1>1. SUFFICES ASSUME NEW id \in DOMAIN s
               PROVE  /\ ~IsOpen(s[id]) =>
                          /\ id[1].kind = "REREAD" => id \notin unread'
                          /\ id[1].kind = "RECERTIFY"
                               => rules'[id[1].clause].text = after[id[1].clause]
                      /\ id \in unread' => rules'[id[1].clause].at <= s[id].raised
  BY DEF Settled
<1>2. id[1].clause \in Clauses
  BY ActionClause DEF TaskFile
<1>3. QED
  BY <1>1, <1>2, OfficersShape DEF Settled

\* An action is given the unfinished task it has, or a new one of its own.
LEMMA IdForType ==
  ASSUME NEW s, TaskFile(s), NEW a \in Action
  PROVE  /\ IdFor(s, a) \in Action \X Nat
         /\ IdFor(s, a)[1] = a
         /\ Unfinished(s, a) # {} => IdFor(s, a) \in Unfinished(s, a)
<1>1. /\ TasksOf(s, a) \subseteq DOMAIN s
      /\ Unfinished(s, a) \subseteq TasksOf(s, a)
      /\ \A id \in TasksOf(s, a) : id = <<a, id[2]>> /\ id[2] \in Nat
  BY DEF TaskFile, TasksOf, Unfinished
<1>2. CASE Unfinished(s, a) # {}
  <2> DEFINE Numbers == {id[2] : id \in Unfinished(s, a)}
  <2>1. Numbers \in SUBSET Nat /\ Numbers # {}
    BY <1>1, <1>2
  <2>2. Min(Numbers) \in Numbers
    BY <2>1, MinIsLeast
  <2>3. PICK id \in Unfinished(s, a) : id[2] = Min(Numbers)
    BY <2>2
  <2>4. IdFor(s, a) = id
    BY <1>1, <1>2, <2>3 DEF IdFor
  <2>5. QED
    BY <1>1, <2>4 DEF TaskFile
<1>3. CASE Unfinished(s, a) = {}
  <2>1. IdFor(s, a) = <<a, Cardinality(TasksOf(s, a)) + 1>>
    BY <1>3 DEF IdFor
  <2>2. Cardinality(TasksOf(s, a)) \in Nat
    BY <1>1, FS_Subset, FS_CardinalityType DEF TaskFile
  <2>3. QED
    BY <1>3, <2>1, <2>2
<1>4. QED
  BY <1>2, <1>3

\* Raising keeps a good task file good and leaves a task for every action.
LEMMA RaiseIsGood ==
  ASSUME NEW s, NEW as \in SUBSET Action, RuleInv, Good(s)
  PROVE  LET ids == IdsFor(s, as)
             r == RaiseAll(s, as)
             un == unread \cup {id \in ids \ DOMAIN s : id[1].kind = "REREAD"}
         IN /\ TaskFile(r) /\ OneOpen(r) /\ Settled(r, rules, un, after)
            /\ DOMAIN s \subseteq DOMAIN r
            /\ Covers(as, ids, DOMAIN r)
            /\ Settled(s, rules, un, after)
<1> DEFINE ids == IdsFor(s, as)
           r == RaiseAll(s, as)
           fresh == [status |-> "OPEN", raised |-> now]
           un == unread \cup {id \in ids \ DOMAIN s : id[1].kind = "REREAD"}
<1>1. now \in Nat /\ TaskFile(s) /\ OneOpen(s) /\ Settled(s, rules, unread, after)
  BY DEF RuleInv, Good
<1>2. /\ DOMAIN r = DOMAIN s \cup ids
      /\ \A id \in DOMAIN s : r[id] = s[id]
      /\ \A id \in ids \ DOMAIN s : r[id] = fresh
      /\ r = [id \in DOMAIN r |-> r[id]]
  BY DEF RaiseAll
<1>3. \A a \in as : IdFor(s, a) \in Action \X Nat /\ IdFor(s, a)[1] = a
  BY <1>1, IdForType
<1>4. ids \subseteq Action \X Nat /\ IsFiniteSet(ids)
  <2> DEFINE f == [a \in as |-> IdFor(s, a)]
  <2>1. ids = {IdFor(s, a) : a \in as}
    BY DEF IdsFor
  <2>2. f \in Surjection(as, ids)
    BY <2>1 DEF Surjection
  <2>3. IsFiniteSet(as)
    BY ActionsFinite
  <2>4. QED
    BY <1>3, <2>1, <2>2, <2>3, FS_Surjection
<1> HIDE DEF ids, r
<1>5. TaskFile(r)
  <2>1. IsFiniteSet(DOMAIN r)
    <3>1. IsFiniteSet(DOMAIN s)
      BY <1>1 DEF TaskFile
    <3>2. IsFiniteSet(DOMAIN s \cup ids)
      BY <1>4, <3>1, FS_Union
    <3>3. QED
      BY <1>2, <3>2
  <2>2. \A id \in DOMAIN r :
          r[id] \in [status : {"OPEN", "READY_FOR_RECHECK", "CLOSED"}, raised : Nat]
    <3>1. fresh \in [status : {"OPEN", "READY_FOR_RECHECK", "CLOSED"}, raised : Nat]
      BY <1>1
    <3>2. QED
      BY <1>1, <1>2, <3>1 DEF TaskFile
  <2>3. QED
    BY <1>1, <1>2, <1>4, <2>1, <2>2 DEF TaskFile
<1>6. \* A new task is the only unfinished one of its action.
      ASSUME NEW i \in ids \ DOMAIN s, NEW j \in DOMAIN r, i # j, i[1] = j[1]
      PROVE  ~IsOpen(r[j])
  <2>1. PICK a \in as : i = IdFor(s, a)
    BY <1>6 DEF ids, IdsFor
  <2>2. i[1] = a /\ Unfinished(s, a) = {}
    BY <1>1, <2>1, IdForType DEF Unfinished, TasksOf
  <2>3. j \in DOMAIN s
    <3>1. SUFFICES ASSUME j \in ids PROVE FALSE
      BY <1>2, <3>1
    <3>2. PICK d \in as : j = IdFor(s, d)
      BY <3>1 DEF ids, IdsFor
    <3>3. j[1] = d
      BY <1>1, <3>2, IdForType
    <3>4. QED
      BY <1>6, <2>1, <2>2, <3>2, <3>3
  <2>4. QED
    BY <1>2, <1>6, <2>2, <2>3 DEF Unfinished, TasksOf
<1>7. OneOpen(r)
  <2>1. SUFFICES ASSUME NEW i \in DOMAIN r, NEW j \in DOMAIN r, i # j, i[1] = j[1],
                        IsOpen(r[i]), IsOpen(r[j])
                 PROVE  "READY_FOR_RECHECK" \in {r[i].status, r[j].status}
    BY DEF OneOpen
  <2>2. i \in DOMAIN s /\ j \in DOMAIN s
    BY <1>2, <1>6, <2>1
  <2>3. QED
    BY <1>1, <1>2, <2>1, <2>2 DEF OneOpen
<1>8. Settled(s, rules, un, after)
  BY <1>1 DEF Settled
<1>9. Settled(r, rules, un, after)
  <2>1. SUFFICES ASSUME NEW id \in DOMAIN r
                 PROVE  /\ ~IsOpen(r[id]) =>
                            /\ id[1].kind = "REREAD" => id \notin un
                            /\ id[1].kind = "RECERTIFY"
                                 => rules[id[1].clause].text = after[id[1].clause]
                        /\ id \in un => rules[id[1].clause].at <= r[id].raised
    BY DEF Settled
  <2>2. CASE id \in DOMAIN s
    BY <1>2, <1>8, <2>2 DEF Settled
  <2>3. CASE id \in ids \ DOMAIN s
    <3>1. r[id].status = "OPEN" /\ r[id].raised = now
      BY <1>2, <2>3
    <3>2. rules[id[1].clause].at <= now
      BY <1>4, <2>3, ActionClause DEF RuleInv
    <3>3. QED
      BY <3>1, <3>2 DEF IsOpen
  <2>4. QED
    BY <1>2, <2>1, <2>2, <2>3
<1>10. Covers(as, ids, DOMAIN r)
  <2>1. ASSUME NEW a \in as PROVE \E id \in ids : id[1] = a
    BY <1>3 DEF ids, IdsFor
  <2>2. QED
    BY <1>2, <2>1 DEF Covers
<1>11. QED
  BY <1>2, <1>5, <1>7, <1>8, <1>9, <1>10 DEF ids, r

\* A status changed by a verdict or by attaching keeps a good task file good.
LEMMA JudgeIsGood ==
  ASSUME NEW s, NEW id \in DOMAIN s, RuleInv, Good(s),
         NEW r \in {Rechecked(s, id), [s EXCEPT ![id].status = "READY_FOR_RECHECK"]}
  PROVE  Good(r) /\ DOMAIN r = DOMAIN s
<1>1. TaskFile(s) /\ OneOpen(s) /\ Settled(s, rules, unread, after)
  BY DEF Good
<1>2. CASE r = s
  BY <1>2
<1>3. ASSUME NEW st \in {"CLOSED", "READY_FOR_RECHECK"},
             r = [s EXCEPT ![id] = [s[id] EXCEPT !.status = st]],
             st = "CLOSED" => Done(id[1], s[id].raised)
      PROVE  Good(r) /\ DOMAIN r = DOMAIN s
  <2>1. s[id] \in [status : {"OPEN", "READY_FOR_RECHECK", "CLOSED"}, raised : Nat]
        /\ id \in Action \X Nat
    BY <1>1 DEF TaskFile
  <2>2. /\ DOMAIN r = DOMAIN s
        /\ \A j \in DOMAIN s : r[j].raised = s[j].raised
        /\ \A j \in DOMAIN s \ {id} : r[j] = s[j]
        /\ r[id].status = st
        /\ r[id] \in [status : {"OPEN", "READY_FOR_RECHECK", "CLOSED"}, raised : Nat]
    BY <1>3, <2>1
  <2>3. TaskFile(r)
    BY <1>1, <1>3, <2>2 DEF TaskFile
  <2>4. OneOpen(r)
    BY <1>1, <1>3, <2>2 DEF OneOpen, IsOpen
  <2>5. Settled(r, rules, unread, after)
    <3>1. SUFFICES ASSUME st = "CLOSED"
                   PROVE  /\ id[1].kind = "REREAD" => id \notin unread
                          /\ id[1].kind = "RECERTIFY"
                               => rules[id[1].clause].text = after[id[1].clause]
      BY <1>1, <1>3, <2>2 DEF Settled, IsOpen
    <3>2. Done(id[1], s[id].raised) /\ id[1].clause \in Clauses
      BY <1>3, <2>1, <3>1, ActionClause
    <3>3. ASSUME id[1].kind = "REREAD"
          PROVE  id \notin unread
      <4>1. rules[id[1].clause].at > s[id].raised
        BY <3>2, <3>3 DEF Done
      <4>2. rules[id[1].clause].at \in Nat /\ s[id].raised \in Nat
        BY <2>1, <3>2 DEF RuleInv
      <4>3. QED
        BY <1>1, <4>1, <4>2 DEF Settled
    <3>4. ASSUME id[1].kind = "RECERTIFY"
          PROVE  rules[id[1].clause].text = after[id[1].clause]
      BY <3>2, <3>4 DEF Done
    <3>5. QED
      BY <3>3, <3>4
  <2>6. QED
    BY <2>2, <2>3, <2>4, <2>5 DEF Good
<1>4. s[id] \in [status : {"OPEN", "READY_FOR_RECHECK", "CLOSED"}, raised : Nat]
  BY <1>1 DEF TaskFile
<1>5. CASE r = Rechecked(s, id)
  BY <1>2, <1>3, <1>4, <1>5 DEF Rechecked
<1>6. CASE r = [s EXCEPT ![id].status = "READY_FOR_RECHECK"]
  BY <1>3, <1>4, <1>6
<1>7. QED
  BY <1>5, <1>6

-----------------------------------------------------------------------------
(* Requests that do not overlap.                                           *)

Places == {"idle", "plans", "load", "work", "save", "decide"}

AnyCall ==
  [what : {"approve", "decline", "raise"}, actions : SUBSET Action,
   ids : SUBSET (Action \X Nat)]
  \cup [what : {"recheck", "attach"}, task : Action \X Nat]

\* What a request knows at each place of its route.
Holds(t) ==
  /\ pc[t] # "idle" => call[t] \in AnyCall
  /\ pc[t] \in {"plans", "decide"} => call[t].what \in {"approve", "decline"}
  /\ pc[t] \in {"load", "work", "save"} => call[t].what # "decline"
  /\ pc[t] \in {"load", "work", "save", "decide"} /\ call[t].what \in {"approve", "decline"}
       => decided[t] = plan
  /\ pc[t] = "work" => copy[t] = tasks
  /\ pc[t] = "save" =>
       /\ Good(copy[t]) /\ DOMAIN tasks \subseteq DOMAIN copy[t]
       /\ call[t].what = "approve" => Covers(call[t].actions, call[t].ids, DOMAIN copy[t])
  /\ pc[t] = "decide" /\ call[t].what = "approve"
       => Covers(call[t].actions, call[t].ids, DOMAIN tasks)

PlanKept ==
  plan # None /\ plan.status = "APPROVED" => Covers(plan.asked, plan.ids, DOMAIN tasks)

Alone ==
  /\ pc \in [Threads -> Places]
  /\ DOMAIN call = Threads /\ DOMAIN copy = Threads /\ DOMAIN decided = Threads
  /\ \A t, u \in Threads : pc[t] # "idle" /\ pc[u] # "idle" => t = u
  /\ Good(tasks) /\ PlanKept
  /\ \A t \in Threads : Holds(t)

SoloInv == alone => Alone

LEMMA SoloInvInit == Init => SoloInv
<1>1. SUFFICES ASSUME Init PROVE Alone
  BY DEF SoloInv
<1>2. DOMAIN tasks = {} /\ tasks = [id \in {} |-> None]
  BY <1>1 DEF Init, NoTasks
<1>3. TaskFile(tasks)
  BY <1>2, FS_EmptySet DEF TaskFile
<1>4. Good(tasks)
  BY <1>2, <1>3 DEF Good, OneOpen, Settled
<1>5. plan = None /\ \A t \in Threads : pc[t] = "idle"
  BY <1>1 DEF Init
<1>6. PlanKept /\ \A t \in Threads : Holds(t)
  BY <1>5 DEF PlanKept, Holds
<1>7. QED
  BY <1>1, <1>4, <1>5, <1>6 DEF Alone, Init, Places

\* When the request of t is the only one and moves on, this is what it leaves.
LEMMA StepLeaves ==
  ASSUME Alone, NEW t \in Threads, NEW c, NEW s, NEW d, Step(t, c, s, d), pc[t] # "idle",
         Following(call[t].what, pc[t]) \in Places
  PROVE  LET to == Following(call[t].what, pc[t])
         IN /\ pc' \in [Threads -> Places]
            /\ DOMAIN call' = Threads /\ DOMAIN copy' = Threads /\ DOMAIN decided' = Threads
            /\ \A u \in Threads \ {t} : pc'[u] = "idle"
            /\ pc'[t] = to
            /\ to # "idle" => call'[t] = c /\ copy'[t] = s /\ decided'[t] = d
            /\ UNCHANGED <<edition, rules, now, alone>>
BY DEF Alone, Step

\* So only what that request holds, the tasks and the plan are left to show.
LEMMA StepIsAlone ==
  ASSUME Alone, NEW t \in Threads, NEW c, NEW s, NEW d, Step(t, c, s, d), pc[t] # "idle",
         Following(call[t].what, pc[t]) \in Places,
         Good(tasks)', PlanKept', Holds(t)'
  PROVE  Alone'
<1>1. ASSUME NEW u \in Threads \ {t}
      PROVE  pc'[u] = "idle" /\ Holds(u)'
  BY StepLeaves DEF Holds
<1>2. QED
  BY <1>1, StepLeaves DEF Alone

\* A file that is good stays good when neither the rules nor the re-reads change.
LEMMA GoodKept ==
  ASSUME UNCHANGED <<edition, rules, unread>>
  PROVE  /\ Good(tasks) /\ UNCHANGED tasks => Good(tasks)'
         /\ \A t \in Threads : Good(copy[t]) /\ copy'[t] = copy[t] => Good(copy[t])'
         /\ \A s : Good(s) /\ tasks' = s => Good(tasks)'
         /\ \A s, t : Good(s) /\ copy'[t] = s => Good(copy[t])'
BY AfterKept DEF Good

LEMMA PlanKeptStays ==
  ASSUME PlanKept, UNCHANGED plan, DOMAIN tasks \subseteq DOMAIN tasks'
  PROVE  PlanKept'
BY DEF PlanKept, Covers

\* A new request finds all threads idle, if it is to be alone.
LEMMA AskIsAlone ==
  ASSUME Alone, NEW t \in Threads, NEW c \in AnyCall,
         NEW where \in {"plans", "load"}, Ask(t, c, where), alone',
         c.what \in {"approve", "decline"} <=> where = "plans"
  PROVE  Alone'
<1>1. /\ \A u \in Threads : pc[u] = "idle"
      /\ UNCHANGED <<edition, rules, now, tasks, plan, copy, decided, unread>>
      /\ pc' = [pc EXCEPT ![t] = where] /\ call' = [call EXCEPT ![t] = c]
  BY DEF Ask, Undisturbed
<1>2. /\ pc' \in [Threads -> Places] /\ DOMAIN call' = Threads
      /\ pc'[t] = where /\ call'[t] = c
      /\ \A u \in Threads \ {t} : pc'[u] = "idle"
  BY <1>1 DEF Alone, Places
<1>3. Good(tasks)' /\ PlanKept'
  BY <1>1, GoodKept, PlanKeptStays DEF Alone
<1>4. Holds(t)'
  <2>1. CASE where = "plans"
    BY <1>2, <2>1 DEF Holds
  <2>2. CASE where = "load"
    BY <1>2, <2>2 DEF Holds
  <2>3. QED
    BY <2>1, <2>2
<1>5. \A u \in Threads \ {t} : Holds(u)'
  BY <1>2 DEF Holds
<1>6. QED
  BY <1>1, <1>2, <1>3, <1>4, <1>5 DEF Alone

LEMMA AskedIsAlone ==
  ASSUME RuleInv, Alone, NEW t \in Threads, alone',
         \/ \E decision \in {"approve", "decline"} : AskDecision(t, decision)
         \/ \E a \in Actions : AskRaise(t, a)
         \/ \E id \in DOMAIN tasks : AskRecheck(t, id) \/ AskAttach(t, id)
  PROVE  Alone'
<1>1. Actions \subseteq Action
  BY ActionsAreActions
<1>2. CASE \E decision \in {"approve", "decline"} : AskDecision(t, decision)
  <2>1. PICK decision \in {"approve", "decline"} : AskDecision(t, decision)
    BY <1>2
  <2> DEFINE c == [what |-> decision, actions |-> Actions, ids |-> {}]
  <2>2. c \in AnyCall /\ c.what = decision
    BY <1>1 DEF AnyCall
  <2>3. Ask(t, c, "plans")
    BY <2>1 DEF AskDecision
  <2>4. QED
    BY <2>2, <2>3, AskIsAlone
<1>3. CASE \E a \in Actions : AskRaise(t, a)
  <2>1. PICK a \in Actions : AskRaise(t, a)
    BY <1>3
  <2> DEFINE c == [what |-> "raise", actions |-> {a}, ids |-> {}]
  <2>2. c \in AnyCall /\ c.what = "raise"
    BY <1>1 DEF AnyCall
  <2>3. Ask(t, c, "load")
    BY <2>1 DEF AskRaise
  <2>4. QED
    BY <2>2, <2>3, AskIsAlone
<1>4. CASE \E id \in DOMAIN tasks : AskRecheck(t, id) \/ AskAttach(t, id)
  <2>1. PICK id \in DOMAIN tasks : AskRecheck(t, id) \/ AskAttach(t, id)
    BY <1>4
  <2>2. id \in Action \X Nat
    BY DEF Alone, Good, TaskFile
  <2>3. ASSUME NEW what \in {"recheck", "attach"}, Ask(t, [what |-> what, task |-> id], "load")
        PROVE  Alone'
    <3>1. [what |-> what, task |-> id] \in AnyCall
      BY <2>2 DEF AnyCall
    <3>2. QED
      BY <2>3, <3>1, AskIsAlone
  <2>4. QED
    BY <2>1, <2>3 DEF AskRecheck, AskAttach
<1>5. QED
  BY <1>2, <1>3, <1>4

LEMMA LoadsAreAlone ==
  ASSUME Alone, NEW t \in Threads, LoadPlans(t) \/ Load(t)
  PROVE  Alone'
<1>1. Holds(t) /\ Good(tasks) /\ PlanKept
  BY DEF Alone
<1>2. CASE LoadPlans(t)
  <2> DEFINE to == IF call[t].what = "decline" THEN "decide" ELSE "load"
  <2>1. pc[t] = "plans" /\ Step(t, call[t], copy[t], plan) /\ UNCHANGED <<tasks, plan, unread>>
    BY <1>2 DEF LoadPlans
  <2>2. Following(call[t].what, pc[t]) = to /\ to \in Places /\ to # "idle"
    BY <2>1 DEF Following, Places
  <2>3. pc'[t] = to /\ call'[t] = call[t] /\ decided'[t] = plan /\ UNCHANGED <<edition, rules>>
    BY <2>1, <2>2, StepLeaves
  <2>4. Holds(t)'
    BY <1>1, <2>1, <2>3 DEF Holds
  <2>5. Good(tasks)' /\ PlanKept'
    BY <1>1, <2>1, <2>3, GoodKept, PlanKeptStays
  <2>6. QED
    BY <2>1, <2>2, <2>4, <2>5, StepIsAlone
<1>3. CASE Load(t)
  <2>1. pc[t] = "load" /\ Step(t, call[t], tasks, decided[t]) /\ UNCHANGED <<tasks, plan, unread>>
    BY <1>3 DEF Load
  <2>2. Following(call[t].what, pc[t]) = "work" /\ "work" \in Places
    BY <2>1 DEF Following, Places
  <2>3. /\ pc'[t] = "work" /\ call'[t] = call[t] /\ copy'[t] = tasks
        /\ decided'[t] = decided[t] /\ UNCHANGED <<edition, rules>>
    BY <2>1, <2>2, StepLeaves
  <2>4. Holds(t)'
    BY <1>1, <2>1, <2>3 DEF Holds
  <2>5. Good(tasks)' /\ PlanKept'
    BY <1>1, <2>1, <2>3, GoodKept, PlanKeptStays
  <2>6. QED
    BY <2>1, <2>2, <2>4, <2>5, StepIsAlone
<1>4. QED
  BY <1>2, <1>3

LEMMA RaiseIsAlone ==
  ASSUME RuleInv, Alone, NEW t \in Threads, Raise(t)
  PROVE  Alone'
<1> DEFINE s == copy[t]
           as == call[t].actions
           ids == IdsFor(s, as)
           r == RaiseAll(s, as)
           un == unread \cup {id \in ids \ DOMAIN s : id[1].kind = "REREAD"}
           c == [call[t] EXCEPT !.ids = ids]
<1>1. /\ pc[t] = "work" /\ call[t].what \in {"approve", "raise"}
      /\ Step(t, c, r, decided[t])
      /\ unread' = un /\ UNCHANGED <<tasks, plan>>
  BY DEF Raise
<1>2. Holds(t) /\ Good(tasks) /\ PlanKept /\ s = tasks
  BY <1>1 DEF Alone, Holds
<1>3. call[t] \in [what : {"approve", "decline", "raise"}, actions : SUBSET Action,
                   ids : SUBSET (Action \X Nat)]
  BY <1>1, <1>2 DEF Holds, AnyCall
<1>4. /\ TaskFile(r) /\ OneOpen(r) /\ Settled(r, rules, un, after)
      /\ DOMAIN s \subseteq DOMAIN r
      /\ Covers(as, ids, DOMAIN r)
      /\ Settled(s, rules, un, after)
  BY <1>2, <1>3, RaiseIsGood
<1>5. c \in AnyCall /\ c.what = call[t].what /\ c.actions = as /\ c.ids = ids
  <2>1. ids \subseteq Action \X Nat
    BY <1>4 DEF TaskFile, Covers
  <2>2. QED
    BY <1>3, <2>1 DEF AnyCall
<1> HIDE DEF as, ids, r, un, c
<1>6. Following(call[t].what, pc[t]) = "save" /\ "save" \in Places
  BY <1>1 DEF Following, Places
<1>7. /\ pc'[t] = "save" /\ call'[t] = c /\ copy'[t] = r /\ decided'[t] = decided[t]
      /\ UNCHANGED <<edition, rules>>
  BY <1>1, <1>6, StepLeaves
<1>8. after' = after
  BY <1>7, AfterKept
<1>9. Good(copy[t])' /\ Good(tasks)'
  <2>1. Good(copy[t])'
    BY <1>1, <1>4, <1>7, <1>8 DEF Good
  <2>2. Good(tasks)'
    BY <1>1, <1>2, <1>4, <1>7, <1>8 DEF Good
  <2>3. QED
    BY <2>1, <2>2
<1>10. Holds(t)'
  BY <1>1, <1>2, <1>4, <1>5, <1>7, <1>9 DEF Holds
<1>11. PlanKept'
  BY <1>1, <1>2, PlanKeptStays
<1>12. QED
  BY <1>1, <1>6, <1>9, <1>10, <1>11, StepIsAlone

LEMMA JudgeIsAlone ==
  ASSUME RuleInv, Alone, NEW t \in Threads, Judge(t)
  PROVE  Alone'
<1> DEFINE s == copy[t]
           id == call[t].task
           r == IF call[t].what = "recheck" THEN Rechecked(s, id)
                ELSE [s EXCEPT ![id].status = "READY_FOR_RECHECK"]
<1>1. /\ pc[t] = "work" /\ call[t].what \in {"recheck", "attach"} /\ id \in DOMAIN s
      /\ Step(t, call[t], r, decided[t]) /\ UNCHANGED <<tasks, plan, unread>>
  BY DEF Judge, OnTask
<1>2. Holds(t) /\ Good(tasks) /\ PlanKept /\ s = tasks
  BY <1>1 DEF Alone, Holds
<1>3. Good(r) /\ DOMAIN r = DOMAIN s
  BY <1>1, <1>2, JudgeIsGood
<1> HIDE DEF id, r
<1>4. Following(call[t].what, pc[t]) = "save" /\ "save" \in Places
  BY <1>1 DEF Following, Places
<1>5. /\ pc'[t] = "save" /\ call'[t] = call[t] /\ copy'[t] = r
      /\ UNCHANGED <<edition, rules>>
  BY <1>1, <1>4, StepLeaves
<1>6. Good(copy[t])' /\ Good(tasks)' /\ PlanKept'
  BY <1>1, <1>2, <1>3, <1>5, GoodKept, PlanKeptStays
<1>7. Holds(t)'
  BY <1>1, <1>2, <1>3, <1>5, <1>6 DEF Holds
<1>8. QED
  BY <1>1, <1>4, <1>6, <1>7, StepIsAlone

LEMMA SaveIsAlone ==
  ASSUME Alone, NEW t \in Threads, Save(t)
  PROVE  Alone'
<1> DEFINE to == IF call[t].what = "approve" THEN "decide" ELSE "idle"
<1>1. /\ pc[t] = "save" /\ tasks' = copy[t]
      /\ Step(t, call[t], NoTasks, decided[t]) /\ UNCHANGED <<plan, unread>>
  BY DEF Save
<1>2. /\ Holds(t) /\ PlanKept /\ Good(copy[t]) /\ DOMAIN tasks \subseteq DOMAIN copy[t]
      /\ call[t].what = "approve" => Covers(call[t].actions, call[t].ids, DOMAIN copy[t])
  BY <1>1 DEF Alone, Holds
<1>3. Following(call[t].what, pc[t]) = to /\ to \in Places
  BY <1>1 DEF Following, Places
<1>4. /\ pc'[t] = to /\ UNCHANGED <<edition, rules>>
      /\ to # "idle" => call'[t] = call[t] /\ decided'[t] = decided[t]
  BY <1>1, <1>3, StepLeaves
<1>5. Good(tasks)' /\ PlanKept'
  BY <1>1, <1>2, <1>4, GoodKept, PlanKeptStays
<1>6. Holds(t)'
  BY <1>1, <1>2, <1>4 DEF Holds
<1>7. QED
  BY <1>1, <1>3, <1>5, <1>6, StepIsAlone

LEMMA DecideIsAlone ==
  ASSUME Alone, NEW t \in Threads, Decide(t)
  PROVE  Alone'
<1>1. /\ pc[t] = "decide"
      /\ plan' = IF decided[t] # None THEN decided[t]
                 ELSE [status |-> IF call[t].what = "approve" THEN "APPROVED" ELSE "DECLINED",
                       asked |-> call[t].actions, ids |-> call[t].ids]
      /\ Step(t, call[t], copy[t], decided[t]) /\ UNCHANGED <<tasks, unread>>
  BY DEF Decide
<1>2. /\ Holds(t) /\ PlanKept /\ Good(tasks) /\ decided[t] = plan
      /\ call[t].what = "approve" => Covers(call[t].actions, call[t].ids, DOMAIN tasks)
  BY <1>1 DEF Alone, Holds
<1>3. Following(call[t].what, pc[t]) = "idle" /\ "idle" \in Places
  BY <1>1 DEF Following, Places
<1>4. pc'[t] = "idle" /\ UNCHANGED <<edition, rules>>
  BY <1>1, <1>3, StepLeaves
<1>5. Good(tasks)'
  BY <1>1, <1>2, <1>4, GoodKept
<1>6. PlanKept'
  BY <1>1, <1>2 DEF PlanKept
<1>7. Holds(t)'
  BY <1>4 DEF Holds
<1>8. QED
  BY <1>1, <1>3, <1>5, <1>6, <1>7, StepIsAlone

\* A request refused and a crash leave idle threads and the files behind.
LEMMA DroppedIsAlone ==
  ASSUME Alone, NEW ts \in SUBSET Threads, Dropped(ts)
  PROVE  Alone'
<1>1. /\ pc' \in [Threads -> Places]
      /\ DOMAIN call' = Threads /\ DOMAIN copy' = Threads /\ DOMAIN decided' = Threads
      /\ UNCHANGED <<edition, rules, now, tasks, plan, alone, unread>>
  BY DEF Dropped, Alone, Places
<1>2. ASSUME NEW t \in Threads
      PROVE  \/ pc'[t] = "idle"
             \/ /\ pc'[t] = pc[t] /\ call'[t] = call[t]
                /\ copy'[t] = copy[t] /\ decided'[t] = decided[t]
  BY DEF Dropped
<1>3. \A t \in Threads : Good(copy[t]) /\ copy'[t] = copy[t] => Good(copy[t])'
  BY <1>1, GoodKept
<1>4. ASSUME NEW t \in Threads
      PROVE  Holds(t)'
  <2>1. CASE pc'[t] = "idle"
    BY <2>1 DEF Holds
  <2>2. CASE /\ pc'[t] = pc[t] /\ call'[t] = call[t]
             /\ copy'[t] = copy[t] /\ decided'[t] = decided[t]
    BY <1>1, <1>3, <2>2 DEF Alone, Holds
  <2>3. QED
    BY <1>2, <2>1, <2>2
<1>5. Good(tasks)' /\ PlanKept'
  BY <1>1, GoodKept, PlanKeptStays DEF Alone
<1>6. \A t, u \in Threads : pc'[t] # "idle" /\ pc'[u] # "idle" => t = u
  BY <1>2 DEF Alone
<1>7. QED
  BY <1>1, <1>4, <1>5, <1>6 DEF Alone

\* The rules move under a request, the files do not.
LEMMA OfficersAreAlone ==
  ASSUME RuleInv, Alone, Officers
  PROVE  Alone'
<1>1. UNCHANGED <<edition, tasks, plan, pc, call, copy, decided>>
  BY OfficersKeepEdition DEF requests
<1>2. after' = after
  BY <1>1, AfterKept
<1>3. Good(tasks)'
  BY <1>1, <1>2, OfficersSettle DEF Alone, Good
<1>4. ASSUME NEW t \in Threads
      PROVE  Good(copy[t]) => Good(copy[t])'
  BY <1>1, <1>2, OfficersSettle DEF Good
<1>5. ASSUME NEW t \in Threads
      PROVE  Holds(t)'
  BY <1>1, <1>4 DEF Alone, Holds
<1>6. QED
  BY <1>1, <1>3, <1>5 DEF Alone, PlanKept

LEMMA SoloInvStep == RuleInv /\ SoloInv /\ [Next]_vars => SoloInv'
<1>1. SUFFICES ASSUME RuleInv, SoloInv, [Next]_vars, alone' PROVE Alone'
  BY DEF SoloInv
<1>2. CASE \E t \in Threads : Request(t)
  <2>1. PICK t \in Threads : Request(t)
    BY <1>2
  <2>2. alone
    BY <1>1, <2>1 DEF Request, AskDecision, AskRaise, AskRecheck, AskAttach, Ask,
                      LoadPlans, Load, Raise, Judge, Refused, Dropped, Save, Decide, Step
  <2>3. Alone
    BY <1>1, <2>2 DEF SoloInv
  <2>4. CASE \/ \E decision \in {"approve", "decline"} : AskDecision(t, decision)
             \/ \E a \in Actions : AskRaise(t, a)
             \/ \E id \in DOMAIN tasks : AskRecheck(t, id) \/ AskAttach(t, id)
    BY <1>1, <2>3, <2>4, AskedIsAlone
  <2>5. CASE LoadPlans(t) \/ Load(t)
    BY <2>3, <2>5, LoadsAreAlone
  <2>6. CASE Raise(t)
    BY <1>1, <2>3, <2>6, RaiseIsAlone
  <2>7. CASE Judge(t)
    BY <1>1, <2>3, <2>7, JudgeIsAlone
  <2>8. CASE Refused(t)
    BY <2>3, <2>8, DroppedIsAlone DEF Refused
  <2>9. CASE Save(t)
    BY <2>3, <2>9, SaveIsAlone
  <2>10. CASE Decide(t)
    BY <2>3, <2>10, DecideIsAlone
  <2>11. QED
    BY <2>1, <2>4, <2>5, <2>6, <2>7, <2>8, <2>9, <2>10 DEF Request
<1>3. CASE WebDies
  BY <1>1, <1>3, DroppedIsAlone DEF WebDies, Dropped, SoloInv
<1>4. CASE Officers
  BY <1>1, <1>4, OfficersAreAlone, OfficersKeepEdition DEF SoloInv
<1>5. CASE Tick \/ UNCHANGED vars
  <2>1. UNCHANGED <<edition, rules, tasks, plan, pc, call, copy, decided, alone, unread>>
    BY <1>5 DEF Tick, vars, requests
  <2>2. after' = after
    BY <2>1, AfterKept
  <2>3. QED
    BY <1>1, <2>1, <2>2 DEF SoloInv, Alone, Holds, PlanKept, Good
<1>6. QED
  BY <1>1, <1>2, <1>3, <1>4, <1>5 DEF Next

LEMMA SoloInvAlways == Spec => []SoloInv
<1>1. Init => RuleInv /\ SoloInv
  BY RuleInvInit, SoloInvInit
<1>2. RuleInv /\ SoloInv /\ [Next]_vars => (RuleInv /\ SoloInv)'
  BY RuleInvStep, SoloInvStep
<1>3. QED
  BY <1>1, <1>2, PTL DEF Spec

\* Without overlap, and with crashes anywhere, an approval names work on file
\* (orchestrate.py, approve).
THEOREM ApprovedWorkAlwaysExists == Spec => []ApprovedWorkExists
<1>1. SoloInv => ApprovedWorkExists
  BY DEF SoloInv, Alone, PlanKept, Covers, ApprovedWorkExists
<1>2. QED
  BY <1>1, SoloInvAlways, PTL

\* Without overlap no action is in two people's hands (remediate/amendment.py,
\* open_for_action).
THEOREM OneTaskAlwaysOpen == Spec => []OneOpenTask
<1>1. SoloInv => OneOpenTask
  BY DEF SoloInv, Alone, Good, OneOpen, OneOpenTask
<1>2. QED
  BY <1>1, SoloInvAlways, PTL

\* Without overlap closed means dealt with, now and ever after
\* (remediate/amendment.py, _verdict).
THEOREM ClosedAlwaysDealtWith == Spec => []ClosedIsDealtWith
<1>1. SoloInv => ClosedIsDealtWith
  BY DEF SoloInv, Alone, Good, Settled, ClosedIsDealtWith
<1>2. QED
  BY <1>1, SoloInvAlways, PTL
=============================================================================
