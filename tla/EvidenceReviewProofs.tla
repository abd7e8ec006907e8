------------------------ MODULE EvidenceReviewProofs ------------------------
(* Proofs about EvidenceReview, for every number of threads, rules and      *)
(* requests, every document, and however requests overlap or are cut off.   *)
EXTENDS EvidenceReview, SequenceTheorems, WellFoundedInduction, TLAPS

InRuling(t) == Serving(t, "save") \/ Serving(t, "open") \/ Serving(t, "write")
InRecording(t) == Serving(t, "open log") \/ Serving(t, "write log")

\* What an item of a queue makes a record of was ruled; a dismissed one makes none.
Backed(q, rulings) ==
  \A i \in DOMAIN q : /\ Becomes(q[i]) => Event(q[i]) \in rulings
                      /\ q[i].dismissed => q[i].mapped = None

RuledInv ==
  /\ Backed(queue, ruled)
  /\ \A t \in Threads : InRuling(t) => Backed(request[t].queue, ruled)
  /\ evidence \notin {None, Torn} =>
       evidence \subseteq ruled /\ \A e, f \in evidence : Occasion(e) = Occasion(f) => e = f

\* Who rules alone has the queue there is, and the records are what it has done to
\* them so far.
FollowInv ==
  /\ \A t, u \in Threads : InRuling(t) /\ InRuling(u) /\ request[t].alone => t = u
  /\ \A t \in Threads :
       /\ Serving(t, "save") \/ Serving(t, "open") => ~request[t].lost
       /\ (Serving(t, "open") \/ Serving(t, "write")) /\ request[t].alone =>
            queue = request[t].queue
       /\ Serving(t, "write") /\ request[t].alone =>
            evidence = IF request[t].lost THEN None ELSE Torn
  /\ settled /\ (\A t \in Threads : ~Serving(t, "open") /\ ~Serving(t, "write")) =>
       evidence = None \/ evidence = ToEvidence(queue)

\* A run has the findings of its inputs.
Sound(run) ==
  /\ run.inputs.rules # {}
  /\ run.breaches = Findings(run.inputs.rules, run.inputs.records, run.day)
AllSound(runs) == \A i \in DOMAIN runs : Sound(runs[i])

LogInv ==
  /\ log # Torn => AllSound(log)
  /\ \A t \in Threads : /\ Serving(t, "run") => request[t].rules # {}
                        /\ InRecording(t) => AllSound(request[t].runs)

\* Whoever is about to write the log has in it what was written down before.
KeptInv ==
  /\ log # Torn => IsPrefix(kept, log)
  /\ \A t \in Threads : InRecording(t) => IsPrefix(kept, request[t].runs)
  /\ \A t, u \in Threads : InRecording(t) /\ InRecording(u) /\ request[t].alone => t = u


-----------------------------------------------------------------------------
(* Numbers.  What is recursive in the model steps from 0 to the length of  *)
(* a sequence.                                                             *)

LEMMA LeastOf ==
  ASSUME NEW N \in SUBSET Nat, N # {}
  PROVE  \E n \in N : \A m \in N : n <= m
<1>1. PICK n \in N : \A m \in N : ~ (<<m, n>> \in OpToRel(<, Nat))
  BY NatLessThanWellFounded, WFMin
<1>2. \A m \in N : ~ (m < n)
  BY <1>1 DEF OpToRel
<1> QED BY <1>2

LEMMA MaxOf ==
  ASSUME NEW n \in Nat, NEW N \in SUBSET (1..n), N # {}
  PROVE  Max(N) \in N /\ \A m \in N : m <= Max(N)
<1> DEFINE Below == {n - m : m \in N}
<1>1. Below \in SUBSET Nat /\ Below # {}
  <2>1. PICK m \in N : TRUE
    OBVIOUS
  <2>2. n - m \in Below
    BY <2>1
  <2> QED BY <2>2
<1>2. PICK b \in Below : \A c \in Below : b <= c
  BY <1>1, LeastOf
<1>3. PICK k \in N : b = n - k
  OBVIOUS
<1>4. ASSUME NEW m \in N PROVE k >= m
  <2>1. n - m \in Below
    OBVIOUS
  <2>2. n - k <= n - m
    BY <1>2, <1>3, <2>1
  <2> QED BY <2>2
<1>5. \E x \in N : \A y \in N : x >= y
  BY <1>4
<1>6. Max(N) \in N /\ \A m \in N : Max(N) >= m
  BY <1>5 DEF Max
<1> QED BY <1>6

\* Induction up to n, over the numbers of which something holds.
LEMMA UpTo ==
  ASSUME NEW n \in Nat, NEW G, 0 \in G, \A k \in 1..n : k - 1 \in G => k \in G
  PROVE  \A k \in 0..n : k \in G
<1> SUFFICES ASSUME NEW j \in 0..n, j \notin G PROVE FALSE
  OBVIOUS
<1> DEFINE Bad == {k \in 0..n : k \notin G}
<1>1. Bad \in SUBSET Nat /\ Bad # {}
  OBVIOUS
<1>2. PICK k \in Bad : \A m \in Bad : k <= m
  BY <1>1, LeastOf
<1>3. k \in 1..n /\ k - 1 \in 0..n
  OBVIOUS
<1>4. k - 1 \in G
  BY <1>2, <1>3
<1> QED BY <1>3, <1>4

\* What is defined step by step is defined.
Steps(f, base, g, n) == f[0] = base /\ \A k \in 1..n : f[k] = g[<<f[k - 1], k>>]

LEMMA StepsExist ==
  ASSUME NEW S, NEW base \in S, NEW n \in Nat, NEW g \in [S \X (1..n) -> S]
  PROVE  \E f \in [0..n -> S] : Steps(f, base, g, n)
<1> DEFINE G == {m \in 0..n : \E f \in [0..m -> S] : Steps(f, base, g, m)}
<1>1. 0 \in G
  <2> DEFINE f == [k \in 0..0 |-> base]
  <2>1. f \in [0..0 -> S] /\ f[0] = base
    OBVIOUS
  <2>2. Steps(f, base, g, 0)
    BY <2>1 DEF Steps
  <2>3. \E h \in [0..0 -> S] : Steps(h, base, g, 0)
    BY <2>1, <2>2
  <2>4. 0 \in 0..n
    OBVIOUS
  <2> HIDE DEF f
  <2> QED BY <2>3, <2>4
<1>2. ASSUME NEW m \in 1..n, m - 1 \in G PROVE m \in G
  <2>1. PICK f \in [0..(m - 1) -> S] : Steps(f, base, g, m - 1)
    BY <1>2
  <2> DEFINE h == [k \in 0..m |-> IF k = m THEN g[<<f[m - 1], m>>] ELSE f[k]]
  <2>2. f[m - 1] \in S /\ g[<<f[m - 1], m>>] \in S
    OBVIOUS
  <2>3. h \in [0..m -> S]
    BY <2>2
  <2>4. \A k \in 0..(m - 1) : h[k] = f[k]
    OBVIOUS
  <2>5. h[m] = g[<<h[m - 1], m>>]
    <3>1. m \in 0..m /\ h[m] = g[<<f[m - 1], m>>]
      OBVIOUS
    <3>2. m - 1 \in 0..(m - 1)
      OBVIOUS
    <3> QED BY <3>1, <3>2, <2>4
  <2> HIDE DEF h
  <2>6. h[0] = base
    BY <2>1, <2>4 DEF Steps
  <2>7. \A k \in 1..m : h[k] = g[<<h[k - 1], k>>]
    <3> SUFFICES ASSUME NEW k \in 1..m PROVE h[k] = g[<<h[k - 1], k>>]
      OBVIOUS
    <3>1. CASE k = m
      BY <3>1, <2>5
    <3>2. CASE k # m
      <4>1. k \in 1..(m - 1) /\ k \in 0..(m - 1) /\ k - 1 \in 0..(m - 1)
        BY <3>2
      <4> QED BY <4>1, <2>1, <2>4 DEF Steps
    <3> QED BY <3>1, <3>2
  <2> QED BY <2>3, <2>6, <2>7 DEF Steps
<1> HIDE DEF G
<1>3. n \in G
  BY <1>1, <1>2, UpTo
<1> QED BY <1>3 DEF G

-----------------------------------------------------------------------------
(* What a document yields.                                                 *)

LEMMA CandidateTyped ==
  ASSUME NEW d \in Duties \cup {None}, NEW day \in Date, NEW filed \in Date,
         NEW ref \in BOOLEAN
  PROVE  /\ Candidate(d, day, filed, ref) \in Candidates
         /\ Candidate(d, day, filed, ref).confidence = "STATED" => d # None /\ day # None
BY DEF Candidate, Candidates

LEMMA FromRowTyped ==
  ASSUME NEW fmt, NEW row \in Rows
  PROVE  FromRow(fmt, row) \in SUBSET Candidates
<1>1. /\ row.column \in Duties \cup {Other, None} /\ row.text \in SUBSET Duties
      /\ row.day \in Date /\ row.filed \in Date /\ row.ref \in BOOLEAN /\ None \in Date
  BY DEF Rows, Date
<1>2. ObligationIn(row) \subseteq Duties \cup {None}
  BY <1>1 DEF ObligationIn
<1>3. Named(row) \subseteq Duties \cup {None}
  BY <1>1, <1>2 DEF Named
<1>4. FromCsv(row) \subseteq Candidates
  BY <1>1, CandidateTyped DEF FromCsv
<1>5. FromJson(row) \subseteq Candidates
  <2>1. \A d \in Named(row) : Candidate(d, row.day, row.filed, FALSE) \in Candidates
    BY <1>1, <1>3, CandidateTyped
  <2> QED BY <2>1 DEF FromJson
<1>6. FromXlsx(row) \subseteq Candidates
  <2>1. PICK day \in Date : day = IF row.day # None THEN row.day ELSE row.filed
    BY <1>1
  <2>2. \A d \in Named(row) : Candidate(d, day, row.filed, row.ref) \in Candidates
    BY <1>1, <1>3, CandidateTyped
  <2> QED BY <2>1, <2>2 DEF FromXlsx
<1>7. FromPdf(row) \subseteq Candidates
  <2>1. PICK day \in Date : day = IF row.day # None THEN row.day ELSE row.filed
    BY <1>1
  <2>2. \A d \in ObligationIn(row) : Candidate(d, day, None, row.ref) \in Candidates
    BY <1>1, <1>2, CandidateTyped
  <2>3. FromPdf(row) \subseteq {Candidate(d, day, None, row.ref) : d \in ObligationIn(row)}
    BY <2>1 DEF FromPdf
  <2> QED BY <2>2, <2>3
<1> QED BY <1>4, <1>5, <1>6, <1>7 DEF FromRow

LEMMA AddRowTyped ==
  ASSUME NEW u \in Uploads, NEW n \in 1..Len(u.rows), NEW lists \in SUBSET Seq(Candidates)
  PROVE  AddRow(lists, FromRow(u.fmt, u.rows[n])) \in SUBSET Seq(Candidates)
<1>1. u.rows[n] \in Rows
  <2>1. u.rows \in Seq(Rows)
    BY ReviewAssumption
  <2> QED BY <2>1
<1>2. PICK found \in SUBSET Candidates : found = FromRow(u.fmt, u.rows[n])
  BY <1>1, FromRowTyped
<1>3. ASSUME NEW l \in lists, NEW c \in found PROVE Append(l, c) \in Seq(Candidates)
  <2>1. l \in Seq(Candidates) /\ c \in Candidates
    OBVIOUS
  <2> QED BY <2>1
<1>4. AddRow(lists, found) = IF found = {} THEN lists
                             ELSE {Append(l, c) : l \in lists, c \in found}
  BY DEF AddRow
<1> QED BY <1>2, <1>3, <1>4

LEMMA ReadAnyTyped ==
  ASSUME NEW u \in Uploads
  PROVE  ReadAny(u) \in SUBSET Seq(Candidates)
<1>1. PICK n \in Nat : n = Len(u.rows)
  <2>1. u.rows \in Seq(Rows)
    BY ReviewAssumption
  <2> QED BY <2>1
<1>2. PICK S : S = SUBSET Seq(Candidates)
  OBVIOUS
<1>3. {<<>>} \in S
  BY <1>2
<1>4. \A l \in S, k \in 1..n : AddRow(l, FromRow(u.fmt, u.rows[k])) \in S
  BY <1>1, <1>2, AddRowTyped
<1>5. PICK f \in [0..n -> S] :
        f = [k \in 0..n |-> IF k = 0 THEN {<<>>}
                           ELSE AddRow(f[k - 1], FromRow(u.fmt, u.rows[k]))]
  <2> DEFINE g == [p \in S \X (1..n) |-> AddRow(p[1], FromRow(u.fmt, u.rows[p[2]]))]
  <2>1. g \in [S \X (1..n) -> S]
    BY <1>4
  <2>2. \A l \in S, k \in 1..n : g[<<l, k>>] = AddRow(l, FromRow(u.fmt, u.rows[k]))
    OBVIOUS
  <2> HIDE DEF g
  <2>3. PICK f \in [0..n -> S] : Steps(f, {<<>>}, g, n)
    BY <1>3, <2>1, StepsExist
  <2>4. ASSUME NEW k \in 0..n, k # 0
        PROVE  f[k] = AddRow(f[k - 1], FromRow(u.fmt, u.rows[k]))
    <3>1. k \in 1..n /\ k - 1 \in 0..n
      BY <2>4
    <3>2. f[k - 1] \in S /\ f[k] = g[<<f[k - 1], k>>]
      BY <2>3, <3>1 DEF Steps
    <3> QED BY <2>2, <3>1, <3>2
  <2>5. f[0] = {<<>>}
    BY <2>3 DEF Steps
  <2>6. f = [k \in 0..n |-> IF k = 0 THEN {<<>>}
                           ELSE AddRow(f[k - 1], FromRow(u.fmt, u.rows[k]))]
    BY <2>4, <2>5
  <2> QED BY <2>6
<1> DEFINE lists[k \in 0..Len(u.rows)] ==
             IF k = 0 THEN {<<>>} ELSE AddRow(lists[k - 1], FromRow(u.fmt, u.rows[k]))
<1>6. lists = [k \in 0..n |-> IF k = 0 THEN {<<>>}
                              ELSE AddRow(lists[k - 1], FromRow(u.fmt, u.rows[k]))]
  BY <1>1, <1>5
<1>7. ReadAny(u) = lists[Len(u.rows)]
  BY DEF ReadAny
<1> HIDE DEF lists
<1> DEFINE G == {k \in 0..n : lists[k] \in S}
<1>8. 0 \in G
  <2>1. 0 \in 0..n
    OBVIOUS
  <2>2. lists[0] = {<<>>}
    BY <1>6, <2>1
  <2> QED BY <1>3, <2>1, <2>2
<1>9. ASSUME NEW k \in 1..n, k - 1 \in G PROVE k \in G
  <2>1. k \in 0..n /\ k # 0
    OBVIOUS
  <2>2. lists[k] = AddRow(lists[k - 1], FromRow(u.fmt, u.rows[k]))
    BY <1>6, <2>1
  <2>3. lists[k - 1] \in S
    BY <1>9
  <2> QED BY <1>4, <2>1, <2>2, <2>3
<1>10. n \in G
  <2> HIDE DEF G
  <2>1. \A k \in 0..n : k \in G
    BY <1>8, <1>9, UpTo, Zenon
  <2> QED BY <2>1
<1> QED BY <1>1, <1>2, <1>7, <1>10

-----------------------------------------------------------------------------
(* The queue, and the records drawn from it.                               *)

LEMMA ItemTyped ==
  ASSUME NEW c \in Candidates
  PROVE  /\ Item(c) \in Items
         /\ ~Item(c).dismissed
         /\ Becomes(Item(c)) => c.confidence = "STATED"
<1>1. c.duty \in Duties \cup {None}
  BY DEF Candidates
<1>2. Item(c) \in Items
  BY <1>1 DEF Item, Items
<1> QED BY <1>2 DEF Item, Becomes

LEMMA AddedFacts ==
  ASSUME NEW q \in Seq(Items), NEW found \in Seq(Candidates)
  PROVE  /\ Added(q, found) \in Seq(Items)
         /\ \A i \in DOMAIN Added(q, found) :
              \/ i \in DOMAIN q /\ Added(q, found)[i] = q[i]
              \/ \E c \in ToSet(found) : Added(q, found)[i] = Item(c)
<1> DEFINE new == [i \in DOMAIN found |-> Item(found[i])]
<1>1. Len(found) \in Nat /\ DOMAIN found = 1..Len(found) /\ Len(q) \in Nat
      /\ DOMAIN q = 1..Len(q)
  OBVIOUS
<1>2. \A i \in 1..Len(found) : found[i] \in Candidates /\ found[i] \in ToSet(found)
  BY <1>1 DEF ToSet
<1>3. new = [i \in 1..Len(found) |-> Item(found[i])]
  BY <1>1
<1>4. \A i \in 1..Len(found) : Item(found[i]) \in Items
  BY <1>2, ItemTyped
<1>5. new \in Seq(Items) /\ Len(new) = Len(found)
  BY <1>1, <1>3, <1>4, IsASeq
<1>6. \A i \in 1..Len(found) : new[i] = Item(found[i])
  BY <1>3
<1>7. Added(q, found) = q \o new
  BY DEF Added
<1> HIDE DEF new
<1>8. q \o new \in Seq(Items) /\ Len(q \o new) = Len(q) + Len(found)
      /\ \A i \in 1..Len(q) + Len(found) :
           (q \o new)[i] = IF i <= Len(q) THEN q[i] ELSE new[i - Len(q)]
  <2>1. /\ q \o new \in Seq(Items)
        /\ Len(q \o new) = Len(q) + Len(new)
        /\ \A i \in 1..Len(q) + Len(new) :
             (q \o new)[i] = IF i <= Len(q) THEN q[i] ELSE new[i - Len(q)]
    <3>1. new \in Seq(Items) /\ q \in Seq(Items)
      BY <1>5
    <3> QED BY <3>1, ConcatProperties, Zenon
  <2> QED BY <2>1, <1>5
<1>9. DOMAIN (q \o new) = 1..Len(q) + Len(found)
  BY <1>8
<1>10. ASSUME NEW i \in 1..Len(q) + Len(found)
       PROVE  \/ i \in DOMAIN q /\ (q \o new)[i] = q[i]
              \/ \E c \in ToSet(found) : (q \o new)[i] = Item(c)
  <2>1. CASE i <= Len(q)
    BY <2>1, <1>1, <1>8
  <2>2. CASE i > Len(q)
    <3>1. i - Len(q) \in 1..Len(found)
      BY <2>2, <1>1
    <3>2. (q \o new)[i] = new[i - Len(q)]
      BY <2>2, <1>1, <1>8
    <3> QED BY <3>1, <3>2, <1>2, <1>6
  <2>3. i <= Len(q) \/ i > Len(q)
    BY <1>1
  <2> QED BY <2>1, <2>2, <2>3, Zenon
<1> QED BY <1>7, <1>8, <1>9, <1>10

LEMMA MapToFacts ==
  ASSUME NEW q \in Seq(Items), NEW i \in DOMAIN q, NEW d \in Duties
  PROVE  /\ MapTo(q, i, d) \in Seq(Items)
         /\ DOMAIN MapTo(q, i, d) = DOMAIN q
         /\ \A j \in DOMAIN q : j # i => MapTo(q, i, d)[j] = q[j]
         /\ ~MapTo(q, i, d)[i].dismissed
<1>1. q[i] \in Items
  OBVIOUS
<1> DEFINE item == [[q[i] EXCEPT !.mapped = d] EXCEPT !.dismissed = FALSE]
<1>2. item \in Items /\ ~item.dismissed
  BY <1>1 DEF Items
<1>3. MapTo(q, i, d) = [q EXCEPT ![i] = item]
  BY DEF MapTo
<1> HIDE DEF item
<1> QED BY <1>2, <1>3

LEMMA DismissFacts ==
  ASSUME NEW q \in Seq(Items), NEW i \in DOMAIN q
  PROVE  /\ Dismiss(q, i) \in Seq(Items)
         /\ DOMAIN Dismiss(q, i) = DOMAIN q
         /\ \A j \in DOMAIN q : j # i => Dismiss(q, i)[j] = q[j]
         /\ Dismiss(q, i)[i].mapped = None
<1>1. q[i] \in Items
  OBVIOUS
<1> DEFINE item == [[q[i] EXCEPT !.dismissed = TRUE] EXCEPT !.mapped = None]
<1>2. item \in Items /\ item.mapped = None
  BY <1>1 DEF Items
<1>3. Dismiss(q, i) = [q EXCEPT ![i] = item]
  BY DEF Dismiss
<1> HIDE DEF item
<1> QED BY <1>2, <1>3

\* The i-th item is the last of the first k that is evidence of its occasion.
Latest(q, i, k) ==
  /\ i \in 1..k /\ Becomes(q[i])
  /\ \A j \in 1..k : j > i /\ Becomes(q[j]) => Occasion(Event(q[j])) # Occasion(Event(q[i]))

IsSaidBy(events, q, k) ==
  \A e : e \in events <=> \E i \in 1..k : Latest(q, i, k) /\ e = Event(q[i])

LEMMA AddItemSays ==
  ASSUME NEW q, NEW k \in Nat \ {0}, NEW events, IsSaidBy(events, q, k - 1)
  PROVE  IsSaidBy(AddItem(events, q[k]), q, k)
<1>1. k \in 1..k /\ (\A i \in 1..(k - 1) : i \in 1..k /\ i < k)
      /\ \A i \in 1..k : i # k => i \in 1..(k - 1)
  OBVIOUS
<1>2. CASE ~Becomes(q[k])
  <2>1. \A i : Latest(q, i, k - 1) <=> Latest(q, i, k)
    BY <1>1, <1>2 DEF Latest
  <2>2. AddItem(events, q[k]) = events
    BY <1>2 DEF AddItem
  <2>3. \A i : Latest(q, i, k) => i \in 1..(k - 1)
    BY <1>1, <1>2 DEF Latest
  <2> QED BY <1>1, <2>1, <2>2, <2>3 DEF IsSaidBy
<1>3. CASE Becomes(q[k])
  <2>1. Latest(q, k, k)
    BY <1>1, <1>3 DEF Latest
  <2>2. \A i \in 1..(k - 1) : Latest(q, i, k) <=>
          Latest(q, i, k - 1) /\ Occasion(Event(q[i])) # Occasion(Event(q[k]))
    BY <1>1, <1>3 DEF Latest
  <2>3. \A e : e \in AddItem(events, q[k]) <=>
          \/ e = Event(q[k])
          \/ e \in events /\ Occasion(e) # Occasion(Event(q[k]))
    BY <1>3 DEF AddItem, Supersede
  <2>4. ASSUME NEW e
        PROVE  e \in AddItem(events, q[k]) <=> \E i \in 1..k : Latest(q, i, k) /\ e = Event(q[i])
    <3>1. CASE e = Event(q[k])
      BY <3>1, <1>1, <2>1, <2>3
    <3>2. CASE e # Event(q[k])
      <4>1. e \in events <=> \E i \in 1..(k - 1) : Latest(q, i, k - 1) /\ e = Event(q[i])
        BY DEF IsSaidBy
      <4>2. e \in AddItem(events, q[k]) <=>
              \E i \in 1..(k - 1) : Latest(q, i, k - 1) /\ e = Event(q[i])
                                    /\ Occasion(Event(q[i])) # Occasion(Event(q[k]))
        BY <3>2, <4>1, <2>3
      <4> QED BY <3>2, <4>2, <1>1, <2>2
    <3> QED BY <3>1, <3>2
  <2> QED BY <2>4 DEF IsSaidBy
<1> QED BY <1>2, <1>3

LEMMA EventTyped ==
  ASSUME NEW item \in Items, Becomes(item)
  PROVE  Event(item) \in Events
BY DEF Items, Candidates, Date, Becomes, Event, Events

LEMMA AddItemTyped ==
  ASSUME NEW item \in Items, NEW events \in SUBSET Events
  PROVE  AddItem(events, item) \in SUBSET Events
BY EventTyped DEF AddItem, Supersede

LEMMA ToEvidenceSays ==
  ASSUME NEW q \in Seq(Items)
  PROVE  ToEvidence(q) \in SUBSET Events /\ IsSaidBy(ToEvidence(q), q, Len(q))
<1>1. PICK n \in Nat : n = Len(q)
  OBVIOUS
<1>2. PICK S : S = SUBSET Events
  OBVIOUS
<1>3. {} \in S
  BY <1>2
<1>4. \A events \in S, k \in 1..n : AddItem(events, q[k]) \in S
  BY <1>1, <1>2, AddItemTyped
<1>5. PICK f \in [0..n -> S] :
        f = [k \in 0..n |-> IF k = 0 THEN {} ELSE AddItem(f[k - 1], q[k])]
  <2> DEFINE g == [p \in S \X (1..n) |-> AddItem(p[1], q[p[2]])]
  <2>1. g \in [S \X (1..n) -> S]
    BY <1>4
  <2>2. \A l \in S, k \in 1..n : g[<<l, k>>] = AddItem(l, q[k])
    OBVIOUS
  <2> HIDE DEF g
  <2>3. PICK f \in [0..n -> S] : Steps(f, {}, g, n)
    BY <1>3, <2>1, StepsExist
  <2>4. ASSUME NEW k \in 0..n, k # 0
        PROVE  f[k] = AddItem(f[k - 1], q[k])
    <3>1. k \in 1..n /\ k - 1 \in 0..n
      BY <2>4
    <3>2. f[k - 1] \in S /\ f[k] = g[<<f[k - 1], k>>]
      BY <2>3, <3>1 DEF Steps
    <3> QED BY <2>2, <3>1, <3>2
  <2>5. f[0] = {}
    BY <2>3 DEF Steps
  <2>6. f = [k \in 0..n |-> IF k = 0 THEN {} ELSE AddItem(f[k - 1], q[k])]
    BY <2>4, <2>5
  <2> QED BY <2>6
<1> DEFINE events[k \in 0..Len(q)] == IF k = 0 THEN {} ELSE AddItem(events[k - 1], q[k])
<1>6. events = [k \in 0..n |-> IF k = 0 THEN {} ELSE AddItem(events[k - 1], q[k])]
  BY <1>1, <1>5
<1>7. ToEvidence(q) = events[Len(q)]
  BY DEF ToEvidence
<1> HIDE DEF events
<1> DEFINE G == {k \in 0..n : events[k] \in S /\ IsSaidBy(events[k], q, k)}
<1>8. 0 \in G
  <2>1. 0 \in 0..n /\ 1..0 = {}
    OBVIOUS
  <2>2. events[0] = {}
    BY <1>6, <2>1
  <2>3. IsSaidBy({}, q, 0)
    BY <2>1 DEF IsSaidBy
  <2> QED BY <1>3, <2>1, <2>2, <2>3
<1>9. ASSUME NEW k \in 1..n, k - 1 \in G PROVE k \in G
  <2>1. k \in 0..n /\ k # 0 /\ k \in Nat \ {0}
    OBVIOUS
  <2>2. events[k] = AddItem(events[k - 1], q[k])
    BY <1>6, <2>1
  <2>3. events[k - 1] \in S /\ IsSaidBy(events[k - 1], q, k - 1)
    BY <1>9
  <2>4. events[k] \in S
    BY <1>4, <2>2, <2>3
  <2>5. IsSaidBy(events[k], q, k)
    BY <2>1, <2>2, <2>3, AddItemSays
  <2> QED BY <2>1, <2>4, <2>5
<1>10. n \in G
  <2> HIDE DEF G
  <2>1. \A k \in 0..n : k \in G
    BY <1>8, <1>9, UpTo, Zenon
  <2> QED BY <2>1
<1> QED BY <1>1, <1>2, <1>7, <1>10

\* What is drawn from a queue was ruled, if the queue was, and once per occasion.
LEMMA OncePerOccasion ==
  ASSUME NEW q \in Seq(Items), NEW e \in ToEvidence(q), NEW f \in ToEvidence(q),
         Occasion(e) = Occasion(f)
  PROVE  e = f
<1>1. PICK i \in 1..Len(q) : Latest(q, i, Len(q)) /\ e = Event(q[i])
  BY ToEvidenceSays DEF IsSaidBy
<1>2. PICK j \in 1..Len(q) : Latest(q, j, Len(q)) /\ f = Event(q[j])
  BY ToEvidenceSays DEF IsSaidBy
<1>3. ~(i > j) /\ ~(j > i)
  BY <1>1, <1>2 DEF Latest
<1>4. i = j
  BY <1>3
<1> QED BY <1>1, <1>2, <1>4

\* Of every occasion the records say what the latest item mapped to it says.
LEMMA LatestIsRecorded ==
  ASSUME NEW q \in Seq(Items), NEW d \in Duties, NEW day \in Days,
         NEW items \in SUBSET (1..Len(q)),
         \A i \in 1..Len(q) : i \in items <=> q[i].mapped = d /\ q[i].cand.day = day
  PROVE  {e \in ToEvidence(q) : e.duty = d /\ e.day = day} =
           IF items = {} THEN {}
           ELSE {[duty |-> d, day |-> day, filed |-> q[Max(items)].cand.filed]}
<1> DEFINE here == {e \in ToEvidence(q) : e.duty = d /\ e.day = day}
<1>0. Len(q) \in Nat /\ d # None /\ day # None
  BY ReviewAssumption DEF Days
<1>1. \A i \in 1..Len(q) : /\ Event(q[i]).duty = q[i].mapped /\ Event(q[i]).day = q[i].cand.day
                           /\ Occasion(Event(q[i])) = <<q[i].mapped, q[i].cand.day>>
  BY DEF Event, Occasion
<1>2. \A i \in items : i \in 1..Len(q) /\ Becomes(q[i]) /\ Occasion(Event(q[i])) = <<d, day>>
  BY <1>0, <1>1 DEF Becomes
<1>3. ASSUME NEW e \in here
      PROVE  \E i \in items : Latest(q, i, Len(q)) /\ e = Event(q[i])
  <2>1. PICK i \in 1..Len(q) : Latest(q, i, Len(q)) /\ e = Event(q[i])
    BY ToEvidenceSays DEF IsSaidBy
  <2>2. q[i].mapped = d /\ q[i].cand.day = day
    BY <1>1, <2>1
  <2> QED BY <2>1, <2>2
<1>4. CASE items = {}
  BY <1>3, <1>4
<1>5. CASE items # {}
  <2>1. Max(items) \in items /\ \A m \in items : m <= Max(items)
    BY <1>0, <1>5, MaxOf
  <2>2. PICK k \in items : k = Max(items) /\ \A m \in items : m <= k
    BY <2>1
  <2>3. Latest(q, k, Len(q))
    <3> SUFFICES ASSUME NEW j \in 1..Len(q), j > k, Becomes(q[j]),
                        Occasion(Event(q[j])) = Occasion(Event(q[k]))
                 PROVE  FALSE
      BY <1>2, <2>2 DEF Latest
    <3>1. <<q[j].mapped, q[j].cand.day>> = <<d, day>>
      BY <1>1, <1>2
    <3>2. j \in items
      BY <3>1
    <3> QED BY <3>2, <2>2
  <2>4. Event(q[k]) \in ToEvidence(q)
    BY <2>3, ToEvidenceSays DEF IsSaidBy
  <2>5. Event(q[k]) = [duty |-> d, day |-> day, filed |-> q[k].cand.filed]
    BY DEF Event
  <2>6. Event(q[k]) \in here
    BY <2>4, <2>5
  <2>7. ASSUME NEW e \in here PROVE e = Event(q[k])
    <3>1. Occasion(e) = Occasion(Event(q[k]))
      BY <2>5 DEF Occasion
    <3> QED BY <2>4, <3>1, OncePerOccasion
  <2>8. here = {Event(q[k])}
    BY <2>6, <2>7
  <2> QED BY <1>5, <2>2, <2>5, <2>8
<1> QED BY <1>4, <1>5

-----------------------------------------------------------------------------
(* Requests.                                                               *)

LEMMA Nothing ==
  None \notin Duties /\ None \notin Nat /\ None \notin Rulings
  /\ None \notin Runnings /\ None \notin Recordings
BY ReviewAssumption

\* A request is what its stage says.
LEMMA Kinds ==
  ASSUME TypeOK, NEW t \in Threads
  PROVE  /\ InRuling(t) <=> request[t] \in Rulings
         /\ Serving(t, "run") <=> request[t] \in Runnings
         /\ InRecording(t) <=> request[t] \in Recordings
         /\ request[t] \in Asked
<1>1. request[t] \in Asked
  BY DEF TypeOK
<1>2. CASE request[t] = None
  BY <1>1, <1>2, Nothing DEF InRuling, InRecording, Serving
<1>3. CASE request[t] # None
  BY <1>1, <1>3, Nothing
     DEF Asked, InRuling, InRecording, Serving, Rulings, Runnings, Recordings, Ruling, Recording
<1> QED BY <1>1, <1>2, <1>3

LEMMA UnderRuling == ASSUME NEW t \in Threads PROVE t \in Under(Ruling) <=> InRuling(t)
BY DEF Under, Ruling, InRuling

LEMMA UnderRecording ==
  ASSUME NEW t \in Threads PROVE t \in Under(Recording) <=> InRecording(t)
BY DEF Under, Recording, InRecording

\* A request goes on as it was, only perhaps not alone any more.
GoesOn(t) ==
  \/ request'[t] = request[t]
  \/ /\ request[t] \in Rulings \cup Recordings
     /\ request'[t] = [request[t] EXCEPT !.alone = FALSE]

LEMMA GoesOnTyped ==
  ASSUME TypeOK, NEW t \in Threads, GoesOn(t)
  PROVE  request'[t] \in Asked
<1>1. request[t] \in Asked
  BY Kinds
<1>2. ASSUME request[t] \in Rulings PROVE [request[t] EXCEPT !.alone = FALSE] \in Rulings
  BY <1>2 DEF Rulings
<1>3. ASSUME request[t] \in Recordings
      PROVE [request[t] EXCEPT !.alone = FALSE] \in Recordings
  BY <1>3 DEF Recordings
<1> QED BY <1>1, <1>2, <1>3 DEF GoesOn, Asked

LEMMA GoesOnFacts ==
  ASSUME TypeOK, NEW t \in Threads, GoesOn(t)
  PROVE  /\ \A s : Serving(t, s)' <=> Serving(t, s)
         /\ InRuling(t)' <=> InRuling(t)
         /\ InRecording(t)' <=> InRecording(t)
         /\ InRuling(t) => /\ request'[t].queue = request[t].queue
                           /\ request'[t].lost = request[t].lost
                           /\ request'[t].alone => request[t].alone
         /\ InRecording(t) => /\ request'[t].runs = request[t].runs
                              /\ request'[t].alone => request[t].alone
         /\ Serving(t, "run") => request'[t].rules = request[t].rules
<1>1. CASE request'[t] = request[t]
  BY <1>1 DEF Serving, InRuling, InRecording
<1>2. CASE request[t] \in Rulings /\ request'[t] = [request[t] EXCEPT !.alone = FALSE]
  <2>1. /\ request'[t] \in Rulings /\ request'[t].stage = request[t].stage
        /\ request'[t].queue = request[t].queue /\ request'[t].lost = request[t].lost
        /\ ~request'[t].alone
    BY <1>2 DEF Rulings
  <2>2. request'[t] # None /\ request[t] # None
    BY <1>2, <2>1, Nothing
  <2>3. ~InRecording(t) /\ ~Serving(t, "run")
    BY <1>2, Nothing DEF InRecording, Serving, Rulings, Ruling
  <2>4. \A s : Serving(t, s)' <=> Serving(t, s)
    BY <2>1, <2>2 DEF Serving
  <2>5. (InRuling(t)' <=> InRuling(t)) /\ (InRecording(t)' <=> InRecording(t))
    BY <2>4 DEF InRuling, InRecording
  <2> QED BY <2>1, <2>3, <2>4, <2>5
<1>3. CASE request[t] \in Recordings /\ request'[t] = [request[t] EXCEPT !.alone = FALSE]
  <2>1. /\ request'[t] \in Recordings /\ request'[t].stage = request[t].stage
        /\ request'[t].runs = request[t].runs
        /\ ~request'[t].alone
    BY <1>3 DEF Recordings
  <2>2. request'[t] # None /\ request[t] # None
    BY <1>3, <2>1, Nothing
  <2>3. ~InRuling(t) /\ ~Serving(t, "run")
    BY <1>3, Nothing DEF InRuling, Serving, Recordings, Recording
  <2>4. \A s : Serving(t, s)' <=> Serving(t, s)
    BY <2>1, <2>2 DEF Serving
  <2>5. (InRuling(t)' <=> InRuling(t)) /\ (InRecording(t)' <=> InRecording(t))
    BY <2>4 DEF InRuling, InRecording
  <2> QED BY <2>1, <2>3, <2>4, <2>5
<1> QED BY <1>1, <1>2, <1>3 DEF GoesOn

\* A request that begins.
LEMMA BeginsFacts ==
  ASSUME TypeOK, NEW t \in Threads, NEW r, NEW stages, stages \in {Ruling, Recording},
         Begins(t, r, stages)
  PROVE  /\ request' = [u \in Threads |-> request'[u]]
         /\ request'[t] = r
         /\ \A u \in Threads \ {t} : GoesOn(u)
         /\ \A u \in Threads \ {t} : u \in Under(stages) => ~request'[u].alone
<1>1. request' = [u \in Threads |->
        IF u = t THEN r
        ELSE IF u \in Under(stages) THEN [request[u] EXCEPT !.alone = FALSE] ELSE request[u]]
  BY DEF Begins
<1>2. ASSUME NEW u \in Threads \ {t}, u \in Under(stages)
      PROVE  /\ request[u] \in Rulings \cup Recordings
             /\ request'[u] = [request[u] EXCEPT !.alone = FALSE]
             /\ ~request'[u].alone
  <2>1. request[u] \in Rulings \/ request[u] \in Recordings
    BY <1>2, Kinds, UnderRuling, UnderRecording
  <2>2. request'[u] = [request[u] EXCEPT !.alone = FALSE]
    BY <1>1, <1>2
  <2>3. ~[request[u] EXCEPT !.alone = FALSE].alone
    BY <2>1 DEF Rulings, Recordings
  <2> QED BY <2>1, <2>2, <2>3
<1>3. ASSUME NEW u \in Threads \ {t}, u \notin Under(stages)
      PROVE  request'[u] = request[u]
  BY <1>1, <1>3
<1>4. \A u \in Threads \ {t} : GoesOn(u)
  BY <1>2, <1>3 DEF GoesOn
<1> QED BY <1>1, <1>2, <1>4

\* How a ruling, an assessment and an answer change who is served what.
LEMMA RuleFacts ==
  ASSUME TypeOK, NEW t \in Threads, NEW q \in Seq(Items),
         NEW what \in {"upload", "map", "dismiss"}, Rule(t, q, what)
  PROVE  /\ request' \in [Threads -> Asked]
         /\ Serving(t, "save")' /\ request'[t].queue = q /\ ~request'[t].lost
         /\ request'[t].alone => \A u \in Threads : ~InRuling(u)
         /\ \A u \in Threads \ {t} : GoesOn(u)
         /\ \A u \in Threads \ {t} : InRuling(u) => ~request'[u].alone
<1> DEFINE r == [stage |-> "save", what |-> what, queue |-> q, lost |-> FALSE,
                 alone |-> Under(Ruling) = {}]
<1>1. r \in Rulings /\ r # None
  <2>1. r \in Rulings
    BY DEF Rulings, Ruling
  <2> QED BY <2>1, Nothing
<1>2. Begins(t, r, Ruling)
  BY DEF Rule
<1>3. r.stage = "save" /\ r.queue = q /\ ~r.lost /\ (r.alone => Under(Ruling) = {})
  OBVIOUS
<1> HIDE DEF r
<1>4. /\ request' = [u \in Threads |-> request'[u]]
      /\ request'[t] = r
      /\ \A u \in Threads \ {t} : GoesOn(u)
      /\ \A u \in Threads \ {t} : u \in Under(Ruling) => ~request'[u].alone
  BY <1>2, BeginsFacts
<1>5. \A u \in Threads : request'[u] \in Asked
  BY <1>1, <1>4, GoesOnTyped DEF Asked
<1>6. request' \in [Threads -> Asked]
  BY <1>4, <1>5
<1>7. Serving(t, "save")'
  BY <1>1, <1>3, <1>4 DEF Serving
<1>8. Under(Ruling) = {} => \A u \in Threads : ~InRuling(u)
  BY UnderRuling
<1>9. \A u \in Threads \ {t} : InRuling(u) => ~request'[u].alone
  BY <1>4, UnderRuling
<1> QED BY <1>3, <1>4, <1>6, <1>7, <1>8, <1>9

LEMMA RulingGoes ==
  ASSUME TypeOK, NEW t \in Threads, InRuling(t), NEW stage \in Ruling, Goes(t, stage)
  PROVE  /\ request' \in [Threads -> Asked]
         /\ Serving(t, stage)'
         /\ request'[t].queue = request[t].queue /\ request'[t].lost = request[t].lost
         /\ request'[t].alone = request[t].alone
         /\ \A u \in Threads \ {t} : request'[u] = request[u]
<1>1. request[t] \in Rulings /\ request \in [Threads -> Asked]
  BY Kinds DEF TypeOK
<1>2. PICK r : r = [request[t] EXCEPT !.stage = stage]
  OBVIOUS
<1>3. r \in Rulings /\ r.stage = stage /\ r.queue = request[t].queue
      /\ r.lost = request[t].lost /\ r.alone = request[t].alone
  BY <1>1, <1>2 DEF Rulings
<1>4. request' = [request EXCEPT ![t] = r]
  BY <1>2 DEF Goes
<1>5. request'[t] = r /\ \A u \in Threads \ {t} : request'[u] = request[u]
  BY <1>1, <1>4
<1>6. r # None /\ r \in Asked
  BY <1>3, Nothing DEF Asked
<1>7. request' \in [Threads -> Asked]
  BY <1>1, <1>4, <1>6
<1>8. Serving(t, stage)'
  BY <1>3, <1>5, <1>6 DEF Serving
<1> QED BY <1>3, <1>5, <1>7, <1>8

LEMMA RecordingGoes ==
  ASSUME TypeOK, NEW t \in Threads, InRecording(t), NEW stage \in Recording, Goes(t, stage)
  PROVE  /\ request' \in [Threads -> Asked]
         /\ Serving(t, stage)'
         /\ request'[t].runs = request[t].runs
         /\ request'[t].alone = request[t].alone
         /\ \A u \in Threads \ {t} : request'[u] = request[u]
<1>1. request[t] \in Recordings /\ request \in [Threads -> Asked]
  BY Kinds DEF TypeOK
<1>2. PICK r : r = [request[t] EXCEPT !.stage = stage]
  OBVIOUS
<1>3. r \in Recordings /\ r.stage = stage /\ r.runs = request[t].runs
      /\ r.alone = request[t].alone
  BY <1>1, <1>2 DEF Recordings
<1>4. request' = [request EXCEPT ![t] = r]
  BY <1>2 DEF Goes
<1>5. request'[t] = r /\ \A u \in Threads \ {t} : request'[u] = request[u]
  BY <1>1, <1>4
<1>6. r # None /\ r \in Asked
  BY <1>3, Nothing DEF Asked
<1>7. request' \in [Threads -> Asked]
  BY <1>1, <1>4, <1>6
<1>8. Serving(t, stage)'
  BY <1>3, <1>5, <1>6 DEF Serving
<1> QED BY <1>3, <1>5, <1>7, <1>8

LEMMA AnsweredFacts ==
  ASSUME TypeOK, NEW t \in Threads, Answered(t)
  PROVE  /\ request' \in [Threads -> Asked]
         /\ request'[t] = None
         /\ \A u \in Threads \ {t} : request'[u] = request[u]
BY DEF TypeOK, Answered, Asked

LEMMA FingerprintTyped ==
  ASSUME TypeOK PROVE RulebookFingerprint \in SUBSET (Duties \X Versions)
BY DEF TypeOK, RulebookFingerprint

LEMMA RunAssessmentFacts ==
  ASSUME TypeOK, NEW t \in Threads, RunAssessment(t)
  PROVE  /\ request' \in [Threads -> Asked]
         /\ Serving(t, "run")' /\ request'[t] \in Runnings
         /\ request'[t].rules # {}
         /\ \A u \in Threads \ {t} : request'[u] = request[u]
<1> DEFINE r == [stage |-> "run", rules |-> RulebookFingerprint]
<1>1. r \in Runnings /\ r.stage = "run" /\ r.rules = RulebookFingerprint
  BY FingerprintTyped DEF Runnings
<1>2. request' = [request EXCEPT ![t] = r] /\ RulebookFingerprint # {}
  BY DEF RunAssessment
<1> HIDE DEF r
<1>3. r # None /\ r \in Asked
  BY <1>1, Nothing DEF Asked
<1>4. request \in [Threads -> Asked]
  BY DEF TypeOK
<1>5. request'[t] = r /\ \A u \in Threads \ {t} : request'[u] = request[u]
  BY <1>2, <1>4
<1>6. request' \in [Threads -> Asked]
  BY <1>2, <1>3, <1>4
<1>7. Serving(t, "run")'
  BY <1>1, <1>3, <1>5 DEF Serving
<1> QED BY <1>1, <1>2, <1>5, <1>6, <1>7

LEMMA RunTyped ==
  ASSUME NEW signed \in SUBSET (Duties \X Versions), NEW records \in SUBSET Events,
         NEW day \in Nat
  PROVE  /\ Run(signed, records, day) \in Runs
         /\ signed # {} => Sound(Run(signed, records, day))
<1>1. Findings(signed, records, day) \in SUBSET Events
  BY DEF Findings
<1>2. Run(signed, records, day) \in Runs
  BY <1>1 DEF Run, Runs, EvidenceFingerprint
<1>3. signed # {} => Sound(Run(signed, records, day))
  BY DEF Run, Sound, EvidenceFingerprint
<1> QED BY <1>2, <1>3

\* What an assessment is to write down is the log, or that and a run.
LEMMA AssessFacts ==
  ASSUME TypeOK, LogInv, NEW t \in Threads, Assess(t)
  PROVE  \/ Answered(t)
         \/ /\ log # Torn /\ log \in Seq(Runs)
            /\ \E run \in Runs : /\ Sound(run)
                                 /\ request'[t].runs = Append(log, run)
            /\ request' \in [Threads -> Asked]
            /\ Serving(t, "open log")'
            /\ request'[t].alone => \A u \in Threads : ~InRecording(u)
            /\ \A u \in Threads \ {t} : GoesOn(u)
            /\ \A u \in Threads \ {t} : InRecording(u) => ~request'[u].alone
<1> SUFFICES ASSUME ~Answered(t)
             PROVE  /\ log # Torn /\ log \in Seq(Runs)
                    /\ \E run \in Runs : /\ Sound(run)
                                         /\ request'[t].runs = Append(log, run)
                    /\ request' \in [Threads -> Asked]
                    /\ Serving(t, "open log")'
                    /\ request'[t].alone => \A u \in Threads : ~InRecording(u)
                    /\ \A u \in Threads \ {t} : GoesOn(u)
                    /\ \A u \in Threads \ {t} : InRecording(u) => ~request'[u].alone
  OBVIOUS
<1>1. /\ Serving(t, "run") /\ evidence \notin {None, Torn} /\ log # Torn
      /\ evidence \in SUBSET Events /\ log \in Seq(Runs) /\ today \in Nat
  BY DEF Assess, TypeOK
<1>2. request[t].rules \in SUBSET (Duties \X Versions) /\ request[t].rules # {}
  <2>1. request[t] \in Runnings
    BY <1>1, Kinds
  <2> QED BY <2>1, <1>1 DEF Runnings, LogInv
<1>3. PICK run \in Runs : run = Run(request[t].rules, evidence, today) /\ Sound(run)
  BY <1>1, <1>2, RunTyped
<1>4. PICK runs : runs = Record(log, run)
  OBVIOUS
<1>5. /\ runs # log
      /\ Begins(t, [stage |-> "open log", runs |-> runs,
                    alone |-> Under(Recording) = {}], Recording)
  BY <1>1, <1>3, <1>4 DEF Assess
<1>6. runs = Append(log, run) /\ runs \in Seq(Runs)
  <2>1. runs = Append(log, run)
    BY <1>4, <1>5 DEF Record
  <2> QED BY <2>1, <1>1
<1> DEFINE r == [stage |-> "open log", runs |-> runs, alone |-> Under(Recording) = {}]
<1>7. r \in Recordings /\ r.stage = "open log" /\ r.runs = runs
      /\ (r.alone => Under(Recording) = {})
  BY <1>6 DEF Recordings, Recording
<1>8. Begins(t, r, Recording)
  BY <1>5
<1> HIDE DEF r
<1>9. /\ request' = [u \in Threads |-> request'[u]]
      /\ request'[t] = r
      /\ \A u \in Threads \ {t} : GoesOn(u)
      /\ \A u \in Threads \ {t} : u \in Under(Recording) => ~request'[u].alone
  BY <1>8, BeginsFacts
<1>10. r # None /\ r \in Asked
  BY <1>7, Nothing DEF Asked
<1>11. \A u \in Threads : request'[u] \in Asked
  BY <1>9, <1>10, GoesOnTyped
<1>12. request' \in [Threads -> Asked]
  BY <1>9, <1>11
<1>13. Serving(t, "open log")'
  BY <1>7, <1>9, <1>10 DEF Serving
<1>14. Under(Recording) = {} => \A u \in Threads : ~InRecording(u)
  BY UnderRecording
<1>15. \A u \in Threads \ {t} : InRecording(u) => ~request'[u].alone
  BY <1>9, UnderRecording
<1>16. request'[t].runs = Append(log, run)
  BY <1>6, <1>7, <1>9
<1> QED BY <1>1, <1>3, <1>7, <1>9, <1>12, <1>13, <1>14, <1>15, <1>16

-----------------------------------------------------------------------------
(* The steps.                                                              *)

BeginsRuling(t) ==
  \/ \E u \in Uploads : UploadEvidence(t, u)
  \/ \E i \in DOMAIN queue : DismissReviewItem(t, i) \/ \E d \in Duties : MapReviewItem(t, i, d)

LEMMA BackedMore ==
  ASSUME NEW q, NEW old, NEW new, old \subseteq new, Backed(q, old)
  PROVE  Backed(q, new)
BY DEF Backed

\* A ruling begins on a queue of which all was ruled.
LEMMA RulingBegins ==
  ASSUME TypeOK, RuledInv, NEW t \in Threads, BeginsRuling(t)
  PROVE  /\ \E q \in Seq(Items), what \in {"upload", "map", "dismiss"} :
              Rule(t, q, what) /\ Backed(q, ruled')
         /\ ruled \subseteq ruled'
         /\ UNCHANGED <<rules, files, today, settled, kept>>
<1>1. queue \in Seq(Items) /\ Backed(queue, ruled)
  BY DEF TypeOK, RuledInv
<1>2. ASSUME NEW u \in Uploads, UploadEvidence(t, u)
      PROVE  \E q \in Seq(Items), what \in {"upload", "map", "dismiss"} :
               Rule(t, q, what) /\ Backed(q, ruled')
  <2>1. PICK found \in ReadAny(u) :
          /\ Rule(t, Added(queue, found), "upload")
          /\ ruled' = ruled \cup
               {Event(Item(c)) : c \in {c \in ToSet(found) : c.confidence = "STATED"}}
    BY <1>2 DEF UploadEvidence
  <2>2. found \in Seq(Candidates)
    BY ReadAnyTyped
  <2>3. PICK q \in Seq(Items) : q = Added(queue, found)
    BY <1>1, <2>2, AddedFacts
  <2>4. \A c \in ToSet(found) : c \in Candidates
    BY <2>2 DEF ToSet
  <2>5. ASSUME NEW i \in DOMAIN q
        PROVE  /\ Becomes(q[i]) => Event(q[i]) \in ruled'
               /\ q[i].dismissed => q[i].mapped = None
    <3>1. CASE i \in DOMAIN queue /\ q[i] = queue[i]
      BY <3>1, <1>1, <2>1 DEF Backed
    <3>2. CASE \E c \in ToSet(found) : q[i] = Item(c)
      <4>1. PICK c \in ToSet(found) : q[i] = Item(c)
        BY <3>2
      <4>2. ~Item(c).dismissed /\ (Becomes(Item(c)) => c.confidence = "STATED")
        BY <2>4, ItemTyped
      <4> QED BY <2>1, <4>1, <4>2
    <3> QED BY <3>1, <3>2, <1>1, <2>2, <2>3, AddedFacts
  <2> QED BY <2>1, <2>3, <2>5 DEF Backed
<1>3. ASSUME NEW i \in DOMAIN queue, NEW d \in Duties, MapReviewItem(t, i, d)
      PROVE  \E q \in Seq(Items), what \in {"upload", "map", "dismiss"} :
               Rule(t, q, what) /\ Backed(q, ruled')
  <2>1. PICK q \in Seq(Items) :
          /\ q = MapTo(queue, i, d) /\ DOMAIN q = DOMAIN queue
          /\ \A j \in DOMAIN queue : j # i => q[j] = queue[j]
          /\ ~q[i].dismissed
    BY <1>1, MapToFacts
  <2>2. Rule(t, q, "map") /\ ruled' = ruled \cup {Event(q[i])}
    BY <1>3, <2>1 DEF MapReviewItem
  <2>3. Backed(q, ruled')
    BY <1>1, <2>1, <2>2 DEF Backed
  <2> QED BY <2>2, <2>3
<1>4. ASSUME NEW i \in DOMAIN queue, DismissReviewItem(t, i)
      PROVE  \E q \in Seq(Items), what \in {"upload", "map", "dismiss"} :
               Rule(t, q, what) /\ Backed(q, ruled')
  <2>1. PICK q \in Seq(Items) :
          /\ q = Dismiss(queue, i) /\ DOMAIN q = DOMAIN queue
          /\ \A j \in DOMAIN queue : j # i => q[j] = queue[j]
          /\ q[i].mapped = None
    BY <1>1, DismissFacts
  <2>2. Rule(t, q, "dismiss") /\ ruled' = ruled
    BY <1>4, <2>1 DEF DismissReviewItem, history
  <2>3. Backed(q, ruled')
    BY <1>1, <2>1, <2>2 DEF Backed, Becomes
  <2> QED BY <2>2, <2>3
<1>5. \E q \in Seq(Items), what \in {"upload", "map", "dismiss"} :
        Rule(t, q, what) /\ Backed(q, ruled')
  BY <1>2, <1>3, <1>4 DEF BeginsRuling
<1>6. ruled \subseteq ruled' /\ UNCHANGED <<rules, files, today, settled, kept>>
  BY DEF BeginsRuling, UploadEvidence, MapReviewItem, DismissReviewItem, history
<1> QED BY <1>5, <1>6

LEMMA ClearFacts ==
  ASSUME TypeOK, ClearEvidence
  PROVE  /\ request' \in [Threads -> Asked]
         /\ \A t \in Threads :
              /\ ~Serving(t, "write") => request'[t] = request[t]
              /\ Serving(t, "write") => /\ Serving(t, "write")'
                                        /\ request'[t].queue = request[t].queue
                                        /\ request'[t].lost
                                        /\ request'[t].alone = request[t].alone
<1>1. request' = [t \in Threads |->
        IF Serving(t, "write") THEN [request[t] EXCEPT !.lost = TRUE] ELSE request[t]]
  BY DEF ClearEvidence
<1>2. ASSUME NEW t \in Threads
      PROVE  /\ request'[t] \in Asked
             /\ ~Serving(t, "write") => request'[t] = request[t]
             /\ Serving(t, "write") => /\ Serving(t, "write")'
                                       /\ request'[t].queue = request[t].queue
                                       /\ request'[t].lost
                                       /\ request'[t].alone = request[t].alone
  <2>1. CASE ~Serving(t, "write")
    BY <1>1, <2>1, Kinds
  <2>2. CASE Serving(t, "write")
    <3>1. request[t] \in Rulings /\ request[t].stage = "write"
      BY <2>2, Kinds DEF InRuling, Serving
    <3>2. PICK r : r = [request[t] EXCEPT !.lost = TRUE]
      OBVIOUS
    <3>3. r \in Rulings /\ r.queue = request[t].queue /\ r.lost /\ r.stage = "write"
          /\ r.alone = request[t].alone
      BY <3>1, <3>2 DEF Rulings
    <3>4. request'[t] = r
      BY <1>1, <2>2, <3>2
    <3>5. r # None /\ r \in Asked
      BY <3>3, Nothing DEF Asked
    <3>6. Serving(t, "write")'
      BY <3>3, <3>4, <3>5 DEF Serving
    <3> QED BY <2>2, <3>3, <3>4, <3>5, <3>6
  <2> QED BY <2>1, <2>2
<1> QED BY <1>1, <1>2

LEMMA CrashFacts ==
  ASSUME Crash
  PROVE  /\ request' \in [Threads -> Asked]
         /\ \A t \in Threads : ~InRuling(t)' /\ ~InRecording(t)' /\ ~Serving(t, "run")'
<1>1. request' = [t \in Threads |-> None]
  BY DEF Crash
<1> QED BY <1>1 DEF Asked, InRuling, InRecording, Serving

LEMMA TypeStep ==
  ASSUME TypeOK, RuledInv, LogInv, [Next]_vars
  PROVE  TypeOK'
<1> USE DEF files, history
<1>1. CASE UNCHANGED vars
  BY <1>1 DEF vars, TypeOK
<1>2. ASSUME NEW t \in Threads, BeginsRuling(t) PROVE TypeOK'
  <2>1. request' \in [Threads -> Asked]
    BY <1>2, RulingBegins, RuleFacts
  <2>2. UNCHANGED <<rules, files, today, settled, kept>>
    BY <1>2, RulingBegins
  <2> QED BY <2>1, <2>2 DEF TypeOK
<1>3. ASSUME NEW t \in Threads, SaveQueue(t) PROVE TypeOK'
  <2>1. InRuling(t) /\ Goes(t, "open") /\ queue' = request[t].queue
    BY <1>3 DEF SaveQueue, InRuling
  <2>2. request' \in [Threads -> Asked]
    BY <2>1, RulingGoes DEF Ruling
  <2>3. request[t].queue \in Seq(Items)
    BY <2>1, Kinds DEF Rulings
  <2> QED BY <2>1, <2>2, <2>3, <1>3 DEF TypeOK, SaveQueue
<1>4. ASSUME NEW t \in Threads, OpenRecords(t) PROVE TypeOK'
  <2>1. request' \in [Threads -> Asked]
    BY <1>4, RulingGoes DEF Ruling, OpenRecords, InRuling
  <2> QED BY <2>1, <1>4 DEF TypeOK, OpenRecords
<1>5. ASSUME NEW t \in Threads, WriteRecords(t) PROVE TypeOK'
  <2>1. request' \in [Threads -> Asked]
    BY <1>5, AnsweredFacts DEF WriteRecords
  <2>2. request[t] \in Rulings
    BY <1>5, Kinds DEF WriteRecords, InRuling
  <2>3. request[t].queue \in Seq(Items) /\ request[t].alone \in BOOLEAN
    BY <2>2 DEF Rulings
  <2>4. ToEvidence(request[t].queue) \in SUBSET Events
    BY <2>3, ToEvidenceSays
  <2>5. evidence' \in {None, Torn} \cup SUBSET Events
    BY <1>5, <2>4 DEF WriteRecords, Written, TypeOK
  <2> QED BY <2>1, <2>3, <2>5, <1>5 DEF TypeOK, WriteRecords
<1>6. ASSUME NEW t \in Threads, RunAssessment(t) PROVE TypeOK'
  <2>1. request' \in [Threads -> Asked]
    BY <1>6, RunAssessmentFacts
  <2> QED BY <2>1, <1>6 DEF TypeOK, RunAssessment
<1>7. ASSUME NEW t \in Threads, Assess(t) PROVE TypeOK'
  <2>1. request' \in [Threads -> Asked]
    BY <1>7, AssessFacts, AnsweredFacts
  <2> QED BY <2>1, <1>7 DEF TypeOK, Assess
<1>8. ASSUME NEW t \in Threads, OpenLog(t) PROVE TypeOK'
  <2>1. request' \in [Threads -> Asked]
    BY <1>8, RecordingGoes DEF Recording, OpenLog, InRecording
  <2> QED BY <2>1, <1>8 DEF TypeOK, OpenLog
<1>9. ASSUME NEW t \in Threads, WriteLog(t) PROVE TypeOK'
  <2>1. request' \in [Threads -> Asked]
    BY <1>9, AnsweredFacts DEF WriteLog
  <2>2. request[t] \in Recordings
    BY <1>9, Kinds DEF WriteLog, InRecording
  <2>3. request[t].runs \in Seq(Runs)
    BY <2>2 DEF Recordings
  <2>4. (log' = Torn \/ log' \in Seq(Runs)) /\ kept' \in Seq(Runs)
    BY <1>9, <2>3 DEF WriteLog, Written, TypeOK
  <2> QED BY <2>1, <2>4, <1>9 DEF TypeOK, WriteLog
<1>10. CASE ClearEvidence
  BY <1>10, ClearFacts DEF TypeOK, ClearEvidence
<1>11. ASSUME NEW d \in Duties, Sign(d) \/ Amend(d) PROVE TypeOK'
  <2>1. rules' \in [Duties -> [version : Versions, certified : BOOLEAN]]
    <3>1. rules \in [Duties -> [version : Versions, certified : BOOLEAN]]
      BY DEF TypeOK
    <3>2. PICK v : v = [rules[d] EXCEPT !.certified = TRUE]
      OBVIOUS
    <3>3. v \in [version : Versions, certified : BOOLEAN]
      BY <3>1, <3>2
    <3>4. CASE rules' = [rules EXCEPT ![d] = v]
      BY <3>1, <3>3, <3>4
    <3>5. CASE /\ rules[d].version + 1 \in Versions
               /\ rules' = [rules EXCEPT
                     ![d] = [version |-> rules[d].version + 1, certified |-> FALSE]]
      BY <3>1, <3>5
    <3> QED BY <3>2, <3>4, <3>5, <1>11 DEF Sign, Amend
  <2> QED BY <1>11, <2>1 DEF TypeOK, Sign, Amend
<1>12. CASE DayPasses
  BY <1>12 DEF TypeOK, DayPasses
<1>13. CASE Crash
  <2>1. request' \in [Threads -> Asked]
    BY <1>13, CrashFacts
  <2> QED BY <1>13, <2>1 DEF TypeOK, Crash
<1> QED BY <1>1, <1>2, <1>3, <1>4, <1>5, <1>6, <1>7, <1>8, <1>9, <1>10, <1>11, <1>12, <1>13
        DEF Next, BeginsRuling

Assesses(t) == RunAssessment(t) \/ Assess(t) \/ OpenLog(t) \/ WriteLog(t)

\* Rulings go on while somebody assesses.
LEMMA RulingsAside ==
  ASSUME TypeOK, LogInv, NEW t \in Threads, Assesses(t)
  PROVE  \A u \in Threads : GoesOn(u) \/ (~InRuling(u) /\ ~InRuling(u)')
<1>1. ~InRuling(t)
  BY Kinds DEF Assesses, RunAssessment, Assess, OpenLog, WriteLog, InRuling, Serving
<1>2. ~InRuling(t)' /\ \A u \in Threads \ {t} : GoesOn(u)
  <2>1. CASE RunAssessment(t)
    <3>1. Serving(t, "run")' /\ \A u \in Threads \ {t} : request'[u] = request[u]
      BY <2>1, RunAssessmentFacts
    <3> QED BY <3>1 DEF InRuling, Serving, GoesOn
  <2>2. CASE Assess(t)
    <3>1. CASE Answered(t)
      BY <3>1, AnsweredFacts DEF InRuling, Serving, GoesOn
    <3>2. CASE ~Answered(t)
      <4>1. Serving(t, "open log")' /\ \A u \in Threads \ {t} : GoesOn(u)
        BY <2>2, <3>2, AssessFacts
      <4> QED BY <4>1 DEF InRuling, Serving
    <3> QED BY <3>1, <3>2
  <2>3. CASE OpenLog(t)
    <3>1. InRecording(t) /\ Goes(t, "write log")
      BY <2>3 DEF OpenLog, InRecording
    <3>2. /\ Serving(t, "write log")'
          /\ \A u \in Threads \ {t} : request'[u] = request[u]
      BY <3>1, RecordingGoes DEF Recording
    <3> QED BY <3>2 DEF InRuling, Serving, GoesOn
  <2>4. CASE WriteLog(t)
    <3>1. request'[t] = None /\ \A u \in Threads \ {t} : request'[u] = request[u]
      BY <2>4, AnsweredFacts DEF WriteLog
    <3> QED BY <3>1 DEF InRuling, Serving, GoesOn
  <2> QED BY <2>1, <2>2, <2>3, <2>4 DEF Assesses
<1> QED BY <1>1, <1>2

\* What is ruled backs the queue, every ruling's copy of it, and the records.
LEMMA RuledStep ==
  ASSUME TypeOK, RuledInv, LogInv, [Next]_vars
  PROVE  RuledInv'
<1> USE DEF files, history
<1>0. TypeOK'
  BY TypeStep
<1>1. CASE UNCHANGED vars
  BY <1>1 DEF vars, RuledInv, InRuling, Serving
<1>2. ASSUME ruled \subseteq ruled', UNCHANGED <<queue, evidence>>,
             \A t \in Threads : InRuling(t)' => Backed(request'[t].queue, ruled')
      PROVE  RuledInv'
  <2>1. Backed(queue, ruled)'
    BY <1>2, BackedMore DEF RuledInv
  <2>2. (evidence \notin {None, Torn} =>
           evidence \subseteq ruled /\ \A e, f \in evidence : Occasion(e) = Occasion(f) => e = f)'
    BY <1>2 DEF RuledInv
  <2> QED BY <1>2, <2>1, <2>2 DEF RuledInv
<1>3. ASSUME NEW t \in Threads, BeginsRuling(t) PROVE RuledInv'
  <2>1. PICK q \in Seq(Items), what \in {"upload", "map", "dismiss"} :
          Rule(t, q, what) /\ Backed(q, ruled')
    BY <1>3, RulingBegins
  <2>2. ruled \subseteq ruled' /\ UNCHANGED <<queue, evidence>>
    BY <1>3, RulingBegins
  <2>3. request'[t].queue = q /\ \A u \in Threads \ {t} : GoesOn(u)
    BY <2>1, RuleFacts
  <2>4. ASSUME NEW u \in Threads \ {t}, InRuling(u)'
        PROVE  Backed(request'[u].queue, ruled')
    <3>1. InRuling(u) /\ request'[u].queue = request[u].queue
      BY <2>3, <2>4, GoesOnFacts
    <3> QED BY <3>1, <2>2, BackedMore DEF RuledInv
  <2> QED BY <1>2, <2>1, <2>2, <2>3, <2>4
<1>4. ASSUME NEW t \in Threads, SaveQueue(t) PROVE RuledInv'
  <2>1. InRuling(t) /\ Goes(t, "open") /\ queue' = request[t].queue
        /\ UNCHANGED <<evidence, ruled>>
    BY <1>4 DEF SaveQueue, InRuling
  <2>2. /\ request'[t].queue = request[t].queue
        /\ \A u \in Threads \ {t} : request'[u] = request[u]
    BY <2>1, RulingGoes DEF Ruling
  <2>3. \A u \in Threads : InRuling(u)' => Backed(request'[u].queue, ruled')
    BY <2>1, <2>2 DEF RuledInv, InRuling, Serving
  <2>4. Backed(queue, ruled)'
    BY <2>1 DEF RuledInv
  <2> QED BY <2>1, <2>3, <2>4 DEF RuledInv
<1>5. ASSUME NEW t \in Threads, OpenRecords(t) PROVE RuledInv'
  <2>1. InRuling(t) /\ Goes(t, "write") /\ evidence' = Torn /\ UNCHANGED <<queue, ruled>>
    BY <1>5 DEF OpenRecords, InRuling
  <2>2. /\ request'[t].queue = request[t].queue
        /\ \A u \in Threads \ {t} : request'[u] = request[u]
    BY <2>1, RulingGoes DEF Ruling
  <2>3. \A u \in Threads : InRuling(u)' => Backed(request'[u].queue, ruled')
    BY <2>1, <2>2 DEF RuledInv, InRuling, Serving
  <2> QED BY <2>1, <2>3 DEF RuledInv
<1>6. ASSUME NEW t \in Threads, WriteRecords(t) PROVE RuledInv'
  <2>1. /\ InRuling(t) /\ UNCHANGED <<queue, ruled>>
        /\ evidence' = evidence \/ evidence' = Torn
           \/ evidence' = ToEvidence(request[t].queue)
    BY <1>6 DEF WriteRecords, InRuling, Written
  <2>2. \A u \in Threads : InRuling(u)' => u # t /\ request'[u] = request[u] /\ InRuling(u)
    BY <1>6, AnsweredFacts DEF WriteRecords, InRuling, Serving
  <2>3. \A u \in Threads : InRuling(u)' => Backed(request'[u].queue, ruled')
    BY <2>1, <2>2 DEF RuledInv
  <2>4. PICK q \in Seq(Items) : q = request[t].queue /\ Backed(q, ruled)
    <3>1. request[t] \in Rulings
      BY <2>1, Kinds
    <3> QED BY <2>1, <3>1 DEF Rulings, RuledInv
  <2>5. ToEvidence(q) \subseteq ruled
    <3> SUFFICES ASSUME NEW e \in ToEvidence(q) PROVE e \in ruled
      OBVIOUS
    <3>1. PICK i \in 1..Len(q) : Latest(q, i, Len(q)) /\ e = Event(q[i])
      BY ToEvidenceSays DEF IsSaidBy
    <3> QED BY <2>4, <3>1 DEF Latest, Backed
  <2>6. \A e, f \in ToEvidence(q) : Occasion(e) = Occasion(f) => e = f
    BY OncePerOccasion
  <2>7. Backed(queue, ruled)'
    BY <2>1 DEF RuledInv
  <2>8. (evidence \notin {None, Torn} =>
           evidence \subseteq ruled /\ \A e, f \in evidence : Occasion(e) = Occasion(f) => e = f)'
    BY <2>1, <2>4, <2>5, <2>6 DEF RuledInv
  <2> QED BY <2>3, <2>7, <2>8 DEF RuledInv
<1>7. CASE ClearEvidence
  <2>1. evidence' = None /\ UNCHANGED <<queue, ruled>>
    BY <1>7 DEF ClearEvidence
  <2>2. ASSUME NEW t \in Threads, InRuling(t)' PROVE Backed(request'[t].queue, ruled')
    <3>1. CASE Serving(t, "write")
      BY <1>7, <2>1, <3>1, ClearFacts DEF RuledInv, InRuling
    <3>2. CASE ~Serving(t, "write")
      <4>1. request'[t] = request[t]
        BY <1>7, <3>2, ClearFacts
      <4>2. InRuling(t)
        BY <2>2, <4>1 DEF InRuling, Serving
      <4> QED BY <2>1, <4>1, <4>2 DEF RuledInv
    <3> QED BY <3>1, <3>2
  <2> QED BY <2>1, <2>2 DEF RuledInv
<1>8. ASSUME NEW t \in Threads, Assesses(t) PROVE RuledInv'
  <2>1. UNCHANGED <<queue, evidence, ruled>>
    BY <1>8 DEF Assesses, RunAssessment, Assess, OpenLog, WriteLog
  <2>2. ASSUME NEW u \in Threads, InRuling(u)' PROVE Backed(request'[u].queue, ruled')
    <3>1. InRuling(u) /\ request'[u].queue = request[u].queue
      BY <1>8, <2>2, RulingsAside, GoesOnFacts
    <3> QED BY <2>1, <3>1 DEF RuledInv
  <2> QED BY <1>2, <2>1, <2>2
<1>9. CASE (\E d \in Duties : Sign(d) \/ Amend(d)) \/ DayPasses
  <2>1. UNCHANGED <<queue, evidence, ruled, request>>
    BY <1>9 DEF Sign, Amend, DayPasses
  <2> QED BY <2>1 DEF RuledInv, InRuling, Serving
<1>10. CASE Crash
  <2>1. UNCHANGED <<queue, evidence, ruled>>
    BY <1>10 DEF Crash
  <2>2. \A t \in Threads : ~InRuling(t)'
    BY <1>10, CrashFacts
  <2> QED BY <1>2, <2>1, <2>2
<1> QED BY <1>1, <1>3, <1>4, <1>5, <1>6, <1>7, <1>8, <1>9, <1>10 DEF Next, BeginsRuling, Assesses

LEMMA FollowAside ==
  ASSUME TypeOK, FollowInv, UNCHANGED <<queue, evidence, settled>>,
         \A u \in Threads : GoesOn(u) \/ (~InRuling(u) /\ ~InRuling(u)')
  PROVE  FollowInv'
<1>1. ASSUME NEW u \in Threads, InRuling(u) \/ InRuling(u)'
      PROVE  /\ InRuling(u) /\ \A s : Serving(u, s)' <=> Serving(u, s)
             /\ request'[u].queue = request[u].queue /\ request'[u].lost = request[u].lost
             /\ request'[u].alone => request[u].alone
  BY <1>1, GoesOnFacts
<1>2. (\A t, u \in Threads : InRuling(t) /\ InRuling(u) /\ request[t].alone => t = u)'
  BY <1>1 DEF FollowInv
<1>3. ASSUME NEW t \in Threads
      PROVE  (/\ Serving(t, "save") \/ Serving(t, "open") => ~request[t].lost
              /\ (Serving(t, "open") \/ Serving(t, "write")) /\ request[t].alone =>
                   queue = request[t].queue
              /\ Serving(t, "write") /\ request[t].alone =>
                   evidence = IF request[t].lost THEN None ELSE Torn)'
  BY <1>1 DEF FollowInv, InRuling
<1>4. \A t \in Threads : /\ Serving(t, "open") => Serving(t, "open")'
                         /\ Serving(t, "write") => Serving(t, "write")'
  BY <1>1 DEF InRuling
<1>5. (settled /\ (\A t \in Threads : ~Serving(t, "open") /\ ~Serving(t, "write")) =>
         evidence = None \/ evidence = ToEvidence(queue))'
  BY <1>4 DEF FollowInv
<1> QED BY <1>2, <1>3, <1>5 DEF FollowInv

LEMMA FollowStep ==
  ASSUME TypeOK, RuledInv, LogInv, FollowInv, [Next]_vars
  PROVE  FollowInv'
<1> USE DEF files, history
<1> DEFINE Others(t) == \A u \in Threads \ {t} : request'[u] = request[u]
           Part1 == \A t, u \in Threads : InRuling(t) /\ InRuling(u) /\ request[t].alone => t = u
           Part2(t) == /\ Serving(t, "save") \/ Serving(t, "open") => ~request[t].lost
                       /\ (Serving(t, "open") \/ Serving(t, "write")) /\ request[t].alone =>
                            queue = request[t].queue
                       /\ Serving(t, "write") /\ request[t].alone =>
                            evidence = IF request[t].lost THEN None ELSE Torn
           Part3 == settled /\ (\A t \in Threads : ~Serving(t, "open") /\ ~Serving(t, "write")) =>
                      evidence = None \/ evidence = ToEvidence(queue)
<1>0. FollowInv <=> Part1 /\ (\A t \in Threads : Part2(t)) /\ Part3
  BY DEF FollowInv
<1>1. CASE UNCHANGED vars
  <2>1. \A u \in Threads : GoesOn(u)
    BY <1>1 DEF vars, GoesOn
  <2>2. UNCHANGED <<queue, evidence, settled>>
    BY <1>1 DEF vars
  <2> QED BY <2>1, <2>2, FollowAside
<1>2. ASSUME NEW t \in Threads, BeginsRuling(t) PROVE FollowInv'
  <2>1. PICK q \in Seq(Items), what \in {"upload", "map", "dismiss"} : Rule(t, q, what)
    BY <1>2, RulingBegins
  <2>2. UNCHANGED <<queue, evidence, settled>>
    BY <1>2, RulingBegins
  <2>3. /\ Serving(t, "save")' /\ ~request'[t].lost
        /\ request'[t].alone => \A u \in Threads : ~InRuling(u)
        /\ \A u \in Threads \ {t} : GoesOn(u)
        /\ \A u \in Threads \ {t} : InRuling(u) => ~request'[u].alone
    BY <2>1, RuleFacts
  <2>4. ~InRuling(t)
    BY <2>1 DEF Rule, InRuling, Serving
  <2>5. ASSUME NEW u \in Threads \ {t}
        PROVE  /\ \A s : Serving(u, s)' <=> Serving(u, s)
               /\ InRuling(u)' <=> InRuling(u)
               /\ InRuling(u) => request'[u].lost = request[u].lost /\ ~request'[u].alone
    BY <2>3, GoesOnFacts
  <2>6. Part1'
    BY <2>3, <2>5
  <2>7. ASSUME NEW u \in Threads PROVE Part2(u)'
    <3>1. CASE u = t
      BY <2>3, <3>1 DEF Serving
    <3>2. CASE u # t
      BY <2>5, <3>2 DEF FollowInv, InRuling
    <3> QED BY <3>1, <3>2
  <2>8. Part3'
    BY <2>2, <2>4, <2>5 DEF FollowInv, InRuling
  <2> QED BY <2>6, <2>7, <2>8 DEF FollowInv
<1>3. ASSUME NEW t \in Threads, SaveQueue(t) PROVE FollowInv'
  <2>1. InRuling(t) /\ Serving(t, "save") /\ Goes(t, "open") /\ queue' = request[t].queue
    BY <1>3 DEF SaveQueue, InRuling
  <2>2. /\ Serving(t, "open")' /\ Others(t)
        /\ request'[t].queue = request[t].queue /\ request'[t].lost = request[t].lost
        /\ request'[t].alone = request[t].alone
    BY <2>1, RulingGoes DEF Ruling
  <2>3. \A u \in Threads \ {t} : /\ \A s : Serving(u, s)' <=> Serving(u, s)
                                 /\ InRuling(u)' <=> InRuling(u)
                                 /\ InRuling(u) => ~request'[u].alone
    BY <2>1, <2>2 DEF FollowInv, Serving, InRuling
  <2>4. Part1'
    BY <2>1, <2>2, <2>3 DEF FollowInv
  <2>5. ASSUME NEW u \in Threads PROVE Part2(u)'
    <3>1. CASE u = t
      BY <2>1, <2>2, <3>1 DEF Serving, FollowInv
    <3>2. CASE u # t
      BY <2>2, <2>3, <3>2 DEF FollowInv, InRuling
    <3> QED BY <3>1, <3>2
  <2>6. Part3'
    BY <2>2
  <2> QED BY <2>4, <2>5, <2>6 DEF FollowInv
<1>4. ASSUME NEW t \in Threads, OpenRecords(t) PROVE FollowInv'
  <2>1. /\ InRuling(t) /\ Serving(t, "open") /\ Goes(t, "write")
        /\ evidence' = Torn /\ queue' = queue
    BY <1>4 DEF OpenRecords, InRuling
  <2>2. /\ Serving(t, "write")' /\ Others(t)
        /\ request'[t].queue = request[t].queue /\ request'[t].lost = request[t].lost
        /\ request'[t].alone = request[t].alone
    BY <2>1, RulingGoes DEF Ruling
  <2>3. \A u \in Threads \ {t} : /\ \A s : Serving(u, s)' <=> Serving(u, s)
                                 /\ InRuling(u)' <=> InRuling(u)
                                 /\ InRuling(u) => ~request'[u].alone
    BY <2>1, <2>2 DEF FollowInv, Serving, InRuling
  <2>4. Part1'
    BY <2>1, <2>2, <2>3 DEF FollowInv
  <2>5. ASSUME NEW u \in Threads PROVE Part2(u)'
    <3>1. CASE u = t
      BY <2>1, <2>2, <3>1 DEF Serving, FollowInv
    <3>2. CASE u # t
      BY <2>2, <2>3, <3>2 DEF FollowInv, InRuling
    <3> QED BY <3>1, <3>2
  <2>6. Part3'
    BY <2>2
  <2> QED BY <2>4, <2>5, <2>6 DEF FollowInv
<1>5. ASSUME NEW t \in Threads, WriteRecords(t) PROVE FollowInv'
  <2>1. /\ InRuling(t) /\ Serving(t, "write") /\ queue' = queue
        /\ settled' = request[t].alone
    BY <1>5 DEF WriteRecords, InRuling
  <2>2. request'[t] = None /\ Others(t)
    BY <1>5, AnsweredFacts DEF WriteRecords
  <2>3. \A u \in Threads \ {t} : /\ \A s : Serving(u, s)' <=> Serving(u, s)
                                 /\ InRuling(u)' <=> InRuling(u)
                                 /\ InRuling(u) => ~request'[u].alone
    BY <2>1, <2>2 DEF FollowInv, Serving, InRuling
  <2>4. ~InRuling(t)' /\ \A s : ~Serving(t, s)'
    BY <2>2 DEF InRuling, Serving
  <2>5. Part1'
    BY <2>3, <2>4
  <2>6. ASSUME NEW u \in Threads PROVE Part2(u)'
    <3>1. CASE u = t
      BY <2>4, <3>1
    <3>2. CASE u # t
      BY <2>2, <2>3, <3>2 DEF FollowInv, InRuling
    <3> QED BY <3>1, <3>2
  <2>7. ASSUME request[t].alone
        PROVE  evidence' = None \/ evidence' = ToEvidence(queue')
    <3>1. queue = request[t].queue /\ evidence = IF request[t].lost THEN None ELSE Torn
      BY <2>1, <2>7 DEF FollowInv
    <3> QED BY <1>5, <2>1, <3>1 DEF WriteRecords, Written
  <2>8. Part3'
    BY <2>1, <2>7
  <2> QED BY <2>5, <2>6, <2>8 DEF FollowInv
<1>6. CASE ClearEvidence
  <2>1. evidence' = None /\ queue' = queue
    BY <1>6 DEF ClearEvidence
  <2>2. ASSUME NEW t \in Threads
        PROVE  /\ \A s : Serving(t, s)' <=> Serving(t, s)
               /\ InRuling(t)' <=> InRuling(t)
               /\ InRuling(t) => /\ request'[t].alone = request[t].alone
                                 /\ request'[t].queue = request[t].queue
               /\ ~Serving(t, "write") => request'[t] = request[t]
               /\ Serving(t, "write") => request'[t].lost
    <3>1. CASE Serving(t, "write")
      BY <1>6, <3>1, ClearFacts DEF Serving, InRuling
    <3>2. CASE ~Serving(t, "write")
      BY <1>6, <3>2, ClearFacts DEF Serving, InRuling
    <3> QED BY <3>1, <3>2
  <2>3. Part1'
    BY <2>2 DEF FollowInv
  <2>4. ASSUME NEW t \in Threads PROVE Part2(t)'
    <3>1. CASE Serving(t, "write")
      BY <2>1, <2>2, <3>1 DEF FollowInv, InRuling, Serving
    <3>2. CASE ~Serving(t, "write")
      BY <2>1, <2>2, <3>2 DEF FollowInv
    <3> QED BY <3>1, <3>2
  <2>5. Part3'
    BY <2>1
  <2> QED BY <2>3, <2>4, <2>5 DEF FollowInv
<1>7. ASSUME NEW t \in Threads, Assesses(t) PROVE FollowInv'
  <2>1. UNCHANGED <<queue, evidence, settled>>
    BY <1>7 DEF Assesses, RunAssessment, Assess, OpenLog, WriteLog
  <2>2. \A u \in Threads : GoesOn(u) \/ (~InRuling(u) /\ ~InRuling(u)')
    BY <1>7, RulingsAside
  <2> QED BY <2>1, <2>2, FollowAside
<1>8. CASE (\E d \in Duties : Sign(d) \/ Amend(d)) \/ DayPasses
  <2>1. UNCHANGED <<queue, evidence, settled, request>>
    BY <1>8 DEF Sign, Amend, DayPasses
  <2>2. \A u \in Threads : GoesOn(u)
    BY <2>1 DEF GoesOn
  <2> QED BY <2>1, <2>2, FollowAside
<1>9. CASE Crash
  <2>1. /\ UNCHANGED <<queue, evidence>>
        /\ settled' = (settled /\ Under({"open", "write"}) = {})
        /\ request' = [t \in Threads |-> None]
    BY <1>9 DEF Crash
  <2>2. \A t \in Threads : ~InRuling(t)' /\ \A s : ~Serving(t, s)'
    BY <2>1 DEF InRuling, Serving
  <2>3. Under({"open", "write"}) = {} =>
          \A t \in Threads : ~Serving(t, "open") /\ ~Serving(t, "write")
    BY DEF Under
  <2>4. Part3'
    BY <2>1, <2>3 DEF FollowInv
  <2> QED BY <2>2, <2>4 DEF FollowInv
<1> QED BY <1>1, <1>2, <1>3, <1>4, <1>5, <1>6, <1>7, <1>8, <1>9
        DEF Next, BeginsRuling, Assesses

\* Assessments go on while somebody rules, or clears the records.
LEMMA RecordingsAside ==
  ASSUME TypeOK, RuledInv,
         \/ ClearEvidence
         \/ \E t \in Threads : \/ BeginsRuling(t) \/ SaveQueue(t)
                               \/ OpenRecords(t) \/ WriteRecords(t)
  PROVE  \A u \in Threads :
           \/ GoesOn(u)
           \/ ~InRecording(u)' /\ ~Serving(u, "run")'
<1>1. ASSUME NEW t \in Threads, BeginsRuling(t)
      PROVE  ~InRecording(t)' /\ ~Serving(t, "run")' /\ \A u \in Threads \ {t} : GoesOn(u)
  <2>1. PICK q \in Seq(Items), what \in {"upload", "map", "dismiss"} : Rule(t, q, what)
    BY <1>1, RulingBegins
  <2>2. Serving(t, "save")' /\ \A u \in Threads \ {t} : GoesOn(u)
    BY <2>1, RuleFacts
  <2> QED BY <2>2 DEF InRecording, Serving
<1>2. ASSUME NEW t \in Threads, NEW stage \in Ruling, InRuling(t), Goes(t, stage)
      PROVE  ~InRecording(t)' /\ ~Serving(t, "run")' /\ \A u \in Threads \ {t} : GoesOn(u)
  <2>1. Serving(t, stage)' /\ \A u \in Threads \ {t} : request'[u] = request[u]
    BY <1>2, RulingGoes
  <2> QED BY <2>1 DEF InRecording, Serving, GoesOn, Ruling
<1>3. ASSUME NEW t \in Threads, SaveQueue(t) \/ OpenRecords(t)
      PROVE  ~InRecording(t)' /\ ~Serving(t, "run")' /\ \A u \in Threads \ {t} : GoesOn(u)
  BY <1>2, <1>3 DEF SaveQueue, OpenRecords, InRuling, Ruling
<1>4. ASSUME NEW t \in Threads, WriteRecords(t)
      PROVE  ~InRecording(t)' /\ ~Serving(t, "run")' /\ \A u \in Threads \ {t} : GoesOn(u)
  <2>1. request'[t] = None /\ \A u \in Threads \ {t} : request'[u] = request[u]
    BY <1>4, AnsweredFacts DEF WriteRecords
  <2> QED BY <2>1 DEF InRecording, Serving, GoesOn
<1>5. CASE ClearEvidence
  <2> SUFFICES ASSUME NEW u \in Threads
               PROVE  GoesOn(u) \/ (~InRecording(u)' /\ ~Serving(u, "run")')
    OBVIOUS
  <2>1. CASE Serving(u, "write")
    <3>1. Serving(u, "write")'
      BY <1>5, <2>1, ClearFacts
    <3> QED BY <3>1 DEF InRecording, Serving
  <2>2. CASE ~Serving(u, "write")
    BY <1>5, <2>2, ClearFacts DEF GoesOn
  <2> QED BY <2>1, <2>2
<1>6. ASSUME NEW t \in Threads, ~InRecording(t)', ~Serving(t, "run")',
             \A u \in Threads \ {t} : GoesOn(u), NEW u \in Threads
      PROVE  GoesOn(u) \/ (~InRecording(u)' /\ ~Serving(u, "run")')
  BY <1>6
<1> QED BY <1>1, <1>3, <1>4, <1>5, <1>6

LEMMA LogAside ==
  ASSUME TypeOK, LogInv, log' = log,
         \A u \in Threads :
           \/ GoesOn(u)
           \/ ~InRecording(u)' /\ ~Serving(u, "run")'
  PROVE  LogInv'
<1>1. ASSUME NEW u \in Threads, Serving(u, "run")' PROVE request'[u].rules # {}
  <2>1. GoesOn(u)
    BY <1>1
  <2>2. Serving(u, "run") /\ request'[u].rules = request[u].rules
    BY <1>1, <2>1, GoesOnFacts
  <2> QED BY <2>2 DEF LogInv
<1>2. ASSUME NEW u \in Threads, InRecording(u)' PROVE AllSound(request'[u].runs)
  <2>1. GoesOn(u)
    BY <1>2
  <2>2. InRecording(u) /\ request'[u].runs = request[u].runs
    BY <1>2, <2>1, GoesOnFacts
  <2> QED BY <2>2 DEF LogInv
<1> QED BY <1>1, <1>2 DEF LogInv

LEMMA SoundAppend ==
  ASSUME NEW l \in Seq(Runs), NEW run \in Runs, AllSound(l), Sound(run)
  PROVE  AllSound(Append(l, run))
<1>1. PICK n \in Nat : n = Len(l)
  OBVIOUS
<1>2. DOMAIN l = 1..n /\ DOMAIN Append(l, run) = 1..(n + 1)
  BY <1>1
<1>3. (\A i \in 1..n : Append(l, run)[i] = l[i]) /\ Append(l, run)[n + 1] = run
  BY <1>1
<1>4. \A i \in 1..(n + 1) : i \in 1..n \/ i = n + 1
  OBVIOUS
<1> QED BY <1>2, <1>3, <1>4 DEF AllSound

LEMMA LogStep ==
  ASSUME TypeOK, RuledInv, LogInv, [Next]_vars
  PROVE  LogInv'
<1> USE DEF files, history
<1>1. CASE UNCHANGED vars
  BY <1>1 DEF vars, LogInv, InRecording, Serving
<1>2. CASE \/ ClearEvidence
           \/ \E t \in Threads : \/ BeginsRuling(t) \/ SaveQueue(t)
                                 \/ OpenRecords(t) \/ WriteRecords(t)
  <2>1. log' = log
    BY <1>2, RulingBegins DEF ClearEvidence, SaveQueue, OpenRecords, WriteRecords
  <2>2. \A u \in Threads : GoesOn(u) \/ (~InRecording(u)' /\ ~Serving(u, "run")')
    BY <1>2, RecordingsAside
  <2> QED BY <2>1, <2>2, LogAside
<1>3. ASSUME NEW t \in Threads, RunAssessment(t) PROVE LogInv'
  <2>1. log' = log
    BY <1>3 DEF RunAssessment
  <2>2. /\ Serving(t, "run")' /\ request'[t].rules # {}
        /\ \A u \in Threads \ {t} : request'[u] = request[u]
    BY <1>3, RunAssessmentFacts
  <2>3. \A u \in Threads \ {t} : /\ Serving(u, "run")' => request'[u].rules # {}
                                 /\ InRecording(u)' => AllSound(request'[u].runs)
    BY <2>2 DEF LogInv, InRecording, Serving
  <2>4. ~InRecording(t)'
    BY <2>2 DEF InRecording, Serving
  <2> QED BY <2>1, <2>2, <2>3, <2>4 DEF LogInv
<1>4. ASSUME NEW t \in Threads, Assess(t), ~Answered(t) PROVE LogInv'
  <2>1. /\ log # Torn /\ log \in Seq(Runs) /\ log' = log
        /\ Serving(t, "open log")' /\ \A u \in Threads \ {t} : GoesOn(u)
    BY <1>4, AssessFacts DEF Assess
  <2>2. PICK run \in Runs : Sound(run) /\ request'[t].runs = Append(log, run)
    BY <1>4, AssessFacts
  <2>3. AllSound(Append(log, run))
    <3>1. AllSound(log)
      BY <2>1 DEF LogInv
    <3> QED BY <2>1, <2>2, <3>1, SoundAppend
  <2>4. ASSUME NEW u \in Threads \ {t}
        PROVE  /\ Serving(u, "run")' => request'[u].rules # {}
               /\ InRecording(u)' => AllSound(request'[u].runs)
    BY <2>1, GoesOnFacts DEF LogInv
  <2>5. ~Serving(t, "run")'
    BY <2>1 DEF Serving
  <2> QED BY <2>1, <2>2, <2>3, <2>4, <2>5 DEF LogInv
<1>5. ASSUME NEW t \in Threads, OpenLog(t) PROVE LogInv'
  <2>1. InRecording(t) /\ Goes(t, "write log") /\ log' = Torn
    BY <1>5 DEF OpenLog, InRecording
  <2>2. /\ Serving(t, "write log")' /\ request'[t].runs = request[t].runs
        /\ \A u \in Threads \ {t} : request'[u] = request[u]
    BY <2>1, RecordingGoes DEF Recording
  <2>3. \A u \in Threads : /\ Serving(u, "run")' => request'[u].rules # {}
                           /\ InRecording(u)' => AllSound(request'[u].runs)
    BY <2>1, <2>2 DEF LogInv, InRecording, Serving
  <2> QED BY <2>1, <2>3 DEF LogInv
<1>6. ASSUME NEW t \in Threads, WriteLog(t) PROVE LogInv'
  <2>1. InRecording(t) /\ log' \in {request[t].runs, Torn}
    BY <1>6 DEF WriteLog, InRecording, Written
  <2>2. request'[t] = None /\ \A u \in Threads \ {t} : request'[u] = request[u]
    BY <1>6, AnsweredFacts DEF WriteLog
  <2>3. \A u \in Threads : /\ Serving(u, "run")' => request'[u].rules # {}
                           /\ InRecording(u)' => AllSound(request'[u].runs)
    BY <2>2 DEF LogInv, InRecording, Serving
  <2> QED BY <2>1, <2>3 DEF LogInv
<1>7. ASSUME NEW t \in Threads, Assess(t), Answered(t) PROVE LogInv'
  <2>1. request'[t] = None /\ \A u \in Threads \ {t} : request'[u] = request[u]
    BY <1>7, AnsweredFacts
  <2>2. log' = log
    BY <1>7 DEF Assess
  <2> QED BY <2>1, <2>2 DEF LogInv, InRecording, Serving
<1>8. CASE (\E d \in Duties : Sign(d) \/ Amend(d)) \/ DayPasses
  <2>1. UNCHANGED <<log, request>>
    BY <1>8 DEF Sign, Amend, DayPasses
  <2> QED BY <2>1 DEF LogInv, InRecording, Serving
<1>9. CASE Crash
  <2>1. log' = log
    BY <1>9 DEF Crash
  <2> QED BY <1>9, <2>1, CrashFacts DEF LogInv
<1> QED BY <1>1, <1>2, <1>3, <1>4, <1>5, <1>6, <1>7, <1>8, <1>9 DEF Next, BeginsRuling

LEMMA PrefixSelf == ASSUME NEW s \in Seq(Runs) PROVE IsPrefix(s, s)
BY DEF IsPrefix

LEMMA PrefixAppend ==
  ASSUME NEW s \in Seq(Runs), NEW l \in Seq(Runs), NEW run \in Runs, IsPrefix(s, l)
  PROVE  IsPrefix(s, Append(l, run))
<1>1. /\ Len(s) \in Nat /\ Len(l) \in Nat /\ Len(s) <= Len(l)
      /\ SubSeq(s, 1, Len(s)) = SubSeq(l, 1, Len(s))
  BY DEF IsPrefix
<1>2. PICK n \in Nat : n = Len(s)
  BY <1>1
<1>3. Append(l, run) \in Seq(Runs) /\ Len(Append(l, run)) = Len(l) + 1
      /\ \A i \in 1..Len(l) : Append(l, run)[i] = l[i]
  OBVIOUS
<1>4. SubSeq(Append(l, run), 1, n) = SubSeq(l, 1, n)
  <2>1. \A i \in 1..n : Append(l, run)[i] = l[i] /\ l[i] \in Runs
    BY <1>1, <1>2, <1>3
  <2>2. /\ SubSeq(l, 1, n) \in Seq(Runs) /\ Len(SubSeq(l, 1, n)) = n
        /\ \A i \in 1..n : SubSeq(l, 1, n)[i] = l[i]
    BY <1>1, <1>2
  <2>3. /\ SubSeq(Append(l, run), 1, n) \in Seq(Runs)
        /\ Len(SubSeq(Append(l, run), 1, n)) = n
        /\ \A i \in 1..n : SubSeq(Append(l, run), 1, n)[i] = Append(l, run)[i]
    BY <1>1, <1>2, <1>3
  <2> QED BY <2>1, <2>2, <2>3, SeqEqual
<1>5. Len(s) <= Len(Append(l, run))
  BY <1>1, <1>3
<1> QED BY <1>1, <1>2, <1>4, <1>5 DEF IsPrefix

LEMMA KeptStep ==
  ASSUME TypeOK, RuledInv, LogInv, KeptInv, [Next]_vars
  PROVE  KeptInv'
<1> USE DEF files, history
<1>1. ASSUME UNCHANGED <<log, kept>>,
             \A u \in Threads : GoesOn(u) \/ (~InRecording(u)' /\ ~Serving(u, "run")')
      PROVE  KeptInv'
  <2>1. ASSUME NEW u \in Threads, InRecording(u)'
        PROVE  /\ InRecording(u) /\ request'[u].runs = request[u].runs
               /\ request'[u].alone => request[u].alone
    <3>1. GoesOn(u)
      BY <1>1, <2>1
    <3> QED BY <2>1, <3>1, GoesOnFacts
  <2>2. \A u \in Threads : InRecording(u)' => IsPrefix(kept', request'[u].runs)
    BY <1>1, <2>1 DEF KeptInv
  <2>3. (\A t, u \in Threads : InRecording(t) /\ InRecording(u) /\ request[t].alone => t = u)'
    BY <2>1 DEF KeptInv
  <2> QED BY <1>1, <2>2, <2>3 DEF KeptInv
<1>2. CASE UNCHANGED vars
  <2>1. UNCHANGED <<log, kept>> /\ \A u \in Threads : GoesOn(u)
    BY <1>2 DEF vars, GoesOn
  <2> QED BY <1>1, <2>1
<1>3. CASE \/ ClearEvidence
           \/ \E t \in Threads : \/ BeginsRuling(t) \/ SaveQueue(t)
                                 \/ OpenRecords(t) \/ WriteRecords(t)
  <2>1. UNCHANGED <<log, kept>>
    BY <1>3, RulingBegins DEF ClearEvidence, SaveQueue, OpenRecords, WriteRecords
  <2>2. \A u \in Threads : GoesOn(u) \/ (~InRecording(u)' /\ ~Serving(u, "run")')
    BY <1>3, RecordingsAside
  <2> QED BY <1>1, <2>1, <2>2
<1>4. ASSUME NEW t \in Threads, UNCHANGED <<log, kept>>, ~InRecording(t)',
             \A u \in Threads \ {t} : request'[u] = request[u]
      PROVE  KeptInv'
  BY <1>4 DEF KeptInv, InRecording, Serving
<1>5. ASSUME NEW t \in Threads, RunAssessment(t) PROVE KeptInv'
  <2>1. Serving(t, "run")' /\ \A u \in Threads \ {t} : request'[u] = request[u]
    BY <1>5, RunAssessmentFacts
  <2>2. UNCHANGED <<log, kept>> /\ ~InRecording(t)'
    BY <1>5, <2>1 DEF RunAssessment, InRecording, Serving
  <2> QED BY <1>4, <2>1, <2>2
<1>6. ASSUME NEW t \in Threads, Assess(t), Answered(t) PROVE KeptInv'
  <2>1. request'[t] = None /\ \A u \in Threads \ {t} : request'[u] = request[u]
    BY <1>6, AnsweredFacts
  <2>2. UNCHANGED <<log, kept>> /\ ~InRecording(t)'
    BY <1>6, <2>1 DEF Assess, InRecording, Serving
  <2> QED BY <1>4, <2>1, <2>2
<1>7. ASSUME NEW t \in Threads, Assess(t), ~Answered(t) PROVE KeptInv'
  <2>1. /\ log # Torn /\ log \in Seq(Runs) /\ UNCHANGED <<log, kept>>
        /\ \A u \in Threads \ {t} : GoesOn(u)
    BY <1>7, AssessFacts DEF Assess
  <2>2. /\ request'[t].alone => \A u \in Threads : ~InRecording(u)
        /\ \A u \in Threads \ {t} : InRecording(u) => ~request'[u].alone
    BY <1>7, AssessFacts
  <2>3. PICK run \in Runs : request'[t].runs = Append(log, run)
    BY <1>7, AssessFacts
  <2>4. IsPrefix(kept, log) /\ kept \in Seq(Runs)
    BY <2>1 DEF KeptInv, TypeOK
  <2>5. IsPrefix(kept', request'[t].runs)
    BY <2>1, <2>3, <2>4, PrefixAppend
  <2>6. ASSUME NEW u \in Threads \ {t}
        PROVE  /\ InRecording(u)' <=> InRecording(u)
               /\ InRecording(u) => request'[u].runs = request[u].runs /\ ~request'[u].alone
    BY <2>1, <2>2, GoesOnFacts
  <2>7. \A u \in Threads : InRecording(u)' => IsPrefix(kept', request'[u].runs)
    BY <2>1, <2>5, <2>6 DEF KeptInv
  <2>8. (\A s, u \in Threads : InRecording(s) /\ InRecording(u) /\ request[s].alone => s = u)'
    BY <2>2, <2>6
  <2> QED BY <2>1, <2>4, <2>7, <2>8 DEF KeptInv
<1>8. ASSUME NEW t \in Threads, OpenLog(t) PROVE KeptInv'
  <2>1. InRecording(t) /\ Goes(t, "write log") /\ log' = Torn /\ kept' = kept
    BY <1>8 DEF OpenLog, InRecording
  <2>2. /\ Serving(t, "write log")' /\ request'[t].runs = request[t].runs
        /\ request'[t].alone = request[t].alone
        /\ \A u \in Threads \ {t} : request'[u] = request[u]
    BY <2>1, RecordingGoes DEF Recording
  <2>3. \A u \in Threads : /\ InRecording(u)' <=> InRecording(u)
                           /\ request'[u].runs = request[u].runs
                           /\ request'[u].alone = request[u].alone
    BY <2>1, <2>2 DEF InRecording, Serving
  <2> QED BY <2>1, <2>3 DEF KeptInv
<1>9. ASSUME NEW t \in Threads, WriteLog(t) PROVE KeptInv'
  <2>1. /\ InRecording(t) /\ log' \in {request[t].runs, Torn}
        /\ kept' = IF request[t].alone THEN request[t].runs ELSE kept
    BY <1>9 DEF WriteLog, InRecording, Written
  <2>2. request'[t] = None /\ \A u \in Threads \ {t} : request'[u] = request[u]
    BY <1>9, AnsweredFacts DEF WriteLog
  <2>3. \A u \in Threads : InRecording(u)' =>
          u # t /\ InRecording(u) /\ request'[u] = request[u]
    BY <2>2 DEF InRecording, Serving
  <2>4. request[t].runs \in Seq(Runs)
    <3>1. request[t] \in Recordings
      BY <2>1, Kinds
    <3> QED BY <3>1 DEF Recordings
  <2>5. IsPrefix(kept', request[t].runs)
    BY <2>1, <2>4, PrefixSelf DEF KeptInv
  <2>6. \A u \in Threads : InRecording(u)' => IsPrefix(kept', request'[u].runs)
    BY <2>1, <2>3 DEF KeptInv
  <2>7. (\A s, u \in Threads : InRecording(s) /\ InRecording(u) /\ request[s].alone => s = u)'
    BY <2>3 DEF KeptInv
  <2>8. (log # Torn => IsPrefix(kept, log))'
    BY <2>1, <2>5
  <2> QED BY <2>6, <2>7, <2>8 DEF KeptInv
<1>10. CASE (\E d \in Duties : Sign(d) \/ Amend(d)) \/ DayPasses
  <2>1. UNCHANGED <<log, kept>> /\ \A u \in Threads : GoesOn(u)
    BY <1>10 DEF Sign, Amend, DayPasses, GoesOn
  <2> QED BY <1>1, <2>1
<1>11. CASE Crash
  <2>1. UNCHANGED <<log, kept>>
    BY <1>11 DEF Crash
  <2> QED BY <1>11, <2>1, CrashFacts DEF KeptInv
<1> QED BY <1>2, <1>3, <1>5, <1>6, <1>7, <1>8, <1>9, <1>10, <1>11 DEF Next, BeginsRuling

-----------------------------------------------------------------------------
(* What holds of every behaviour.                                          *)

ReviewInv == TypeOK /\ RuledInv /\ FollowInv /\ LogInv /\ KeptInv

LEMMA ReviewInit == Init => ReviewInv
<1> SUFFICES ASSUME Init PROVE ReviewInv
  OBVIOUS
<1>1. /\ rules = [d \in Duties |-> [version |-> 1, certified |-> FALSE]]
      /\ queue = <<>> /\ evidence = None /\ log = <<>> /\ today = 1
      /\ request = [t \in Threads |-> None]
      /\ settled = TRUE /\ kept = <<>>
  BY DEF Init
<1>2. 1 \in Versions
  BY ReviewAssumption DEF Versions
<1>3. \A t \in Threads : ~InRuling(t) /\ ~InRecording(t) /\ \A s : ~Serving(t, s)
  BY <1>1 DEF InRuling, InRecording, Serving
<1>4. <<>> \in Seq(Runs) /\ <<>> \in Seq(Items) /\ DOMAIN <<>> = {}
  OBVIOUS
<1>5. TypeOK
  <2>1. rules \in [Duties -> [version : Versions, certified : BOOLEAN]]
    BY <1>1, <1>2
  <2>2. request \in [Threads -> Asked]
    BY <1>1 DEF Asked
  <2> QED BY <1>1, <1>4, <2>1, <2>2 DEF TypeOK
<1>6. RuledInv
  BY <1>1, <1>3, <1>4 DEF RuledInv, Backed
<1>7. FollowInv
  BY <1>1, <1>3 DEF FollowInv
<1>8. LogInv
  BY <1>1, <1>3, <1>4 DEF LogInv, AllSound
<1>9. KeptInv
  BY <1>1, <1>3, <1>4, PrefixSelf DEF KeptInv
<1> QED BY <1>5, <1>6, <1>7, <1>8, <1>9 DEF ReviewInv

LEMMA ReviewStep == ReviewInv /\ [Next]_vars => ReviewInv'
<1> SUFFICES ASSUME TypeOK, RuledInv, FollowInv, LogInv, KeptInv, [Next]_vars
             PROVE  ReviewInv'
  BY DEF ReviewInv
<1>1. TypeOK'
  BY TypeStep
<1>2. RuledInv'
  BY RuledStep
<1>3. FollowInv'
  BY FollowStep
<1>4. LogInv'
  BY LogStep
<1>5. KeptInv'
  BY KeptStep
<1> QED BY <1>1, <1>2, <1>3, <1>4, <1>5 DEF ReviewInv

LEMMA ReviewAlways == Spec => []ReviewInv
<1>1. Init => ReviewInv
  BY ReviewInit
<1>2. ReviewInv /\ [Next]_vars => ReviewInv'
  BY ReviewStep
<1> QED BY <1>1, <1>2, PTL DEF Spec

\* Every file, and every request under way, holds what it may hold.
THEOREM TypeAlwaysOK == Spec => []TypeOK
<1>1. ReviewInv => TypeOK
  BY DEF ReviewInv
<1> QED BY <1>1, ReviewAlways, PTL

\* Once nobody is ruling, and the last ruling was served alone to its end, the
\* records say of every occasion what the latest item of the queue mapped to it says.
THEOREM RecordsAlwaysFollow == Spec => []RecordsFollowTheQueue
<1>1. ReviewInv => RecordsFollowTheQueue
  <2> SUFFICES ASSUME ReviewInv, settled, Under(Ruling) = {}, evidence # None
               PROVE  /\ evidence # Torn
                      /\ LET Says(i, d, day) == ~queue[i].dismissed /\ queue[i].mapped = d
                                                /\ queue[i].cand.day = day
                         IN  \A d \in Duties, day \in Days :
                               LET items == {i \in DOMAIN queue : Says(i, d, day)}
                               IN  {e \in evidence : e.duty = d /\ e.day = day} =
                                   IF items = {} THEN {}
                                   ELSE {[duty |-> d, day |-> day,
                                          filed |-> queue[Max(items)].cand.filed]}
    BY DEF RecordsFollowTheQueue
  <2>1. queue \in Seq(Items) /\ Backed(queue, ruled)
    BY DEF ReviewInv, TypeOK, RuledInv
  <2>2. evidence = ToEvidence(queue)
    BY UnderRuling DEF ReviewInv, FollowInv, InRuling
  <2>3. evidence # Torn
    BY <2>1, <2>2, ToEvidenceSays, ReviewAssumption
  <2>4. ASSUME NEW d \in Duties, NEW day \in Days, NEW items,
               items = {i \in DOMAIN queue : /\ ~queue[i].dismissed /\ queue[i].mapped = d
                                             /\ queue[i].cand.day = day}
        PROVE  {e \in evidence : e.duty = d /\ e.day = day} =
                 IF items = {} THEN {}
                 ELSE {[duty |-> d, day |-> day, filed |-> queue[Max(items)].cand.filed]}
    <3>1. DOMAIN queue = 1..Len(queue)
      BY <2>1
    <3>2. \A i \in DOMAIN queue : queue[i].mapped = d => ~queue[i].dismissed
      BY <2>1, Nothing DEF Backed
    <3>3. items \in SUBSET (1..Len(queue))
      BY <2>4, <3>1
    <3>4. \A i \in 1..Len(queue) : i \in items <=> queue[i].mapped = d /\ queue[i].cand.day = day
      BY <2>4, <3>1, <3>2
    <3>5. {e \in ToEvidence(queue) : e.duty = d /\ e.day = day} =
            IF items = {} THEN {}
            ELSE {[duty |-> d, day |-> day, filed |-> queue[Max(items)].cand.filed]}
      <4>1. queue \in Seq(Items)
        BY <2>1
      <4> HIDE <2>4
      <4> QED BY <4>1, <3>3, <3>4, LatestIsRecorded
    <3> QED BY <2>2, <3>5
  <2> QED BY <2>3, <2>4
<1> QED BY <1>1, ReviewAlways, PTL

\* Nothing is on record that was not ruled, nor twice for one occasion.
THEOREM RecordsAlwaysRuled == Spec => []RecordsWereRuled
<1>1. ReviewInv => RecordsWereRuled
  BY DEF ReviewInv, RuledInv, RecordsWereRuled
<1> QED BY <1>1, ReviewAlways, PTL

\* A log that can be read begins with what was last written to it alone.
THEOREM RunsAlwaysKept == Spec => []RunsAreKept
<1>1. ReviewInv => RunsAreKept
  BY DEF ReviewInv, KeptInv, RunsAreKept
<1> QED BY <1>1, ReviewAlways, PTL

\* The position a supervisor is shown is the firm's, by its rulebook and its records.
THEOREM PositionsNeverStale == Spec => []NoPositionIsStale
<1>1. ReviewInv => NoPositionIsStale
  <2> SUFFICES ASSUME ReviewInv, evidence # Torn, log # Torn,
                      SupervisedState \in {"CLEAN", "FAILING"}
               PROVE  /\ (SupervisedState = "FAILING") =
                           (Findings(RulebookFingerprint, evidence, log[Recorded].day) # {})
                      /\ log[Recorded].day = today => Overview = SupervisedState
    BY DEF NoPositionIsStale
  <2>1. log \in Seq(Runs) /\ AllSound(log)
    BY DEF ReviewInv, TypeOK, LogInv
  <2>2. /\ log # <<>> /\ Recorded # None
        /\ SupervisedState = IF log[Recorded].breaches # {} THEN "FAILING" ELSE "CLEAN"
    BY DEF SupervisedState
  <2> DEFINE runs == IF evidence = None THEN {}
                     ELSE {i \in DOMAIN log : log[i].inputs = Inputs(evidence)}
  <2>3. evidence # None /\ runs # {} /\ Recorded = Max(runs)
    BY <2>2 DEF Recorded
  <2>4. PICK n \in Nat : n = Len(log) /\ DOMAIN log = 1..n
    BY <2>1
  <2>5. runs \in SUBSET (1..n)
    BY <2>4
  <2>6. Max(runs) \in runs
    <3> HIDE DEF runs
    <3> QED BY <2>3, <2>5, MaxOf
  <2>7. Recorded \in DOMAIN log /\ log[Recorded].inputs = Inputs(evidence)
    BY <2>3, <2>6
  <2> HIDE DEF runs
  <2>8. Sound(log[Recorded])
    BY <2>1, <2>7 DEF AllSound
  <2>9. /\ RulebookFingerprint # {}
        /\ log[Recorded].breaches = Findings(RulebookFingerprint, evidence, log[Recorded].day)
    BY <2>7, <2>8 DEF Sound, Inputs, EvidenceFingerprint
  <2>10. (SupervisedState = "FAILING") =
           (Findings(RulebookFingerprint, evidence, log[Recorded].day) # {})
    BY <2>2, <2>9
  <2>11. Overview = IF Findings(RulebookFingerprint, evidence, today) # {}
                    THEN "FAILING" ELSE "CLEAN"
    BY <2>2, <2>3, <2>9 DEF Overview
  <2> QED BY <2>2, <2>9, <2>10, <2>11
<1> QED BY <1>1, ReviewAlways, PTL
=============================================================================
