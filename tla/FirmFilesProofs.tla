-------------------------- MODULE FirmFilesProofs --------------------------
(***************************************************************************)
(* Theorems about whose records a request reads and writes, for every      *)
(* number of people, requests, firms and statements.  The index of firms   *)
(* and the files are taken one after the other: what is known of a list or *)
(* of a store is known as long as no request changed it under another.     *)
(***************************************************************************)
EXTENDS FirmFiles, FiniteSetTheorems, SequenceTheorems, TLAPS

-----------------------------------------------------------------------------
(* What is known of a request by its place.                                *)

Keeping(tab) == request[tab] # None /\ request[tab].list # None
Saving(tab) == At(tab, "remembering") \/ At(tab, "choosing")

\* The store a request that writes is about.
KindOf(r) == IF r.what = "add record" THEN "records" ELSE "company"
Adopted(r) == [by |-> r.who, slot |-> First, kind |-> Kinds[r.adopted + 1]]

PlaceOK(r) ==
  /\ r.list # None <=> r.at \in {"remembered", "remembering", "chosen", "choosing"}
  /\ r.holds # None <=> r.at \in {"write", "writing", "move"}
  /\ r.at \in {"write", "writing"} => r.holds = Store(r, KindOf(r))
  /\ r.at = "writing" => r.what = "add record"
  /\ r.at = "move" => Shared /\ r.adopted < Len(Kinds) /\ r.holds = Adopted(r)
  /\ Shared => r.scope \in {Visitor(r.who), Account(r.who)}
PlacesOK == \A tab \in Tabs : request[tab] # None => PlaceOK(request[tab])

-----------------------------------------------------------------------------
(* The index of firms.                                                     *)

\* The numbers in a list of firms count as issued.
Numbered(idx) == idx \in Lists /\ \A k \in idx.slots : k <= idx.issued

NumberedInv ==
  /\ \A s \in Scopes : index[s] \in Lists => Numbered(index[s])
  /\ \A tab \in Tabs : Keeping(tab) => Numbered(request[tab].list)

\* One request at a time is about the list of a scope, and the list it is to save
\* has every firm of the one it read.
ListOK(s) ==
  /\ \A t, u \in Tabs : (Keeping(t) /\ Keeping(u) /\ request[t].scope = s
                           /\ request[u].scope = s) => t = u
  /\ \A t \in Tabs : (Keeping(t) /\ request[t].scope = s) =>
       /\ Saving(t) => index[s] = Torn
       /\ index[s] \in Lists => index[s].slots \subseteq request[t].list.slots
ListsOK == \A s \in Scopes \ racedLists : ListOK(s)

\* The list of the scope names the slot.
Names(s, k) == \E idx \in Listed(s) : idx \in Lists /\ k \in idx.slots

\* A request of a firm other than the first was settled on when the firm was in
\* the list, and so was every such firm that has files.
SettledInv ==
  \A tab \in Tabs, s \in Scopes \ racedLists, k \in Slots \ {First} :
    (request[tab] # None /\ request[tab].scope = s /\ request[tab].slot = k) => Names(s, k)
SlotInv ==
  \A path \in Paths, s \in Scopes \ racedLists, k \in Slots \ {First} :
    (files[path] # None /\ path[2] = s /\ path[3] = k) => Names(s, k)

-----------------------------------------------------------------------------
(* The files, on a deployment several people share.                        *)

Writes(tab, path, e) ==
  At(tab, "writing") /\ e \in request[tab].copy /\ path = Writable(request[tab], "records")
Holds(path, e) == e \in Load(path) \/ \E tab \in Tabs : Writes(tab, path, e)

PathStore(path) == [by |-> path[2][1], slot |-> path[3], kind |-> path[1]]
Mine(path, e) == path[2] # Plain /\ StoreOf(e) = PathStore(path)
Said(e) == e.n \in 1..Len(said) /\ said[e.n] = e

\* A statement is known by its number; it is where its person's and its firm's
\* statements of its kind are, and with the requests about that store.
Dated == \A i \in 1..Len(said) : said[i].n = i
Filed == \A path \in Paths : \A e \in Load(path) : Mine(path, e) /\ Said(e)
Copied ==
  \A tab \in Tabs : request[tab] # None =>
    \A e \in request[tab].copy : StoreOf(e) = Store(request[tab], KindOf(request[tab])) /\ Said(e)
Placed == Dated /\ Filed /\ Copied

Holder(tab, store) == request[tab] # None /\ request[tab].holds = store
From(store) == Path(store.kind, Visitor(store.by), First)
To(store) == Path(store.kind, Account(store.by), First)

\* What a request knows of the store it holds is still so.
Fresh(tab, store) ==
  \A own \in Paths : own = Writable(request[tab], store.kind) =>
    /\ At(tab, "write") => request[tab].copy = Load(own)
    /\ At(tab, "writing") => files[own] = Torn
    /\ At(tab, "move") => files[From(store)] # None /\ files[To(store)] = None

Gone(i) ==
  \/ said[i] \in cleared
  \/ said[i].kind = "company" /\ \E j \in (i + 1)..Len(said) : StoreOf(said[j]) = StoreOf(said[i])

\* A store no request has changed under another: one request at a time holds it,
\* what that request read is still so, and what was said in it is in one file.
OneHolder(store) == \A t, u \in Tabs : Holder(t, store) /\ Holder(u, store) => t = u
StillSo(store) == \A tab \in Tabs : Holder(tab, store) => Fresh(tab, store)
Single(store) ==
  \A p, q \in Paths, e \in Statements :
    StoreOf(e) = store /\ Holds(p, e) /\ Holds(q, e) => p = q
Kept(store) ==
  \A i \in 1..Len(said), e \in Statements :
    (said[i] = e /\ StoreOf(e) = store) => Gone(i) \/ \E path \in Paths : Holds(path, e)
StoreOK(store) == OneHolder(store) /\ StillSo(store) /\ Single(store) /\ Kept(store)

StoresOK == \A store \in Stores \ racedFiles : StoreOK(store)

-----------------------------------------------------------------------------
(* Types, and what a step makes of the request it serves.                  *)

LEMMA Basics ==
  /\ First \in Slots /\ 1 \in Slots /\ First = 1 /\ Slots \subseteq Nat
  /\ NoFirms \in Lists /\ NoFirms.slots = {} /\ NoFirms.issued = 1 /\ NoFirms.active = First
  /\ None # Torn /\ Len(Kinds) = 2 /\ Kinds[1] = "company" /\ Kinds[2] = "records"
BY FirmsAssumption DEF First, Slots, NoFirms, Lists, Kinds

\* The request of one tab becomes q, the others are as they were.
Becomes(tab, q) ==
  /\ request' = [request EXCEPT ![tab] = q]
  /\ DOMAIN request' = Tabs /\ request'[tab] = q
  /\ \A u \in Tabs \ {tab} : request'[u] = request[u]

LEMMA AnsweredBecomes ==
  ASSUME TypeOK, NEW tab \in Tabs, Answered(tab)
  PROVE  Becomes(tab, None)
BY DEF TypeOK, Answered, Becomes

LEMMA GoesBecomes ==
  ASSUME TypeOK, NEW tab \in Tabs, NEW place, Goes(tab, place)
  PROVE  Becomes(tab, [request[tab] EXCEPT !.at = place])
BY DEF TypeOK, Goes, Becomes

LEMMA TakesBecomes ==
  ASSUME TypeOK, NEW tab \in Tabs, NEW kind, Takes(tab, kind)
  PROVE  Becomes(tab, [request[tab] EXCEPT !.at = "write", !.holds = Store(request[tab], kind),
                                          !.copy = Load(Readable(request[tab], kind))])
<1> DEFINE s == Store(request[tab], kind)
           c == Load(Readable(request[tab], kind))
<1>1. request' = [request EXCEPT ![tab].at = "write", ![tab].holds = s, ![tab].copy = c]
  BY DEF Takes
<1> HIDE DEF s, c
<1>2. Becomes(tab, [request[tab] EXCEPT !.at = "write", !.holds = s, !.copy = c])
  BY <1>1 DEF TypeOK, Becomes
<1>3. QED
  BY <1>2 DEF s, c

LEMMA ReadsBecomes ==
  ASSUME TypeOK, NEW tab \in Tabs, NEW place, NEW idx, Reads(tab, place, idx)
  PROVE  Becomes(tab, [request[tab] EXCEPT !.at = place, !.list = idx])
BY DEF TypeOK, Reads, Becomes

LEMMA RemembersBecomes ==
  ASSUME TypeOK, NEW tab \in Tabs, Remembers(tab)
  PROVE  \/ Becomes(tab, None)
         \/ Becomes(tab, [request[tab] EXCEPT !.at = "choose", !.list = None])
<1>1. CASE request[tab].what = "new firm"
  BY <1>1 DEF TypeOK, Remembers, Becomes
<1>2. CASE request[tab].what # "new firm"
  BY <1>2, AnsweredBecomes DEF Remembers
<1>3. QED
  BY <1>1, <1>2

LEMMA Unchanged ==
  ASSUME NEW r \in Requests
  PROVE  /\ r.at \in Places /\ r.holds \in {None} \cup Stores /\ r.copy \in SUBSET Statements
         /\ r.list \in {None} \cup Lists /\ r.adopted \in Nat /\ r.who \in People
         /\ r.scope \in Scopes /\ r.slot \in Slots
BY DEF Requests

\* The request stays the one it is, at a place, holding a store with a copy of it,
\* or a list.
Turns(tab, at, holds, copy, list, adopted) ==
  LET r == request[tab]
      q == request'[tab]
  IN  /\ Becomes(tab, q) /\ r \in Requests /\ q \in Requests
      /\ q.who = r.who /\ q.what = r.what /\ q.scope = r.scope /\ q.slot = r.slot
      /\ q.at = at /\ q.holds = holds /\ q.copy = copy /\ q.list = list /\ q.adopted = adopted

LEMMA TabRequest ==
  ASSUME TypeOK, NEW tab \in Tabs, request[tab] # None
  PROVE  request[tab] \in Requests
BY DEF TypeOK

LEMMA GoesTurns ==
  ASSUME TypeOK, NEW tab \in Tabs, request[tab] # None, NEW place \in Places, Goes(tab, place)
  PROVE  LET r == request[tab] IN Turns(tab, place, r.holds, r.copy, r.list, r.adopted)
<1>1. PICK r \in Requests : r = request[tab]
  BY TabRequest
<1>2. PICK q : q = [r EXCEPT !.at = place]
  OBVIOUS
<1>3. Becomes(tab, q)
  BY <1>1, <1>2, GoesBecomes
<1>4. /\ q \in Requests
      /\ q.at = place /\ q.holds = r.holds /\ q.copy = r.copy /\ q.list = r.list
      /\ q.adopted = r.adopted
      /\ q.who = r.who /\ q.what = r.what /\ q.scope = r.scope /\ q.slot = r.slot
  BY ONLY <1>2, place \in Places, r \in Requests DEF Requests
<1>5. q = request'[tab]
  BY <1>3 DEF Becomes
<1>6. QED
  BY <1>1, <1>3, <1>4, <1>5 DEF Turns

LEMMA TakesTurns ==
  ASSUME TypeOK, NEW tab \in Tabs, request[tab] # None, NEW kind \in {"company", "records"},
         Takes(tab, kind)
  PROVE  LET r == request[tab]
         IN  Turns(tab, "write", Store(r, kind), Load(Readable(r, kind)), r.list, r.adopted)
<1>1. PICK r \in Requests : r = request[tab]
  BY TabRequest
<1>2. PICK s : s = Store(r, kind)
  OBVIOUS
<1>3. PICK c : c = Load(Readable(r, kind))
  OBVIOUS
<1>4. s \in Stores
  BY <1>2 DEF Requests, Store, Stores
<1>5. c \in SUBSET Statements
  <2>1. Readable(r, kind) \in Paths
    BY Basics DEF Requests, Readable, Path, Paths, Scopes
  <2>2. QED
    BY <1>3, <2>1 DEF Load, TypeOK
<1>6. PICK q : q = [r EXCEPT !.at = "write", !.holds = s, !.copy = c]
  OBVIOUS
<1>7. Becomes(tab, q)
  BY <1>1, <1>2, <1>3, <1>6, TakesBecomes
<1>8. "write" \in Places /\ s \in {None} \cup Stores
  BY <1>4 DEF Places
<1>9. /\ q \in Requests
      /\ q.at = "write" /\ q.holds = s /\ q.copy = c /\ q.list = r.list
      /\ q.adopted = r.adopted
      /\ q.who = r.who /\ q.what = r.what /\ q.scope = r.scope /\ q.slot = r.slot
  BY ONLY <1>5, <1>6, <1>8, r \in Requests DEF Requests
<1>10. q = request'[tab]
  BY <1>7 DEF Becomes
<1>11. QED
  BY <1>1, <1>2, <1>3, <1>7, <1>9, <1>10 DEF Turns

LEMMA ReadsTurns ==
  ASSUME TypeOK, NEW tab \in Tabs, request[tab] # None, NEW place \in Places,
         NEW idx \in Lists, Reads(tab, place, idx)
  PROVE  LET r == request[tab] IN Turns(tab, place, r.holds, r.copy, idx, r.adopted)
<1>1. PICK r \in Requests : r = request[tab]
  BY TabRequest
<1>2. PICK q : q = [r EXCEPT !.at = place, !.list = idx]
  OBVIOUS
<1>3. Becomes(tab, q)
  BY <1>1, <1>2, ReadsBecomes
<1>4. /\ q \in Requests
      /\ q.at = place /\ q.holds = r.holds /\ q.copy = r.copy /\ q.list = idx
      /\ q.adopted = r.adopted
      /\ q.who = r.who /\ q.what = r.what /\ q.scope = r.scope /\ q.slot = r.slot
  BY ONLY <1>2, place \in Places, idx \in Lists, r \in Requests DEF Requests
<1>5. q = request'[tab]
  BY <1>3 DEF Becomes
<1>6. QED
  BY <1>1, <1>3, <1>4, <1>5 DEF Turns

LEMMA RemembersTurns ==
  ASSUME TypeOK, NEW tab \in Tabs, request[tab] # None, Remembers(tab)
  PROVE  LET r == request[tab]
         IN  Becomes(tab, None) \/ Turns(tab, "choose", r.holds, r.copy, None, r.adopted)
<1>1. PICK r \in Requests : r = request[tab]
  BY TabRequest
<1>2. PICK q : q = [r EXCEPT !.at = "choose", !.list = None]
  OBVIOUS
<1>3. CASE Becomes(tab, q)
  <2>1. "choose" \in Places /\ None \in {None} \cup Lists
    BY DEF Places
  <2>2. /\ q \in Requests
        /\ q.at = "choose" /\ q.holds = r.holds /\ q.copy = r.copy /\ q.list = None
        /\ q.adopted = r.adopted
        /\ q.who = r.who /\ q.what = r.what /\ q.scope = r.scope /\ q.slot = r.slot
    BY ONLY <1>2, <2>1, r \in Requests DEF Requests
  <2>3. q = request'[tab]
    BY <1>3 DEF Becomes
  <2>4. QED
    BY <1>1, <1>3, <2>2, <2>3 DEF Turns
<1>4. QED
  BY <1>1, <1>2, <1>3, RemembersBecomes

LEMMA BecomesTyped ==
  ASSUME TypeOK, NEW tab \in Tabs, NEW q \in {None} \cup Requests, Becomes(tab, q)
  PROVE  request' \in [Tabs -> {None} \cup Requests]
BY DEF TypeOK, Becomes

-----------------------------------------------------------------------------
(* What the operators return.                                              *)

LEMMA RequestPaths ==
  ASSUME NEW r \in Requests, NEW kind \in {"company", "records"}
  PROVE  /\ Writable(r, kind) \in Paths /\ Readable(r, kind) \in Paths
         /\ Store(r, kind) \in Stores
         /\ Writable(r, kind) = <<kind, r.scope, r.slot>>
         /\ \A p \in People : /\ Path(kind, Visitor(p), First) \in Paths
                              /\ Path(kind, Account(p), First) \in Paths
                              /\ Path(kind, Account(p), r.slot) \in Paths
                              /\ [by |-> p, slot |-> First, kind |-> kind] \in Stores
BY Basics DEF Requests, Readable, Writable, Path, Paths, Scopes, Store, Stores, Visitor, Account

LEMMA LoadType ==
  ASSUME TypeOK, NEW path \in Paths
  PROVE  /\ Load(path) \in SUBSET Statements
         /\ files[path] \in {None, Torn} => Load(path) = {}
         /\ files[path] \notin {None, Torn} => Load(path) = files[path]
BY DEF TypeOK, Load

LEMMA StatementType ==
  ASSUME TypeOK, NEW r \in Requests, NEW kind \in {"company", "records"},
         Len(said) < MaxWrites
  PROVE  /\ Statement(r, kind) \in Statements
         /\ Append(said, Statement(r, kind)) \in Seq(Statements)
         /\ StoreOf(Statement(r, kind)) = Store(r, kind)
         /\ Statement(r, kind).n = Len(said) + 1
<1>1. Len(said) + 1 \in 1..MaxWrites
  BY FirmsAssumption DEF TypeOK
<1>2. Statement(r, kind) \in Statements
  BY <1>1 DEF Statement, Statements, Requests
<1>3. QED
  BY <1>2 DEF TypeOK, StoreOf, Store, Statement

\* What is read of an index is a list.
LEMMA ListLoaded ==
  ASSUME TypeOK, NumberedInv, NEW s \in Scopes
  PROVE  /\ Numbered(LoadIndex(s)) /\ LoadIndex(s) \in Lists
         /\ LoadIndex(s).active = First \/ LoadIndex(s).active \in LoadIndex(s).slots
         /\ index[s] \in Lists => index[s].slots = LoadIndex(s).slots
         /\ LoadIndex(s).active # First => index[s] \in Lists
<1>1. CASE index[s] \in {None, Torn}
  BY <1>1, Basics, NoListAssumption DEF LoadIndex, Numbered, Lists
<1>2. CASE index[s] \in Lists
  <2>1. Numbered(index[s]) /\ index[s] \notin {None, Torn}
    BY <1>2, NoListAssumption DEF NumberedInv
  <2>2. LoadIndex(s) = [index[s] EXCEPT !.active =
                           IF @ \in index[s].slots THEN @ ELSE First]
    BY <2>1 DEF LoadIndex
  <2>3. QED
    BY <1>2, <2>1, <2>2, Basics DEF Numbered, Lists
<1>3. QED
  BY <1>1, <1>2 DEF TypeOK

\* The list a becomes the list b when a firm is shown, opened or added.
Grows(a, b) == Numbered(b) /\ b \in Lists /\ a.slots \subseteq b.slots

LEMMA FirstGrows ==
  ASSUME NEW idx, Numbered(idx), NEW a \in Slots
  PROVE  Grows(idx, [idx EXCEPT !.slots = @ \cup {First}, !.active = a])
<1> DEFINE e == [idx EXCEPT !.slots = @ \cup {First}, !.active = a]
<1>1. /\ First \in Slots /\ idx.issued \in Nat /\ First <= idx.issued
      /\ idx \in Lists /\ idx.slots \in SUBSET Slots
  BY FirmsAssumption DEF Numbered, Lists, First, Slots
<1>2. e \in Lists
  BY <1>1 DEF Lists
<1>3. e.slots = idx.slots \cup {First} /\ e.issued = idx.issued
  BY <1>1 DEF Lists
<1>4. Numbered(e)
  BY <1>1, <1>2, <1>3 DEF Numbered
<1>5. QED
  BY <1>2, <1>3, <1>4 DEF Grows

LEMMA RememberedGrows ==
  ASSUME NEW idx, Numbered(idx), NEW r
  PROVE  Grows(idx, Remembered(r, idx))
<1>1. CASE r.slot \in idx.slots
  BY <1>1 DEF Remembered, Grows, Numbered
<1>2. CASE r.slot \notin idx.slots
  <2> DEFINE a == IF r.slot = First THEN First ELSE idx.active
  <2>1. Remembered(r, idx) = [idx EXCEPT !.slots = @ \cup {First}, !.active = a]
    BY <1>2 DEF Remembered
  <2>2. a \in Slots
    BY Basics DEF Numbered, Lists
  <2> HIDE DEF a
  <2>3. QED
    BY <2>1, <2>2, FirstGrows
<1>3. QED
  BY <1>1, <1>2

LEMMA IssueGrows ==
  ASSUME NEW idx, Numbered(idx), idx.issued < MaxFirms
  PROVE  Grows(idx, Issue(idx))
<1>1. /\ idx.issued + 1 \in Slots /\ First \in Slots /\ idx.issued \in Nat
      /\ idx.slots \subseteq Slots /\ \A k \in idx.slots : k \in Nat /\ k <= idx.issued
  BY FirmsAssumption DEF Numbered, Lists, First, Slots
<1>2. CASE First \notin idx.slots
  BY <1>1, <1>2, FirstGrows DEF Issue
<1>3. CASE First \in idx.slots
  <2>1. Issue(idx) = [slots |-> idx.slots \cup {idx.issued + 1},
                      active |-> idx.issued + 1, issued |-> idx.issued + 1]
    BY <1>3 DEF Issue
  <2>2. Issue(idx) \in Lists
    BY <1>1, <2>1 DEF Lists
  <2>3. QED
    BY <1>1, <2>1, <2>2 DEF Numbered, Grows
<1>4. QED
  BY <1>2, <1>3

LEMMA OpenedGrows ==
  ASSUME NEW idx, Numbered(idx), NEW k \in idx.slots
  PROVE  Grows(idx, [idx EXCEPT !.active = k])
BY DEF Numbered, Lists, Grows

-----------------------------------------------------------------------------
(* Types and places are kept.                                              *)

Typed == TypeOK /\ PlacesOK /\ NumberedInv

FilesTyped == files \in [Paths -> {None, Torn} \cup SUBSET Statements]
IndexTyped ==
  /\ index \in [Scopes -> {None, Torn} \cup Lists]
  /\ \A s \in Scopes : index[s] \in Lists => Numbered(index[s])
RestTyped ==
  /\ signed \subseteq People /\ requests \in Nat /\ crashes \in Nat
  /\ said \in Seq(Statements) /\ cleared \subseteq Statements
  /\ racedFiles \subseteq Stores /\ racedLists \subseteq Scopes

\* The request of the tab is one that may be, or there is none.
ServedOK(tab) ==
  request[tab] # None => /\ request[tab] \in Requests /\ PlaceOK(request[tab])
                         /\ request[tab].list # None => Numbered(request[tab].list)

LEMMA TypedParts ==
  ASSUME Typed
  PROVE  /\ FilesTyped /\ IndexTyped /\ RestTyped
         /\ \A tab \in Tabs : ServedOK(tab)
BY DEF Typed, TypeOK, PlacesOK, NumberedInv, Keeping, FilesTyped, IndexTyped, RestTyped, ServedOK

LEMMA TypedByOne ==
  ASSUME Typed, NEW tab \in Tabs, NEW q, Becomes(tab, q), ServedOK(tab)',
         FilesTyped', IndexTyped', RestTyped'
  PROVE  Typed'
<1>1. request'[tab] = q /\ (q # None => q \in Requests)
  BY DEF Becomes, ServedOK
<1>2. request' \in [Tabs -> {None} \cup Requests]
  BY <1>1, BecomesTyped DEF Typed
<1>3. TypeOK'
  BY <1>2 DEF FilesTyped, IndexTyped, RestTyped, TypeOK
<1>4. ASSUME NEW u \in Tabs PROVE ServedOK(u)'
  <2>1. CASE u = tab
    BY <2>1
  <2>2. CASE u # tab
    <3>1. request'[u] = request[u]
      BY <2>2 DEF Becomes
    <3>2. ServedOK(u)
      BY TypedParts
    <3>3. QED
      BY <3>1, <3>2 DEF ServedOK, PlaceOK, Adopted
  <2>3. QED
    BY <2>1, <2>2
<1>5. PlacesOK'
  BY <1>4 DEF ServedOK, PlacesOK
<1>6. NumberedInv'
  BY <1>4 DEF ServedOK, NumberedInv, IndexTyped, Keeping
<1>7. QED
  BY <1>3, <1>5, <1>6 DEF Typed

LEMMA NoneServed ==
  ASSUME NEW tab, Becomes(tab, None)
  PROVE  ServedOK(tab)'
BY DEF Becomes, ServedOK

LEMMA TurnsServed ==
  ASSUME Typed, NEW tab \in Tabs, request[tab] # None,
         NEW at, NEW holds, NEW copy, NEW list, NEW adopted,
         Turns(tab, at, holds, copy, list, adopted),
         list # None <=> at \in {"remembered", "remembering", "chosen", "choosing"},
         holds # None <=> at \in {"write", "writing", "move"},
         at \in {"write", "writing"} => holds = Store(request[tab], KindOf(request[tab])),
         at = "writing" => request[tab].what = "add record",
         at = "move" => /\ Shared /\ adopted < Len(Kinds)
                        /\ holds = [by |-> request[tab].who, slot |-> First,
                                    kind |-> Kinds[adopted + 1]],
         list # None => Numbered(list)
  PROVE  ServedOK(tab)'
<1>1. PICK r \in Requests : r = request[tab]
  BY DEF Turns
<1>2. PICK q \in Requests : q = request'[tab]
  BY DEF Turns
<1>3. /\ q.who = r.who /\ q.what = r.what /\ q.scope = r.scope /\ q.slot = r.slot
      /\ q.at = at /\ q.holds = holds /\ q.copy = copy /\ q.list = list /\ q.adopted = adopted
  BY <1>1, <1>2 DEF Turns
<1>4. Shared => r.scope \in {Visitor(r.who), Account(r.who)}
  BY <1>1 DEF Typed, PlacesOK, PlaceOK
<1>5. Store(q, KindOf(q)) = Store(r, KindOf(r))
  BY <1>3 DEF Store, KindOf
<1>6. q.at = "move" => Shared /\ q.adopted < Len(Kinds) /\ q.holds = Adopted(q)
  BY <1>1, <1>3 DEF Adopted
<1>7. PlaceOK(q)
  BY <1>1, <1>3, <1>4, <1>5, <1>6 DEF PlaceOK
<1>8. QED
  BY <1>2, <1>3, <1>7 DEF ServedOK

LEMMA PutTyped ==
  ASSUME FilesTyped, NEW path \in Paths, NEW content \in {None, Torn} \cup SUBSET Statements,
         Put(path, content)
  PROVE  /\ FilesTyped' /\ files'[path] = content
         /\ \A p \in Paths : p # path => files'[p] = files[p]
BY DEF FilesTyped, Put

LEMMA IndexPut ==
  ASSUME IndexTyped, NEW s \in Scopes, NEW idx, idx = Torn \/ (idx \in Lists /\ Numbered(idx)),
         index' = [index EXCEPT ![s] = idx]
  PROVE  /\ IndexTyped' /\ index'[s] = idx
         /\ \A x \in Scopes : x # s => index'[x] = index[x]
<1>1. /\ index' \in [Scopes -> {None, Torn} \cup Lists] /\ index'[s] = idx
      /\ \A x \in Scopes : x # s => index'[x] = index[x]
  BY DEF IndexTyped
<1>2. \A x \in Scopes : index'[x] \in Lists => Numbered(index'[x])
  BY <1>1, NoListAssumption DEF IndexTyped
<1>3. QED
  BY <1>1, <1>2 DEF IndexTyped

LEMMA SameFilesTyped ==
  ASSUME Typed, UNCHANGED files PROVE FilesTyped'
BY DEF Typed, TypeOK, FilesTyped

LEMMA SameIndexTyped ==
  ASSUME Typed, UNCHANGED index PROVE IndexTyped'
BY TypedParts DEF IndexTyped

LEMMA TouchTyped ==
  ASSUME Typed, NEW tab, NEW store \in Stores, Touches(tab, store)
  PROVE  /\ racedFiles' \subseteq Stores /\ racedFiles \subseteq racedFiles'
         /\ store \notin racedFiles' => ~HeldByOther(tab, store) /\ store \notin racedFiles
BY DEF Typed, TypeOK, Touches

\* Taking a store to read it.
LEMMA TypedTakes ==
  ASSUME Typed, NEW tab \in Tabs, request[tab] # None, request[tab].at = "start",
         NEW kind \in {"company", "records"}, kind = KindOf(request[tab]),
         Takes(tab, kind),
         UNCHANGED <<files, index, signed, requests, said, cleared, racedLists, crashes>>
  PROVE  Typed'
<1>1. PICK r \in Requests : r = request[tab]
  BY TabRequest DEF Typed
<1>2. Turns(tab, "write", Store(r, kind), Load(Readable(r, kind)), r.list, r.adopted)
  BY <1>1, TakesTurns DEF Typed
<1>3. r.list = None /\ Store(r, kind) # None /\ Store(r, kind) \in Stores
  <2>1. PlaceOK(r)
    BY <1>1 DEF Typed, PlacesOK
  <2>2. QED
    BY <1>1, <2>1, RequestPaths, NoListAssumption DEF PlaceOK
<1>4. ServedOK(tab)'
  BY <1>1, <1>2, <1>3, TurnsServed
<1>5. FilesTyped' /\ IndexTyped'
  BY SameFilesTyped, SameIndexTyped
<1>6. racedFiles' \subseteq Stores
  BY <1>1, <1>3, TouchTyped DEF Takes
<1>7. RestTyped'
  BY <1>6, TypedParts DEF RestTyped
<1>8. Becomes(tab, request'[tab])
  BY <1>2 DEF Turns
<1>9. QED
  BY <1>4, <1>5, <1>7, <1>8, TypedByOne

\* Reading the index to save a list in its place.
LEMMA TypedReads ==
  ASSUME Typed, NEW tab \in Tabs, request[tab] # None,
         request[tab].at \in {"remember", "choose"}, NEW place \in {"remembered", "chosen"},
         NEW idx, Numbered(idx), Reads(tab, place, idx)
  PROVE  Typed'
<1>1. PICK r \in Requests : r = request[tab]
  BY TabRequest DEF Typed
<1>2. place \in Places /\ idx \in Lists /\ idx # None
  BY NoListAssumption DEF Places, Numbered
<1>3. Turns(tab, place, r.holds, r.copy, idx, r.adopted)
  BY <1>1, <1>2, ReadsTurns DEF Typed
<1>4. r.holds = None
  BY <1>1 DEF Typed, PlacesOK, PlaceOK
<1>5. ServedOK(tab)'
  BY <1>1, <1>2, <1>3, <1>4, TurnsServed
<1>6. FilesTyped' /\ IndexTyped'
  BY SameFilesTyped, SameIndexTyped DEF Reads
<1>7. racedLists' \subseteq Scopes
  BY <1>1 DEF Reads, Typed, TypeOK, Requests
<1>8. RestTyped'
  BY <1>7, TypedParts DEF RestTyped, Reads
<1>9. Becomes(tab, request'[tab])
  BY <1>3 DEF Turns
<1>10. QED
  BY <1>5, <1>6, <1>8, <1>9, TypedByOne

LEMMA TypedRemembers ==
  ASSUME Typed, NEW tab \in Tabs, request[tab] # None,
         request[tab].at \in {"remember", "remembering"}, Remembers(tab),
         FilesTyped', IndexTyped', RestTyped'
  PROVE  Typed'
<1>1. PICK r \in Requests : r = request[tab]
  BY TabRequest DEF Typed
<1>2. CASE Becomes(tab, None)
  BY <1>2, NoneServed, TypedByOne
<1>3. CASE Turns(tab, "choose", r.holds, r.copy, None, r.adopted)
  <2>1. r.holds = None
    BY <1>1 DEF Typed, PlacesOK, PlaceOK
  <2>2. ServedOK(tab)'
    BY <1>1, <1>3, <2>1, TurnsServed
  <2>3. Becomes(tab, request'[tab])
    BY <1>3 DEF Turns
  <2>4. QED
    BY <2>2, <2>3, TypedByOne
<1>4. QED
  BY <1>1, <1>2, <1>3, RemembersTurns DEF Typed

\* A request that ends.
LEMMA TypedAnswered ==
  ASSUME Typed, NEW tab \in Tabs, Answered(tab), FilesTyped', IndexTyped', RestTyped'
  PROVE  Typed'
BY AnsweredBecomes, NoneServed, TypedByOne DEF Typed

\* A request is of the kind its place tells.
LEMMA ServedIs ==
  ASSUME Typed, NEW tab \in Tabs, NEW place, At(tab, place)
  PROVE  /\ request[tab] # None /\ request[tab] \in Requests /\ PlaceOK(request[tab])
         /\ request[tab].at = place
BY TabRequest DEF Typed, At, PlacesOK

LEMMA FreshServed ==
  ASSUME Typed, NEW p \in People, NEW what \in Acts, NEW which \in {None} \cup Slots,
         NEW q, q = [who |-> p, what |-> what, which |-> which, scope |-> VisitorScope(p),
                     slot |-> LoadIndex(VisitorScope(p)).active, signed |-> p \in signed,
                     adopted |-> 0, at |-> Begins(what), holds |-> None, copy |-> {},
                     list |-> None]
  PROVE  q \in Requests /\ PlaceOK(q)
<1>1. PICK s \in Scopes : s = VisitorScope(p)
  BY DEF VisitorScope, Visitor, Account, Scopes
<1>2. Shared => s \in {Visitor(p), Account(p)}
  BY <1>1 DEF VisitorScope
<1>3. PICK k \in Slots : k = LoadIndex(s).active
  <2>1. LoadIndex(s) \in Lists
    BY <1>1, ListLoaded DEF Typed
  <2>2. QED
    BY <2>1 DEF Lists
<1>4. PICK b \in {"start", "remember", "choose"} : b = Begins(what)
  BY DEF Begins
<1> DEFINE g == p \in signed
<1>5. g \in BOOLEAN
  OBVIOUS
<1>6. q = [who |-> p, what |-> what, which |-> which, scope |-> s, slot |-> k, signed |-> g,
           adopted |-> 0, at |-> b, holds |-> None, copy |-> {}, list |-> None]
  BY <1>1, <1>3, <1>4
<1> HIDE DEF g
<1>7. q \in Requests
  BY ONLY <1>5, <1>6, p \in People, what \in Acts, which \in {None} \cup Slots, s \in Scopes,
     k \in Slots, b \in {"start", "remember", "choose"} DEF Requests, Places
<1>8. q.list = None /\ q.holds = None /\ q.at = b /\ q.who = p /\ q.scope = s
  BY <1>6
<1>9. QED
  BY <1>2, <1>4, <1>7, <1>8 DEF PlaceOK

LEMMA TypedArrive ==
  ASSUME Typed, NEW tab \in Tabs, NEW p \in People, NEW what \in Acts,
         NEW which \in {None} \cup Slots, Arrive(tab, p, what, which)
  PROVE  Typed'
<1>1. PICK q : q = [who |-> p, what |-> what, which |-> which, scope |-> VisitorScope(p),
                    slot |-> LoadIndex(VisitorScope(p)).active, signed |-> p \in signed,
                    adopted |-> 0, at |-> Begins(what), holds |-> None, copy |-> {},
                    list |-> None]
  OBVIOUS
<1>2. q \in Requests /\ PlaceOK(q)
  BY <1>1, FreshServed
<1>3. q.list = None
  BY <1>1
<1>4. request' = [request EXCEPT ![tab] = q]
  BY <1>1 DEF Arrive
<1>5. Becomes(tab, q)
  BY <1>4 DEF Typed, TypeOK, Becomes
<1>6. ServedOK(tab)'
  BY <1>2, <1>3, <1>5 DEF Becomes, ServedOK
<1>7. FilesTyped' /\ IndexTyped'
  BY SameFilesTyped, SameIndexTyped DEF Arrive
<1>8. /\ requests' = requests + 1
      /\ UNCHANGED <<signed, crashes, said, cleared, racedFiles, racedLists>>
  BY DEF Arrive, history
<1>9. RestTyped'
  BY <1>8, TypedParts DEF RestTyped
<1>10. QED
  BY <1>5, <1>6, <1>7, <1>9, TypedByOne

LEMMA TypedSaveProfile ==
  ASSUME Typed, NEW tab \in Tabs, SaveProfile(tab)
  PROVE  Typed'
<1>1. PICK r \in Requests : r = request[tab] /\ PlaceOK(r) /\ r.at = "start"
  BY ServedIs DEF SaveProfile, Serving
<1>2. "remember" \in Places /\ r # None
  BY <1>1 DEF Places, SaveProfile, Serving, At
<1>3. Turns(tab, "remember", r.holds, r.copy, r.list, r.adopted)
  BY <1>1, <1>2, GoesTurns DEF SaveProfile, Typed
<1>4. r.list = None /\ r.holds = None
  BY <1>1 DEF PlaceOK
<1>5. ServedOK(tab)'
  BY <1>1, <1>2, <1>3, <1>4, TurnsServed
<1>6. "company" \in {"company", "records"} /\ Len(said) < MaxWrites
  BY DEF SaveProfile, Says
<1>7. /\ Statement(r, "company") \in Statements /\ Store(r, "company") \in Stores
      /\ Writable(r, "company") \in Paths
      /\ Append(said, Statement(r, "company")) \in Seq(Statements)
  BY <1>6, StatementType, RequestPaths DEF Typed
<1>8. FilesTyped'
  BY <1>1, <1>7, PutTyped, TypedParts DEF SaveProfile
<1>9. IndexTyped'
  BY SameIndexTyped DEF SaveProfile
<1>10. racedFiles' \subseteq Stores
  BY <1>1, <1>7, TouchTyped DEF SaveProfile
<1>11. RestTyped'
  BY <1>1, <1>7, <1>10, TypedParts DEF RestTyped, SaveProfile, Says
<1>12. Becomes(tab, request'[tab])
  BY <1>3 DEF Turns
<1>13. QED
  BY <1>5, <1>8, <1>9, <1>11, <1>12, TypedByOne

LEMMA TypedReadStore ==
  ASSUME Typed, NEW tab \in Tabs, ReadProfile(tab) \/ ReadRecords(tab)
  PROVE  Typed'
<1>1. /\ request[tab] # None /\ request[tab].at = "start"
      /\ UNCHANGED <<files, index, signed, requests, said, cleared, racedLists, crashes>>
  BY DEF ReadProfile, ReadRecords, Serving, At
<1>2. CASE Answered(tab) /\ UNCHANGED racedFiles
  <2>1. FilesTyped' /\ IndexTyped'
    BY <1>1, SameFilesTyped, SameIndexTyped
  <2>2. RestTyped'
    BY <1>1, <1>2, TypedParts DEF RestTyped
  <2>3. QED
    BY <1>2, <2>1, <2>2, TypedAnswered
<1>3. CASE \E kind \in {"company", "records"} :
             kind = KindOf(request[tab]) /\ Takes(tab, kind)
  BY <1>1, <1>3, TypedTakes
<1>4. QED
  BY <1>2, <1>3 DEF ReadProfile, ReadRecords, Serving, KindOf

\* What is saved is what was read, with a statement.
LEMMA AddedType ==
  ASSUME Typed, NEW tab \in Tabs, request[tab] # None, Says(tab, "records")
  PROVE  /\ Added(tab) \in SUBSET Statements /\ said' \in Seq(Statements)
         /\ Added(tab) = request[tab].copy \cup {Statement(request[tab], "records")}
<1>1. PICK r \in Requests : r = request[tab]
  BY TabRequest DEF Typed
<1>2. "records" \in {"company", "records"} /\ Len(said) < MaxWrites
  BY DEF Says
<1>3. Statement(r, "records") \in Statements /\ Append(said, Statement(r, "records")) \in Seq(Statements)
  BY <1>2, StatementType DEF Typed
<1>4. r.copy \in SUBSET Statements
  BY Unchanged
<1>5. QED
  BY <1>1, <1>3, <1>4 DEF Added, Says

LEMMA TypedSaves ==
  ASSUME Typed, NEW tab \in Tabs, SaveFrameworks(tab) \/ SaveRecords(tab) \/ WriteRecords(tab)
  PROVE  Typed'
<1>1. PICK r \in Requests : r = request[tab] /\ PlaceOK(r)
  BY ServedIs DEF SaveFrameworks, SaveRecords, WriteRecords, Serving
<1>2. /\ request[tab] # None /\ Answered(tab)
      /\ UNCHANGED <<index, signed, requests, cleared, racedFiles, racedLists, crashes>>
  BY DEF SaveFrameworks, SaveRecords, WriteRecords, Serving, At, history
<1>3. IndexTyped'
  BY <1>2, SameIndexTyped
<1>4. FilesTyped /\ r.copy \in SUBSET Statements
  BY TypedParts, Unchanged
<1>5. CASE SaveFrameworks(tab)
  <2>1. FilesTyped'
    <3>1. CASE UNCHANGED files
      BY <3>1, SameFilesTyped
    <3>2. CASE Put(Writable(r, "company"), r.copy)
      BY <1>4, <3>2, PutTyped, RequestPaths
    <3>3. QED
      BY <1>1, <1>5, <3>1, <3>2 DEF SaveFrameworks
  <2>2. RestTyped'
    BY <1>2, <1>5, TypedParts DEF RestTyped, SaveFrameworks, history
  <2>3. QED
    BY <1>2, <1>3, <2>1, <2>2, TypedAnswered
<1>6. CASE SaveRecords(tab) \/ WriteRecords(tab)
  <2>1. Says(tab, "records")
    BY <1>6 DEF SaveRecords, WriteRecords
  <2>2. Added(tab) \in SUBSET Statements /\ said' \in Seq(Statements)
    BY <1>2, <2>1, AddedType
  <2>3. RestTyped'
    BY <1>2, <2>2, TypedParts DEF RestTyped
  <2>4. FilesTyped'
    <3>1. CASE UNCHANGED files
      BY <3>1, SameFilesTyped
    <3>2. CASE \E path \in Paths : Put(path, Added(tab))
      BY <1>4, <2>2, <3>2, PutTyped
    <3>3. Writable(r, "records") \in Paths /\ Opened(r) \in Paths
      BY RequestPaths DEF Opened, Requests
    <3>4. QED
      BY <1>1, <1>6, <3>1, <3>2, <3>3 DEF SaveRecords, WriteRecords
  <2>5. QED
    BY <1>2, <1>3, <2>3, <2>4, TypedAnswered
<1>7. QED
  BY <1>5, <1>6

LEMMA TypedOpenRecords ==
  ASSUME Typed, NEW tab \in Tabs, OpenRecords(tab)
  PROVE  Typed'
<1>1. PICK r \in Requests : r = request[tab] /\ PlaceOK(r) /\ r.at = "write" /\ r.what = "add record"
  BY ServedIs DEF OpenRecords, Serving
<1>2. "writing" \in Places /\ r # None
  BY <1>1 DEF Places, OpenRecords, Serving, At
<1>3. Turns(tab, "writing", r.holds, r.copy, r.list, r.adopted)
  BY <1>1, <1>2, GoesTurns DEF OpenRecords, Typed
<1>4. r.list = None /\ r.holds = Store(r, KindOf(r)) /\ r.holds # None
  BY <1>1 DEF PlaceOK
<1>5. ServedOK(tab)'
  BY <1>1, <1>2, <1>3, <1>4, TurnsServed
<1>6. FilesTyped'
  BY <1>1, PutTyped, TypedParts, RequestPaths DEF OpenRecords
<1>7. IndexTyped'
  BY SameIndexTyped DEF OpenRecords
<1>8. RestTyped'
  BY TypedParts DEF RestTyped, OpenRecords, history
<1>9. Becomes(tab, request'[tab])
  BY <1>3 DEF Turns
<1>10. QED
  BY <1>5, <1>6, <1>7, <1>8, <1>9, TypedByOne

LEMMA TypedClearRecords ==
  ASSUME Typed, NEW tab \in Tabs, ClearRecords(tab)
  PROVE  Typed'
<1>1. PICK r \in Requests : r = request[tab]
  BY ServedIs DEF ClearRecords, Serving
<1>2. Readable(r, "records") \in Paths /\ Store(r, "records") \in Stores
  BY RequestPaths
<1>3. FilesTyped'
  BY <1>1, <1>2, PutTyped, TypedParts DEF ClearRecords
<1>4. IndexTyped'
  BY SameIndexTyped DEF ClearRecords
<1>5. cleared' \subseteq Statements
  BY <1>1, <1>2, LoadType, TypedParts DEF ClearRecords, RestTyped, Typed
<1>6. racedFiles' \subseteq Stores
  BY <1>1, <1>2, TouchTyped DEF ClearRecords
<1>7. RestTyped'
  BY <1>5, <1>6, TypedParts DEF RestTyped, ClearRecords
<1>8. QED
  BY <1>3, <1>4, <1>7, TypedAnswered DEF ClearRecords

LEMMA TypedIndexRead ==
  ASSUME Typed, NEW tab \in Tabs, Remember(tab) \/ NewFirm(tab) \/ OpenFirm(tab)
  PROVE  Typed'
<1>1. PICK r \in Requests : r = request[tab] /\ r.at \in {"remember", "choose"}
  BY ServedIs DEF Remember, NewFirm, OpenFirm, Serving
<1>2. PICK idx \in Lists : idx = LoadIndex(r.scope) /\ Numbered(idx)
  BY ListLoaded DEF Typed, Requests
<1>3. request[tab] # None
  BY DEF Remember, NewFirm, OpenFirm, Serving, At
<1>4. CASE /\ Answered(tab) \/ (Remembers(tab) /\ r.at = "remember")
           /\ UNCHANGED <<files, index, signed, requests, history, crashes>>
  <2>1. FilesTyped' /\ IndexTyped'
    BY <1>4, SameFilesTyped, SameIndexTyped
  <2>2. RestTyped'
    BY <1>4, TypedParts DEF RestTyped, history
  <2>3. CASE Answered(tab)
    BY <2>1, <2>2, <2>3, TypedAnswered
  <2>4. CASE Remembers(tab) /\ r.at = "remember"
    BY <1>1, <1>3, <2>1, <2>2, <2>4, TypedRemembers
  <2>5. QED
    BY <1>4, <2>3, <2>4
<1>5. CASE \E place \in {"remembered", "chosen"} : \E l : Numbered(l) /\ Reads(tab, place, l)
  BY <1>1, <1>3, <1>5, TypedReads
<1>6. CASE Remember(tab)
  <2>1. Numbered(Remembered(r, idx))
    BY <1>2, RememberedGrows DEF Grows
  <2>2. QED
    BY <1>1, <1>2, <1>4, <1>5, <1>6, <2>1 DEF Remember, At
<1>7. CASE NewFirm(tab)
  <2>1. idx.issued < MaxFirms => Numbered(Issue(idx))
    BY <1>2, IssueGrows DEF Grows
  <2>2. QED
    BY <1>1, <1>2, <1>5, <1>7, <2>1 DEF NewFirm
<1>8. CASE OpenFirm(tab)
  <2>1. \A k \in idx.slots : Numbered([idx EXCEPT !.active = k])
    BY <1>2, OpenedGrows DEF Grows
  <2>2. QED
    BY <1>1, <1>2, <1>4, <1>5, <1>8, <2>1 DEF OpenFirm
<1>9. QED
  BY <1>6, <1>7, <1>8

LEMMA TypedIndexSaved ==
  ASSUME Typed, NEW tab \in Tabs, OpenIndex(tab) \/ WriteIndex(tab)
  PROVE  Typed'
<1>1. PICK r \in Requests : r = request[tab] /\ PlaceOK(r)
  BY ServedIs DEF OpenIndex, WriteIndex
<1>2. /\ request[tab] # None /\ r.scope \in Scopes /\ r.list \in Lists /\ Numbered(r.list)
      /\ r.list # None /\ r.holds = None
      /\ r.at \in {"remembered", "remembering", "chosen", "choosing"}
  BY <1>1, TypedParts, Unchanged DEF OpenIndex, WriteIndex, At, PlaceOK, ServedOK
<1>3. FilesTyped'
  BY SameFilesTyped DEF OpenIndex, WriteIndex
<1>4. RestTyped'
  BY TypedParts DEF RestTyped, OpenIndex, WriteIndex, history
<1>5. IndexTyped /\ (OpenIndex(tab) => index' = [index EXCEPT ![r.scope] = Torn])
      /\ (WriteIndex(tab) => index' = [index EXCEPT ![r.scope] = r.list])
  BY <1>1, TypedParts DEF OpenIndex, WriteIndex
<1>6. IndexTyped'
  BY <1>2, <1>5, IndexPut
<1>7. CASE \E place \in {"remembering", "choosing"} : Goes(tab, place)
  <2>1. PICK place \in {"remembering", "choosing"} : Goes(tab, place)
    BY <1>7
  <2>2. Turns(tab, place, r.holds, r.copy, r.list, r.adopted)
    BY <1>1, <1>2, <2>1, GoesTurns DEF Typed, Places
  <2>3. ServedOK(tab)'
    BY <1>1, <1>2, <2>2, TurnsServed
  <2>4. Becomes(tab, request'[tab])
    BY <2>2 DEF Turns
  <2>5. QED
    BY <1>3, <1>4, <1>6, <2>3, <2>4, TypedByOne
<1>8. CASE WriteIndex(tab)
  <2>1. CASE Answered(tab)
    BY <1>3, <1>4, <1>6, <2>1, TypedAnswered
  <2>2. CASE Remembers(tab) /\ At(tab, "remembering")
    BY <1>2, <1>3, <1>4, <1>6, <2>2, TypedRemembers DEF At
  <2>3. QED
    BY <1>8, <2>1, <2>2 DEF WriteIndex
<1>9. QED
  BY <1>7, <1>8 DEF OpenIndex

\* What adoption makes of the request: it holds a store, or goes on to the next.
LEMMA AdoptionTurns ==
  ASSUME Typed, NEW tab \in Tabs, LookFor(tab) \/ Move(tab)
  PROVE  LET r == request[tab]
         IN  /\ r \in Requests /\ r.list = None /\ r.adopted < Len(Kinds) /\ r.adopted \in Nat
             /\ r.what = "sign in" /\ Shared /\ Adopted(r) \in Stores
             /\ Kinds[r.adopted + 1] \in {"company", "records"}
             /\ \/ /\ r.at = "start" /\ r.holds = None /\ Touches(tab, Adopted(r))
                   /\ files[From(Adopted(r))] # None /\ files[To(Adopted(r))] = None
                   /\ UNCHANGED files
                   /\ Turns(tab, "move", Adopted(r), r.copy, r.list, r.adopted)
                \/ /\ r.at = "start" /\ r.holds = None /\ UNCHANGED <<files, racedFiles>>
                   /\ Turns(tab, "start", r.holds, r.copy, r.list, r.adopted + 1)
                \/ /\ r.at = "move" /\ r.holds = Adopted(r) /\ Move(tab)
                   /\ Turns(tab, "start", None, r.copy, r.list, r.adopted + 1)
<1>1. PICK r \in Requests : r = request[tab] /\ PlaceOK(r) /\ r.at \in {"start", "move"}
  BY ServedIs DEF LookFor, Move, Serving
<1>2. /\ r.list = None /\ r.adopted < Len(Kinds) /\ r.adopted \in Nat /\ Shared
      /\ r.what = "sign in" /\ r.who \in People
  BY <1>1, Unchanged DEF LookFor, Move, Serving, At, PlaceOK
<1>3. PICK n \in Nat : n = r.adopted + 1
  <2>1. PICK a \in Nat : a = r.adopted
    BY <1>2
  <2>2. a + 1 \in Nat
    OBVIOUS
  <2>3. QED
    BY <2>1, <2>2
<1>4. Kinds[n] \in {"company", "records"}
  <2>1. PICK a \in Nat : a = r.adopted
    BY <1>2
  <2>2. a < 2
    BY <1>2, <2>1, Basics
  <2>3. n = 1 \/ n = 2
    BY <1>3, <2>1, <2>2
  <2>4. QED
    BY <2>3, Basics
<1>5. PICK s \in Stores : s = Adopted(r)
  BY <1>2, <1>3, <1>4, Basics DEF Adopted, Stores
<1>6. CASE Move(tab)
  <2>1. r.at = "move" /\ r.holds = Adopted(r)
    BY <1>1, <1>6 DEF Move, Serving, At, PlaceOK
  <2>2. PICK q : q = [r EXCEPT !.at = "start", !.holds = None, !.adopted = n]
    OBVIOUS
  <2>3. Becomes(tab, q)
    BY <1>1, <1>3, <1>6, <2>2 DEF Move, Typed, TypeOK, Becomes
  <2>4. /\ q \in Requests /\ q.at = "start" /\ q.holds = None /\ q.copy = r.copy
        /\ q.list = r.list /\ q.adopted = n
        /\ q.who = r.who /\ q.what = r.what /\ q.scope = r.scope /\ q.slot = r.slot
    BY ONLY <2>2, n \in Nat, r \in Requests DEF Requests, Places
  <2>5. q = request'[tab]
    BY <2>3 DEF Becomes
  <2>6. Turns(tab, "start", None, r.copy, r.list, n)
    BY <1>1, <2>3, <2>4, <2>5 DEF Turns
  <2>7. QED
    BY <1>1, <1>2, <1>3, <1>5, <1>4, <1>6, <2>1, <2>6
<1>7. CASE LookFor(tab) /\ request' = [request EXCEPT ![tab].at = "move", ![tab].holds = s]
                        /\ Touches(tab, s) /\ files[From(s)] # None /\ files[To(s)] = None
  <2>1. r.at = "start" /\ r.holds = None /\ UNCHANGED files
    BY <1>1, <1>7 DEF LookFor, Serving, At, PlaceOK
  <2>2. PICK q : q = [r EXCEPT !.at = "move", !.holds = s]
    OBVIOUS
  <2>3. Becomes(tab, q)
    BY <1>1, <1>7, <2>2 DEF Typed, TypeOK, Becomes
  <2>4. /\ q \in Requests /\ q.at = "move" /\ q.holds = s /\ q.copy = r.copy
        /\ q.list = r.list /\ q.adopted = r.adopted
        /\ q.who = r.who /\ q.what = r.what /\ q.scope = r.scope /\ q.slot = r.slot
    BY ONLY <2>2, s \in Stores, r \in Requests DEF Requests, Places
  <2>5. q = request'[tab]
    BY <2>3 DEF Becomes
  <2>6. Turns(tab, "move", s, r.copy, r.list, r.adopted)
    BY <1>1, <2>3, <2>4, <2>5 DEF Turns
  <2>7. QED
    BY <1>1, <1>2, <1>3, <1>5, <1>4, <1>7, <2>1, <2>6
<1>8. CASE LookFor(tab) /\ request' = [request EXCEPT ![tab].adopted = @ + 1]
                        /\ UNCHANGED racedFiles
  <2>1. r.at = "start" /\ r.holds = None /\ UNCHANGED files
    BY <1>1, <1>8 DEF LookFor, Serving, At, PlaceOK
  <2>2. PICK q : q = [r EXCEPT !.adopted = n]
    OBVIOUS
  <2>3. Becomes(tab, q)
    BY <1>1, <1>3, <1>8, <2>2 DEF Typed, TypeOK, Becomes
  <2>4. /\ q \in Requests /\ q.at = r.at /\ q.holds = r.holds /\ q.copy = r.copy
        /\ q.list = r.list /\ q.adopted = n
        /\ q.who = r.who /\ q.what = r.what /\ q.scope = r.scope /\ q.slot = r.slot
    BY ONLY <2>2, n \in Nat, r \in Requests DEF Requests
  <2>5. q = request'[tab]
    BY <2>3 DEF Becomes
  <2>6. Turns(tab, "start", r.holds, r.copy, r.list, n)
    BY <1>1, <2>1, <2>3, <2>4, <2>5 DEF Turns
  <2>7. QED
    BY <1>1, <1>2, <1>3, <1>5, <1>4, <1>8, <2>1, <2>6
<1>9. /\ From(s) = Path(Kinds[r.adopted + 1], Visitor(r.who), First)
      /\ To(s) = Path(Kinds[r.adopted + 1], Account(r.who), First)
  BY <1>5 DEF From, To, Adopted
<1>10. QED
  BY <1>1, <1>5, <1>6, <1>7, <1>8, <1>9 DEF LookFor, Adopted, Adoptable

LEMMA TypedAdoption ==
  ASSUME Typed, NEW tab \in Tabs, LookFor(tab) \/ Move(tab)
  PROVE  Typed'
<1>1. PICK r \in Requests :
        /\ r = request[tab] /\ r.list = None /\ r.adopted < Len(Kinds) /\ r.adopted \in Nat
        /\ r.what = "sign in" /\ Shared /\ Adopted(r) \in Stores
        /\ Kinds[r.adopted + 1] \in {"company", "records"}
        /\ \/ /\ r.at = "start" /\ r.holds = None /\ Touches(tab, Adopted(r))
              /\ Turns(tab, "move", Adopted(r), r.copy, r.list, r.adopted)
           \/ /\ r.at = "start" /\ r.holds = None /\ UNCHANGED <<files, racedFiles>>
              /\ Turns(tab, "start", r.holds, r.copy, r.list, r.adopted + 1)
           \/ /\ r.at = "move" /\ r.holds = Adopted(r) /\ Move(tab)
              /\ Turns(tab, "start", None, r.copy, r.list, r.adopted + 1)
  BY AdoptionTurns
<1>2. request[tab] # None
  BY DEF LookFor, Move, Serving, At
<1>3. Becomes(tab, request'[tab])
  BY <1>1 DEF Turns
<1>4. ServedOK(tab)'
  <2>1. CASE Turns(tab, "start", None, r.copy, r.list, r.adopted + 1)
    <3>1. PICK n : n = r.adopted + 1
      OBVIOUS
    <3>2. Turns(tab, "start", None, r.copy, None, n)
      BY <1>1, <2>1, <3>1
    <3>3. QED
      BY <1>2, <3>2, TurnsServed
  <2>2. CASE Turns(tab, "move", Adopted(r), r.copy, r.list, r.adopted)
    <3>1. Adopted(r) = [by |-> r.who, slot |-> First, kind |-> Kinds[r.adopted + 1]]
          /\ Adopted(r) # None
      BY <1>1, NoListAssumption DEF Adopted
    <3>2. QED
      BY <1>1, <1>2, <2>2, <3>1, TurnsServed
  <2>3. QED
    BY <1>1, <2>1, <2>2
<1>5. FilesTyped'
  <2>1. CASE UNCHANGED files
    BY <2>1, SameFilesTyped
  <2>2. CASE Move(tab) /\ files' # files
    <3> DEFINE from == Path(Kinds[r.adopted + 1], Visitor(r.who), First)
               to == Path(Kinds[r.adopted + 1], Account(r.who), First)
    <3>1. files' = [files EXCEPT ![to] = files[from], ![from] = None]
      BY <1>1, <2>2 DEF Move
    <3>2. from \in Paths /\ to \in Paths
      BY <1>1, RequestPaths, Unchanged
    <3> HIDE DEF from, to
    <3>3. QED
      BY <3>1, <3>2, TypedParts DEF FilesTyped
  <2>3. QED
    BY <2>1, <2>2 DEF LookFor
<1>6. IndexTyped'
  BY SameIndexTyped DEF LookFor, Move
<1>7. racedFiles' \subseteq Stores
  BY <1>1, TouchTyped, TypedParts DEF RestTyped, Move, history
<1>8. RestTyped'
  BY <1>7, TypedParts DEF RestTyped, LookFor, Move, history
<1>9. QED
  BY <1>3, <1>4, <1>5, <1>6, <1>8, TypedByOne

LEMMA TypedSign ==
  ASSUME Typed, NEW tab \in Tabs, SignIn(tab) \/ SignOut(tab)
  PROVE  Typed'
<1>1. request[tab] \in Requests /\ request[tab].who \in People
  BY ServedIs, Unchanged DEF SignIn, SignOut, Serving
<1>2. FilesTyped' /\ IndexTyped'
  BY SameFilesTyped, SameIndexTyped DEF SignIn, SignOut
<1>3. RestTyped'
  BY <1>1, TypedParts DEF RestTyped, SignIn, SignOut, history
<1>4. QED
  BY <1>2, <1>3, TypedAnswered DEF SignIn, SignOut

LEMMA TypedCrash == Typed /\ Crash => Typed'
<1>1. SUFFICES ASSUME Typed, Crash PROVE Typed'
  OBVIOUS
<1>2. request' = [tab \in Tabs |-> None]
  BY <1>1 DEF Crash
<1>3. racedFiles' \subseteq Stores
  <2>1. ASSUME NEW tab \in Tabs, At(tab, "writing") PROVE request[tab].holds \in Stores
    BY <1>1, <2>1, ServedIs, Unchanged DEF PlaceOK
  <2>2. QED
    BY <1>1, <2>1 DEF Crash, Typed, TypeOK
<1>4. racedLists' \subseteq Scopes
  <2>1. ASSUME NEW tab \in Tabs, At(tab, "remembering") \/ At(tab, "choosing")
        PROVE  request[tab].scope \in Scopes
    BY <1>1, <2>1, ServedIs, Unchanged
  <2>2. QED
    BY <1>1, <2>1 DEF Crash, Typed, TypeOK
<1>5. crashes' \in Nat
  BY <1>1 DEF Crash, Typed, TypeOK
<1>6. TypeOK'
  BY <1>1, <1>2, <1>3, <1>4, <1>5 DEF Crash, Typed, TypeOK
<1>7. PlacesOK' /\ NumberedInv'
  BY <1>1, <1>2 DEF Crash, PlacesOK, NumberedInv, Keeping, Typed
<1>8. QED
  BY <1>6, <1>7 DEF Typed

LEMMA TypedInit == Init => Typed
<1>1. SUFFICES ASSUME Init PROVE Typed
  OBVIOUS
<1>2. TypeOK
  BY <1>1 DEF Init, TypeOK
<1>3. PlacesOK /\ NumberedInv
  BY <1>1, NoListAssumption DEF Init, PlacesOK, NumberedInv, Keeping
<1>4. QED
  BY <1>2, <1>3 DEF Typed

LEMMA TypedStep == Typed /\ [Next]_vars => Typed'
<1>1. SUFFICES ASSUME Typed, [Next]_vars PROVE Typed'
  OBVIOUS
<1>2. CASE UNCHANGED vars
  BY <1>1, <1>2 DEF vars, Typed, TypeOK, PlacesOK, PlaceOK, NumberedInv, Keeping
<1>3. CASE \E tab \in Tabs : SaveProfile(tab) \/ ReadProfile(tab) \/ SaveFrameworks(tab)
             \/ ReadRecords(tab) \/ SaveRecords(tab) \/ OpenRecords(tab) \/ WriteRecords(tab)
             \/ ClearRecords(tab)
  BY <1>1, <1>3, TypedSaveProfile, TypedReadStore, TypedSaves, TypedOpenRecords,
     TypedClearRecords
<1>4. CASE \E tab \in Tabs : Remember(tab) \/ NewFirm(tab) \/ OpenFirm(tab)
             \/ OpenIndex(tab) \/ WriteIndex(tab)
  BY <1>1, <1>4, TypedIndexRead, TypedIndexSaved
<1>5. CASE \E tab \in Tabs : LookFor(tab) \/ Move(tab) \/ SignIn(tab) \/ SignOut(tab)
  BY <1>1, <1>5, TypedAdoption, TypedSign
<1>6. CASE \E tab \in Tabs, p \in People, what \in Acts, which \in {None} \cup Slots :
             Arrive(tab, p, what, which)
  BY <1>1, <1>6, TypedArrive
<1>7. "open firm" \in Acts
  BY DEF Acts
<1>8. QED
  BY <1>1, <1>2, <1>3, <1>4, <1>5, <1>6, <1>7, TypedCrash DEF Next

\* Whatever requests come, in whatever order they are served and wherever the server
\* dies, each file and each list is whole or half written, and each request is at a
\* place of its route with what it holds there.
THEOREM FirmsAlwaysTyped == Spec => []TypeOK
<1>1. Spec => []Typed
  BY TypedInit, TypedStep, PTL DEF Spec
<1>2. Typed => TypeOK
  BY DEF Typed
<1>3. QED
  BY <1>1, <1>2, PTL

-----------------------------------------------------------------------------
(* The list of a scope no request has read under another.                  *)

LEMMA NamesParts ==
  ASSUME NEW s, NEW k
  PROVE  /\ Names(s, k) <=>
              \/ index[s] \in Lists /\ k \in index[s].slots
              \/ \E t \in Tabs : /\ Saving(t) /\ request[t].scope = s
                                 /\ request[t].list \in Lists /\ k \in request[t].list.slots
         /\ Names(s, k)' <=>
              \/ index'[s] \in Lists /\ k \in index'[s].slots
              \/ \E t \in Tabs : /\ Saving(t)' /\ request'[t].scope = s
                                 /\ request'[t].list \in Lists /\ k \in request'[t].list.slots
BY DEF Names, Listed, Saving

\* What a list named it goes on to name.
NamesKept == \A s \in Scopes \ racedLists' : \A k : Names(s, k) => Names(s, k)'

\* The request of the tab is of a firm that is named.
Settled(tab) ==
  \A s \in Scopes \ racedLists, k \in Slots \ {First} :
    (request'[tab] # None /\ request'[tab].scope = s /\ request'[tab].slot = k) => Names(s, k)

\* A file that comes into being is of the request's firm, or of the first.
Comes(tab) ==
  \A path \in Paths : (files[path] = None /\ files'[path] # None) =>
    \/ path[3] = First
    \/ request[tab] # None /\ path[2] = request[tab].scope /\ path[3] = request[tab].slot

LEMMA FirmsByOne ==
  ASSUME Typed, Typed', SettledInv, SlotInv, NEW tab \in Tabs, Becomes(tab, request'[tab]),
         racedLists \subseteq racedLists', NamesKept, Settled(tab), Comes(tab)
  PROVE  SettledInv' /\ SlotInv'
<1>1. ASSUME NEW u \in Tabs, NEW s \in Scopes \ racedLists', NEW k \in Slots \ {First},
             request'[u] # None, request'[u].scope = s, request'[u].slot = k
      PROVE  Names(s, k)'
  <2>1. Names(s, k)
    <3>1. CASE u = tab
      BY <1>1, <3>1 DEF Settled
    <3>2. CASE u # tab
      BY <1>1, <3>2 DEF SettledInv, Becomes
    <3>3. QED
      BY <3>1, <3>2
  <2>2. QED
    BY <2>1 DEF NamesKept
<1>2. ASSUME NEW path \in Paths, NEW s \in Scopes \ racedLists', NEW k \in Slots \ {First},
             files'[path] # None, path[2] = s, path[3] = k
      PROVE  Names(s, k)'
  <2>1. Names(s, k)
    <3>1. CASE files[path] # None
      BY <1>2, <3>1 DEF SlotInv
    <3>2. CASE files[path] = None
      BY <1>2, <3>2 DEF Comes, SettledInv
    <3>3. QED
      BY <3>1, <3>2
  <2>2. QED
    BY <2>1 DEF NamesKept
<1>3. SettledInv'
  BY <1>1 DEF SettledInv
<1>4. SlotInv'
  BY <1>2 DEF SlotInv
<1>5. QED
  BY <1>3, <1>4

\* A request that neither has a list nor is given one.
Aside(tab) ==
  /\ request[tab] # None => request[tab].list = None
  /\ request'[tab] # None => request'[tab].list = None
  /\ Becomes(tab, request'[tab]) /\ UNCHANGED <<index, racedLists>>

\* It stays the request it is, or ends.
Continues(tab) ==
  request'[tab] # None =>
    /\ request[tab] # None /\ request'[tab].who = request[tab].who
    /\ request'[tab].scope = request[tab].scope /\ request'[tab].slot = request[tab].slot

LEMMA ContinuesSettled ==
  ASSUME SettledInv, NEW tab \in Tabs, Continues(tab)
  PROVE  Settled(tab)
BY DEF SettledInv, Continues, Settled

LEMMA SavingKeeps ==
  ASSUME Typed, NEW t \in Tabs, Saving(t)
  PROVE  Keeping(t) /\ request[t].list \in Lists
BY ServedIs, Unchanged DEF Saving, PlaceOK, Keeping

LEMMA AsideNames ==
  ASSUME Typed, Typed', NEW tab \in Tabs, Aside(tab)
  PROVE  NamesKept
<1>1. SUFFICES ASSUME NEW s \in Scopes, NEW k, Names(s, k) PROVE Names(s, k)'
  BY DEF NamesKept
<1>2. CASE index[s] \in Lists /\ k \in index[s].slots
  BY <1>2, NamesParts DEF Aside
<1>3. CASE \E t \in Tabs : /\ Saving(t) /\ request[t].scope = s
                           /\ request[t].list \in Lists /\ k \in request[t].list.slots
  <2>1. PICK t \in Tabs : /\ Saving(t) /\ request[t].scope = s
                          /\ request[t].list \in Lists /\ k \in request[t].list.slots
    BY <1>3
  <2>2. t # tab
    BY <2>1, SavingKeeps DEF Keeping, Aside
  <2>3. request'[t] = request[t] /\ Saving(t)'
    BY <2>1, <2>2 DEF Aside, Becomes, Saving, At
  <2>4. QED
    BY <2>1, <2>3, NamesParts
<1>4. QED
  BY <1>1, <1>2, <1>3, NamesParts

LEMMA AsideLists ==
  ASSUME Typed, Typed', ListsOK, NEW tab \in Tabs, Aside(tab)
  PROVE  ListsOK'
<1>1. \A t \in Tabs : Keeping(t)' => t # tab /\ Keeping(t) /\ request'[t] = request[t]
  BY DEF Keeping, Aside, Becomes
<1>2. \A t \in Tabs : Keeping(t)' => (Saving(t)' => Saving(t))
  BY <1>1 DEF Saving, At
<1>3. index' = index /\ racedLists' = racedLists
  BY DEF Aside
<1>4. ASSUME NEW s \in Scopes, ListOK(s) PROVE ListOK(s)'
  BY <1>1, <1>2, <1>3, <1>4 DEF ListOK
<1>5. QED
  BY <1>3, <1>4 DEF ListsOK

\* A request that has read the index and is going to save a list in its place.
LEMMA ReadsIndex ==
  ASSUME Typed, Typed', ListsOK, NEW tab \in Tabs, request[tab] # None,
         request[tab].list = None, NEW place \in {"remembered", "chosen"}, NEW l,
         Grows(LoadIndex(request[tab].scope), l), Reads(tab, place, l)
  PROVE  /\ ListsOK' /\ NamesKept /\ Continues(tab) /\ Becomes(tab, request'[tab])
         /\ racedLists \subseteq racedLists'
<1>1. PICK r \in Requests : r = request[tab]
  BY TabRequest DEF Typed
<1>2. place \in Places /\ l \in Lists /\ l # None
  BY NoListAssumption DEF Places, Grows
<1>3. Turns(tab, place, r.holds, r.copy, l, r.adopted)
  BY <1>1, <1>2, ReadsTurns DEF Typed
<1>4. Becomes(tab, request'[tab]) /\ Continues(tab) /\ request'[tab].list = l
      /\ request'[tab].at = place /\ request'[tab].scope = r.scope
  BY <1>1, <1>3 DEF Turns, Continues
<1>5. index' = index /\ racedLists \subseteq racedLists'
      /\ (ReadByOther(tab) => r.scope \in racedLists')
  BY <1>1 DEF Reads
<1>6. NamesKept
  <2>1. SUFFICES ASSUME NEW s \in Scopes, NEW k, Names(s, k) PROVE Names(s, k)'
    BY DEF NamesKept
  <2>2. CASE index[s] \in Lists /\ k \in index[s].slots
    BY <1>5, <2>2, NamesParts
  <2>3. CASE \E t \in Tabs : /\ Saving(t) /\ request[t].scope = s
                             /\ request[t].list \in Lists /\ k \in request[t].list.slots
    <3>1. PICK t \in Tabs : /\ Saving(t) /\ request[t].scope = s
                            /\ request[t].list \in Lists /\ k \in request[t].list.slots
      BY <2>3
    <3>2. t # tab
      BY <3>1, SavingKeeps DEF Keeping
    <3>3. request'[t] = request[t] /\ Saving(t)'
      BY <1>4, <3>1, <3>2 DEF Becomes, Saving, At
    <3>4. QED
      BY <3>1, <3>3, NamesParts
  <2>4. QED
    BY <2>1, <2>2, <2>3, NamesParts
<1>7. ASSUME NEW s \in Scopes, s \notin racedLists' PROVE ListOK(s)'
  <2>1. ListOK(s)
    BY <1>5, <1>7 DEF ListsOK
  <2>2. \A t \in Tabs \ {tab} : /\ request'[t] = request[t] /\ (Keeping(t)' <=> Keeping(t))
                                /\ (Saving(t)' <=> Saving(t))
    BY <1>4 DEF Becomes, Keeping, Saving, At
  <2>3. ~Saving(tab)'
    BY <1>4 DEF Saving, At
  <2>4. CASE r.scope # s
    BY <1>1, <1>4, <1>5, <2>1, <2>2, <2>4 DEF ListOK
  <2>5. CASE r.scope = s
    <3>1. \A t \in Tabs \ {tab} : Keeping(t) => request[t].scope # s
      BY <1>1, <1>5, <1>7, <2>5 DEF ReadByOther, Keeping
    <3>2. index[s] \in Lists => index[s].slots \subseteq l.slots
      BY <1>1, <2>5, ListLoaded DEF Typed, Grows
    <3>3. QED
      BY <1>4, <1>5, <2>2, <2>3, <2>5, <3>1, <3>2 DEF ListOK
  <2>6. QED
    BY <2>4, <2>5
<1>8. QED
  BY <1>4, <1>5, <1>6, <1>7 DEF ListsOK

\* It opens the file of the index: from now on the list is the one it is going to
\* write.
LEMMA OpensIndex ==
  ASSUME Typed, Typed', ListsOK, NEW tab \in Tabs, OpenIndex(tab)
  PROVE  /\ ListsOK' /\ NamesKept /\ Continues(tab) /\ Becomes(tab, request'[tab])
         /\ racedLists' = racedLists
<1>1. PICK r \in Requests : r = request[tab] /\ PlaceOK(r) /\ r # None
  BY ServedIs, NoRequestAssumption DEF OpenIndex
<1>2. r.list # None /\ r.list \in Lists /\ r.scope \in Scopes /\ ~Saving(tab) /\ Keeping(tab)
  BY <1>1, Unchanged DEF OpenIndex, At, PlaceOK, Saving, Keeping
<1>3. PICK place \in {"remembering", "choosing"} : Goes(tab, place)
  BY DEF OpenIndex
<1>4. Turns(tab, place, r.holds, r.copy, r.list, r.adopted)
  BY <1>1, <1>3, GoesTurns DEF Typed, Places
<1>5. /\ Becomes(tab, request'[tab]) /\ Continues(tab) /\ request'[tab] # None
      /\ request'[tab].list = r.list /\ request'[tab].at = place /\ request'[tab].scope = r.scope
  BY <1>1, <1>4, NoRequestAssumption DEF Turns, Continues
<1>6. racedLists' = racedLists
  BY DEF OpenIndex, history
<1>7. index'[r.scope] = Torn /\ \A s \in Scopes : s # r.scope => index'[s] = index[s]
  BY <1>1, <1>2 DEF OpenIndex, Typed, TypeOK
<1>8. Saving(tab)' /\ Keeping(tab)'
  BY <1>2, <1>5 DEF Saving, At, Keeping
<1>9. \A t \in Tabs \ {tab} : /\ request'[t] = request[t] /\ (Keeping(t)' <=> Keeping(t))
                              /\ (Saving(t)' <=> Saving(t))
  BY <1>5 DEF Becomes, Keeping, Saving, At
<1>10. ASSUME NEW s \in Scopes, s \notin racedLists' PROVE ListOK(s)'
  <2>1. ListOK(s)
    BY <1>6, <1>10 DEF ListsOK
  <2>2. CASE s # r.scope
    BY <1>1, <1>5, <1>7, <1>9, <2>1, <2>2 DEF ListOK
  <2>3. CASE s = r.scope
    <3>1. \A t \in Tabs \ {tab} : Keeping(t) => request[t].scope # s
      BY <1>1, <1>2, <2>1, <2>3 DEF ListOK
    <3>2. index'[s] = Torn /\ index'[s] \notin Lists
      BY <1>7, <2>3, NoListAssumption
    <3>3. QED
      BY <1>9, <3>1, <3>2 DEF ListOK
  <2>4. QED
    BY <2>2, <2>3
<1>11. ASSUME NEW s \in Scopes, s \notin racedLists', NEW k, Names(s, k) PROVE Names(s, k)'
  <2>1. CASE \E t \in Tabs : /\ Saving(t) /\ request[t].scope = s
                             /\ request[t].list \in Lists /\ k \in request[t].list.slots
    <3>1. PICK t \in Tabs : /\ Saving(t) /\ request[t].scope = s
                            /\ request[t].list \in Lists /\ k \in request[t].list.slots
      BY <2>1
    <3>2. t # tab
      BY <1>2, <3>1
    <3>3. QED
      BY <1>9, <3>1, <3>2, NamesParts
  <2>2. CASE index[s] \in Lists /\ k \in index[s].slots
    <3>1. CASE s # r.scope
      BY <1>7, <2>2, <3>1, NamesParts
    <3>2. CASE s = r.scope
      <4>1. k \in r.list.slots
        BY <1>1, <1>2, <1>6, <1>11, <2>2, <3>2 DEF ListsOK, ListOK
      <4>2. QED
        BY <1>2, <1>5, <1>8, <3>2, <4>1, NamesParts
    <3>3. QED
      BY <3>1, <3>2
  <2>3. QED
    BY <1>11, <2>1, <2>2, NamesParts
<1>12. QED
  BY <1>5, <1>6, <1>10, <1>11 DEF ListsOK, NamesKept

\* It has written its list.
LEMMA WritesIndex ==
  ASSUME Typed, Typed', ListsOK, NEW tab \in Tabs, WriteIndex(tab)
  PROVE  /\ ListsOK' /\ NamesKept /\ Continues(tab) /\ Becomes(tab, request'[tab])
         /\ racedLists' = racedLists
<1>1. PICK r \in Requests : r = request[tab] /\ PlaceOK(r) /\ r # None
  BY ServedIs, NoRequestAssumption DEF WriteIndex
<1>2. r.list # None /\ r.list \in Lists /\ r.scope \in Scopes /\ Saving(tab) /\ Keeping(tab)
  BY <1>1, Unchanged DEF WriteIndex, At, PlaceOK, Saving, Keeping
<1>3. Becomes(tab, None) \/ Turns(tab, "choose", r.holds, r.copy, None, r.adopted)
  BY <1>1, AnsweredBecomes, RemembersTurns DEF WriteIndex, Typed
<1>4. /\ Becomes(tab, request'[tab]) /\ Continues(tab)
      /\ request'[tab] # None => request'[tab].list = None
  BY <1>1, <1>3 DEF Turns, Continues, Becomes
<1>5. ~Keeping(tab)'
  BY <1>4 DEF Keeping
<1>6. racedLists' = racedLists
  BY DEF WriteIndex, history
<1>7. index'[r.scope] = r.list /\ \A s \in Scopes : s # r.scope => index'[s] = index[s]
  BY <1>1, <1>2 DEF WriteIndex, Typed, TypeOK
<1>8. \A t \in Tabs \ {tab} : /\ request'[t] = request[t] /\ (Keeping(t)' <=> Keeping(t))
                              /\ (Saving(t)' <=> Saving(t))
  BY <1>4 DEF Becomes, Keeping, Saving, At
<1>9. ASSUME NEW s \in Scopes, s \notin racedLists' PROVE ListOK(s)'
  <2>1. ListOK(s)
    BY <1>6, <1>9 DEF ListsOK
  <2>2. CASE s # r.scope
    BY <1>1, <1>5, <1>7, <1>8, <2>1, <2>2 DEF ListOK
  <2>3. CASE s = r.scope
    <3>1. \A t \in Tabs \ {tab} : Keeping(t) => request[t].scope # s
      BY <1>1, <1>2, <2>1, <2>3 DEF ListOK
    <3>2. QED
      BY <1>5, <1>8, <3>1 DEF ListOK
  <2>4. QED
    BY <2>2, <2>3
<1>10. ASSUME NEW s \in Scopes, s \notin racedLists', NEW k, Names(s, k) PROVE Names(s, k)'
  <2>1. CASE \E t \in Tabs : /\ Saving(t) /\ request[t].scope = s
                             /\ request[t].list \in Lists /\ k \in request[t].list.slots
    <3>1. PICK t \in Tabs : /\ Saving(t) /\ request[t].scope = s
                            /\ request[t].list \in Lists /\ k \in request[t].list.slots
      BY <2>1
    <3>2. CASE t = tab
      BY <1>1, <1>7, <3>1, <3>2, NamesParts
    <3>3. CASE t # tab
      BY <1>8, <3>1, <3>3, NamesParts
    <3>4. QED
      BY <3>2, <3>3
  <2>2. CASE index[s] \in Lists /\ k \in index[s].slots
    <3>1. s # r.scope
      BY <1>1, <1>2, <1>6, <1>10, <2>2, NoListAssumption DEF ListsOK, ListOK
    <3>2. QED
      BY <1>7, <2>2, <3>1, NamesParts
  <2>3. QED
    BY <1>10, <2>1, <2>2, NamesParts
<1>11. QED
  BY <1>4, <1>6, <1>9, <1>10 DEF ListsOK, NamesKept

\* The server dies: a list that was being written is gone, and that is counted.
LEMMA CrashesIndex ==
  ASSUME Typed, Typed', ListsOK, SettledInv, SlotInv, Crash
  PROVE  ListsOK' /\ SettledInv' /\ SlotInv'
<1>1. /\ request' = [tab \in Tabs |-> None] /\ UNCHANGED <<files, index>>
      /\ racedLists \subseteq racedLists'
      /\ \A t \in Tabs : Saving(t) => request[t].scope \in racedLists'
  BY DEF Crash, Saving
<1>2. \A t \in Tabs : request'[t] = None /\ ~Keeping(t)'
  BY <1>1 DEF Keeping
<1>3. ListsOK'
  BY <1>2 DEF ListsOK, ListOK
<1>4. SettledInv'
  BY <1>2 DEF SettledInv
<1>5. ASSUME NEW s \in Scopes, s \notin racedLists', NEW k, Names(s, k) PROVE Names(s, k)'
  <2>1. \A t \in Tabs : Saving(t) => request[t].scope # s
    BY <1>1, <1>5
  <2>2. index[s] \in Lists /\ k \in index[s].slots
    BY <1>5, <2>1, NamesParts
  <2>3. QED
    BY <1>1, <2>2, NamesParts
<1>6. SlotInv'
  BY <1>1, <1>5 DEF SlotInv
<1>7. QED
  BY <1>3, <1>4, <1>6

LEMMA AnsweredAside ==
  ASSUME Typed, NEW tab \in Tabs, request[tab] # None, request[tab].list = None,
         Answered(tab), UNCHANGED <<index, racedLists>>
  PROVE  Aside(tab) /\ Continues(tab)
<1>1. Becomes(tab, None)
  BY AnsweredBecomes DEF Typed
<1>2. QED
  BY <1>1 DEF Aside, Continues, Becomes

LEMMA TurnsAside ==
  ASSUME Typed, NEW tab \in Tabs, request[tab] # None, request[tab].list = None,
         NEW at, NEW holds, NEW copy, NEW list, list = None, NEW adopted,
         Turns(tab, at, holds, copy, list, adopted), UNCHANGED <<index, racedLists>>
  PROVE  Aside(tab) /\ Continues(tab)
BY DEF Turns, Aside, Continues

LEMMA TakesAside ==
  ASSUME Typed, NEW tab \in Tabs, request[tab] # None, request[tab].list = None,
         NEW kind \in {"company", "records"}, Takes(tab, kind), UNCHANGED <<index, racedLists>>
  PROVE  Aside(tab) /\ Continues(tab)
BY TakesTurns, TurnsAside DEF Typed

LEMMA GoesAside ==
  ASSUME Typed, NEW tab \in Tabs, request[tab] # None, request[tab].list = None,
         NEW place \in Places, Goes(tab, place), UNCHANGED <<index, racedLists>>
  PROVE  Aside(tab) /\ Continues(tab)
BY GoesTurns, TurnsAside DEF Typed

\* What serves a request of records, of the profile or of the session.
Serves(tab) ==
  \/ SaveProfile(tab) \/ ReadProfile(tab) \/ SaveFrameworks(tab)
  \/ ReadRecords(tab) \/ SaveRecords(tab) \/ OpenRecords(tab) \/ WriteRecords(tab)
  \/ ClearRecords(tab) \/ LookFor(tab) \/ Move(tab) \/ SignIn(tab) \/ SignOut(tab)

LEMMA ServesAside ==
  ASSUME Typed, NEW tab \in Tabs, Serves(tab)
  PROVE  Aside(tab) /\ Continues(tab)
<1>1. PICK r \in Requests : /\ r = request[tab] /\ r # None /\ PlaceOK(r)
                            /\ r.at \in {"start", "write", "writing", "move"}
  BY ServedIs, NoRequestAssumption
     DEF Serves, SaveProfile, ReadProfile, SaveFrameworks, ReadRecords, SaveRecords,
         OpenRecords, WriteRecords, ClearRecords, LookFor, Move, SignIn, SignOut, Serving
<1>2. r.list = None
  BY <1>1 DEF PlaceOK
<1>3. UNCHANGED <<index, racedLists>>
  BY DEF Serves, SaveProfile, ReadProfile, SaveFrameworks, ReadRecords, SaveRecords,
         OpenRecords, WriteRecords, ClearRecords, LookFor, Move, SignIn, SignOut, history
<1>4. CASE Answered(tab)
  BY <1>1, <1>2, <1>3, <1>4, AnsweredAside
<1>5. CASE \E kind \in {"company", "records"} : Takes(tab, kind)
  BY <1>1, <1>2, <1>3, <1>5, TakesAside
<1>6. CASE \E place \in {"remember", "writing"} : Goes(tab, place)
  BY <1>1, <1>2, <1>3, <1>6, GoesAside DEF Places
<1>7. CASE LookFor(tab) \/ Move(tab)
  <2>1. \E at, holds, copy, list, adopted :
          list = None /\ Turns(tab, at, holds, copy, list, adopted)
    BY <1>7, AdoptionTurns
  <2>2. QED
    BY <1>1, <1>2, <1>3, <2>1, TurnsAside
<1>8. QED
  BY <1>4, <1>5, <1>6, <1>7
     DEF Serves, SaveProfile, ReadProfile, SaveFrameworks, ReadRecords, SaveRecords,
         OpenRecords, WriteRecords, ClearRecords, SignIn, SignOut

\* A file is made where the request writes, or among the first firm's.
LEMMA PutComes ==
  ASSUME Typed, NEW tab \in Tabs, request[tab] # None, NEW path \in Paths,
         NEW content \in {None, Torn} \cup SUBSET Statements, Put(path, content),
         \/ content = None \/ files[path] # None
         \/ path[2] = request[tab].scope /\ path[3] = request[tab].slot
  PROVE  Comes(tab)
<1>1. files'[path] = content /\ \A p \in Paths : p # path => files'[p] = files[p]
  BY TypedParts, PutTyped
<1>2. QED
  BY <1>1 DEF Comes

LEMMA ServesComes ==
  ASSUME Typed, NEW tab \in Tabs, Serves(tab)
  PROVE  Comes(tab)
<1>1. PICK r \in Requests : r = request[tab] /\ r # None
  BY ServedIs, NoRequestAssumption
     DEF Serves, SaveProfile, ReadProfile, SaveFrameworks, ReadRecords, SaveRecords,
         OpenRecords, WriteRecords, ClearRecords, LookFor, Move, SignIn, SignOut, Serving
<1>2. \A kind \in {"company", "records"} :
        /\ Writable(r, kind) \in Paths /\ Readable(r, kind) \in Paths
        /\ Writable(r, kind)[2] = r.scope /\ Writable(r, kind)[3] = r.slot
  BY RequestPaths
<1>3. CASE UNCHANGED files
  BY <1>3 DEF Comes
<1>4. CASE SaveProfile(tab)
  <2>1. Len(said) < MaxWrites
    BY <1>4 DEF SaveProfile, Says
  <2>2. Statement(r, "company") \in Statements
    BY <2>1, StatementType DEF Typed
  <2>3. PICK c \in SUBSET Statements : c = {Statement(r, "company")}
    BY <2>2
  <2>4. Put(Writable(r, "company"), c)
    BY <1>1, <1>4, <2>3 DEF SaveProfile
  <2>5. QED
    BY <1>1, <1>2, <2>4, PutComes
<1>5. CASE SaveFrameworks(tab)
  <2>1. PICK c \in SUBSET Statements : c = r.copy
    BY Unchanged
  <2>2. CASE Put(Writable(r, "company"), c)
    BY <1>1, <1>2, <2>2, PutComes
  <2>3. QED
    BY <1>1, <1>3, <1>5, <2>1, <2>2 DEF SaveFrameworks
<1>6. CASE SaveRecords(tab) \/ WriteRecords(tab)
  <2>1. Says(tab, "records")
    BY <1>6 DEF SaveRecords, WriteRecords
  <2>2. PICK c \in SUBSET Statements : c = Added(tab)
    BY <1>1, <2>1, AddedType
  <2>3. CASE Put(Writable(r, "records"), c)
    BY <1>1, <1>2, <2>3, PutComes
  <2>4. CASE \E path \in Paths : files[path] = Torn /\ Put(path, c)
    BY <1>1, <2>4, PutComes, FirmsAssumption
  <2>5. Opened(r) \in Paths
    BY <1>2, RequestPaths DEF Opened, Requests
  <2>6. QED
    BY <1>1, <1>3, <1>6, <2>2, <2>3, <2>4, <2>5 DEF SaveRecords, WriteRecords
<1>7. CASE OpenRecords(tab)
  BY <1>1, <1>2, <1>7, PutComes DEF OpenRecords
<1>8. CASE ClearRecords(tab)
  BY <1>1, <1>2, <1>8, PutComes DEF ClearRecords
<1>9. CASE Move(tab)
  <2>1. \A kind, s : Path(kind, s, First)[3] = First
    BY DEF Path
  <2> DEFINE from == Path(Kinds[r.adopted + 1], Visitor(r.who), First)
             to == Path(Kinds[r.adopted + 1], Account(r.who), First)
  <2>2. CASE files' = [files EXCEPT ![to] = files[from], ![from] = None]
    <3>1. to[3] = First
      BY <2>1
    <3> HIDE DEF from, to
    <3>2. \A path \in Paths : path # to /\ path # from => files'[path] = files[path]
      BY <2>2 DEF Typed, TypeOK
    <3>3. from \in Paths => from = to \/ files'[from] = None
      BY <2>2 DEF Typed, TypeOK
    <3>4. QED
      BY <3>1, <3>2, <3>3 DEF Comes
  <2>3. QED
    BY <1>1, <1>3, <1>9, <2>2 DEF Move
<1>10. QED
  BY <1>3, <1>4, <1>5, <1>6, <1>7, <1>8, <1>9
     DEF Serves, ReadProfile, ReadRecords, LookFor, SignIn, SignOut

-----------------------------------------------------------------------------
(* Every step keeps the lists, and what they name.                         *)

Firms == Typed /\ ListsOK /\ SettledInv /\ SlotInv

LEMMA FirmsAside ==
  ASSUME Firms, Typed', NEW tab \in Tabs, Aside(tab), Settled(tab), Comes(tab)
  PROVE  Firms'
<1>1. Typed /\ ListsOK /\ SettledInv /\ SlotInv /\ racedLists \subseteq racedLists'
      /\ Becomes(tab, request'[tab])
  BY DEF Firms, Aside
<1>2. ListsOK' /\ NamesKept
  BY <1>1, AsideLists, AsideNames
<1>3. QED
  BY <1>1, <1>2, FirmsByOne DEF Firms

LEMMA FirmsServes ==
  ASSUME Firms, Typed', NEW tab \in Tabs, Serves(tab)
  PROVE  Firms'
<1>1. Typed /\ SettledInv
  BY DEF Firms
<1>2. QED
  BY <1>1, ServesAside, ServesComes, ContinuesSettled, FirmsAside

LEMMA FirmsArrive ==
  ASSUME Firms, Typed', NEW tab \in Tabs, NEW p \in People, NEW what \in Acts,
         NEW which \in {None} \cup Slots, Arrive(tab, p, what, which)
  PROVE  Firms'
<1>0. PICK q : q = [who |-> p, what |-> what, which |-> which, scope |-> VisitorScope(p),
                    slot |-> LoadIndex(VisitorScope(p)).active, signed |-> p \in signed,
                    adopted |-> 0, at |-> Begins(what), holds |-> None, copy |-> {},
                    list |-> None]
  OBVIOUS
<1>1. Typed
  BY DEF Firms
<1>2. PICK x \in Scopes : x = VisitorScope(p)
  BY DEF VisitorScope, Visitor, Account, Scopes
<1>3. /\ request' = [request EXCEPT ![tab] = q]
      /\ q.list = None /\ q.scope = x /\ q.slot = LoadIndex(x).active
  <2>1. q.list = None /\ q.scope = VisitorScope(p) /\ q.slot = LoadIndex(VisitorScope(p)).active
    BY <1>0
  <2>2. request' = [request EXCEPT ![tab] = q]
    BY <1>0 DEF Arrive
  <2>3. QED
    BY <1>2, <2>1, <2>2
<1>4. Becomes(tab, q) /\ request'[tab] = q
  BY <1>1, <1>3 DEF Typed, TypeOK, Becomes
<1>5. request[tab] = None /\ UNCHANGED <<files, index, racedLists>>
  BY DEF Arrive, history
<1>6. Aside(tab) /\ Comes(tab)
  BY <1>3, <1>4, <1>5 DEF Aside, Comes
<1>7. Settled(tab)
  <2>1. SUFFICES ASSUME NEW s \in Scopes \ racedLists, NEW k \in Slots \ {First},
                        q.scope = s, q.slot = k
                 PROVE  Names(s, k)
    BY <1>4 DEF Settled
  <2>2. k = LoadIndex(s).active /\ k # First
    BY <1>3, <2>1
  <2>3. index[s] \in Lists /\ k \in index[s].slots
    BY <1>1, <2>2, ListLoaded DEF Typed
  <2>4. QED
    BY <2>3, NamesParts
<1>8. QED
  BY <1>6, <1>7, FirmsAside

LEMMA FirmsIndexRead ==
  ASSUME Firms, Typed', NEW tab \in Tabs, Remember(tab) \/ NewFirm(tab) \/ OpenFirm(tab)
  PROVE  Firms'
<1>1. PICK r \in Requests : /\ r = request[tab] /\ r # None /\ PlaceOK(r)
                            /\ r.at \in {"remember", "choose"}
  BY ServedIs, NoRequestAssumption DEF Remember, NewFirm, OpenFirm, Serving, Firms
<1>2. PICK idx \in Lists : idx = LoadIndex(r.scope) /\ Numbered(idx)
  BY ListLoaded DEF Firms, Typed, Requests
<1>3. r.list = None /\ Typed /\ SettledInv /\ ListsOK
  BY <1>1 DEF PlaceOK, Firms
<1>4. CASE /\ Answered(tab) \/ Remembers(tab)
           /\ UNCHANGED <<files, index, signed, requests, history, crashes>>
  <2>1. Comes(tab) /\ UNCHANGED <<index, racedLists>>
    BY <1>4 DEF Comes, history
  <2>2. Becomes(tab, None) \/ Turns(tab, "choose", r.holds, r.copy, None, r.adopted)
    BY <1>1, <1>3, <1>4, AnsweredBecomes, RemembersTurns DEF Typed
  <2>3. Aside(tab) /\ Continues(tab)
    <3>1. CASE Becomes(tab, None)
      BY <1>1, <1>3, <2>1, <3>1 DEF Aside, Continues, Becomes
    <3>2. CASE Turns(tab, "choose", r.holds, r.copy, None, r.adopted)
      BY <1>1, <1>3, <2>1, <3>2, TurnsAside
    <3>3. QED
      BY <2>2, <3>1, <3>2
  <2>4. QED
    BY <1>3, <2>1, <2>3, ContinuesSettled, FirmsAside
<1>5. CASE \E place \in {"remembered", "chosen"} : \E l : Grows(idx, l) /\ Reads(tab, place, l)
  <2>1. /\ ListsOK' /\ NamesKept /\ Continues(tab) /\ Becomes(tab, request'[tab])
        /\ racedLists \subseteq racedLists'
    BY <1>1, <1>2, <1>3, <1>5, ReadsIndex
  <2>2. Comes(tab)
    BY <1>5 DEF Reads, Comes
  <2>3. QED
    BY <1>3, <2>1, <2>2, ContinuesSettled, FirmsByOne DEF Firms
<1>6. CASE Remember(tab)
  <2>1. Grows(idx, Remembered(r, idx))
    BY <1>2, RememberedGrows
  <2>2. QED
    BY <1>1, <1>2, <1>4, <1>5, <1>6, <2>1 DEF Remember
<1>7. CASE NewFirm(tab)
  <2>1. idx.issued < MaxFirms => Grows(idx, Issue(idx))
    BY <1>2, IssueGrows
  <2>2. QED
    BY <1>1, <1>2, <1>5, <1>7, <2>1 DEF NewFirm
<1>8. CASE OpenFirm(tab)
  <2>1. \A k \in idx.slots : Grows(idx, [idx EXCEPT !.active = k])
    BY <1>2, OpenedGrows
  <2>2. QED
    BY <1>1, <1>2, <1>4, <1>5, <1>8, <2>1 DEF OpenFirm
<1>9. QED
  BY <1>6, <1>7, <1>8

LEMMA FirmsIndexSaved ==
  ASSUME Firms, Typed', NEW tab \in Tabs, OpenIndex(tab) \/ WriteIndex(tab)
  PROVE  Firms'
<1>1. Typed /\ SettledInv /\ ListsOK /\ SlotInv
  BY DEF Firms
<1>2. /\ ListsOK' /\ NamesKept /\ Continues(tab) /\ Becomes(tab, request'[tab])
      /\ racedLists' = racedLists
  BY <1>1, OpensIndex, WritesIndex
<1>3. Comes(tab)
  BY DEF OpenIndex, WriteIndex, Comes
<1>4. QED
  BY <1>1, <1>2, <1>3, ContinuesSettled, FirmsByOne DEF Firms

LEMMA FirmsInit == Init => Firms
<1>1. SUFFICES ASSUME Init PROVE Firms
  OBVIOUS
<1>2. \A tab \in Tabs : request[tab] = None
  BY <1>1 DEF Init
<1>3. ListsOK
  BY <1>2 DEF ListsOK, ListOK, Keeping
<1>4. SettledInv
  BY <1>2 DEF SettledInv
<1>5. SlotInv
  BY <1>1 DEF Init, SlotInv
<1>6. QED
  BY <1>1, <1>3, <1>4, <1>5, TypedInit DEF Firms

LEMMA FirmsStep == Firms /\ [Next]_vars => Firms'
<1>1. SUFFICES ASSUME Firms, [Next]_vars PROVE Firms'
  OBVIOUS
<1>2. Typed'
  BY <1>1, TypedStep DEF Firms
<1>3. CASE UNCHANGED vars
  BY <1>1, <1>2, <1>3 DEF vars, Firms, ListsOK, ListOK, Keeping, Saving, At, SettledInv, SlotInv,
     Names, Listed
<1>4. CASE Crash
  BY <1>1, <1>2, <1>4, CrashesIndex DEF Firms
<1>5. CASE \E tab \in Tabs : Serves(tab)
  BY <1>1, <1>2, <1>5, FirmsServes
<1>6. CASE \E tab \in Tabs : Remember(tab) \/ NewFirm(tab) \/ OpenFirm(tab)
             \/ OpenIndex(tab) \/ WriteIndex(tab)
  BY <1>1, <1>2, <1>6, FirmsIndexRead, FirmsIndexSaved
<1>7. CASE \E tab \in Tabs, p \in People, what \in Acts, which \in {None} \cup Slots :
             Arrive(tab, p, what, which)
  BY <1>1, <1>2, <1>7, FirmsArrive
<1>8. "open firm" \in Acts
  BY DEF Acts
<1>9. QED
  BY <1>1, <1>3, <1>4, <1>5, <1>6, <1>7, <1>8 DEF Next, Serves

\* What is named is in the list, and its number counts as issued.
LEMMA NamedIssued == Firms => SlotsAreIssued
<1>1. SUFFICES ASSUME Firms, NEW path \in Paths, files[path] # None, path[3] # First,
                      path[2] \notin racedLists
               PROVE  \E idx \in Listed(path[2]) \ {None, Torn} :
                        path[3] \in idx.slots /\ path[3] <= idx.issued
  BY DEF SlotsAreIssued
<1>2. PICK s \in Scopes, k \in Slots : s = path[2] /\ k = path[3]
  BY DEF Paths
<1>3. Names(s, k)
  BY <1>1, <1>2 DEF Firms, SlotInv
<1>4. PICK idx \in Listed(s) : idx \in Lists /\ k \in idx.slots
  BY <1>3 DEF Names
<1>5. Numbered(idx)
  <2>1. CASE idx = index[s]
    BY <1>1, <1>4, <2>1 DEF Firms, Typed, NumberedInv
  <2>2. CASE \E t \in Tabs : Saving(t) /\ idx = request[t].list
    BY <1>1, <2>2, SavingKeeps DEF Firms, Typed, NumberedInv
  <2>3. QED
    BY <1>4, <2>1, <2>2 DEF Listed, Saving
<1>6. idx \notin {None, Torn}
  BY <1>4, NoListAssumption
<1>7. QED
  BY <1>2, <1>4, <1>5, <1>6 DEF Numbered

\* However the requests of a person overlap and wherever the server dies: a slot that
\* has files is in the person's list and its number counts as issued, as long as no
\* request read that list between the reading and the saving of another and none was
\* cut short while it wrote it (web/app.py and companies.py, CompanyIndex).
THEOREM SlotsAlwaysIssued == Spec => []SlotsAreIssued
<1>1. Spec => []Firms
  BY FirmsInit, FirmsStep, PTL DEF Spec
<1>2. QED
  BY <1>1, NamedIssued, PTL

-----------------------------------------------------------------------------
(* Where statements are, on a deployment several people share.             *)

\* A statement is made, with the next number.
Speaks(x) == x \in Statements /\ x.n = Len(said) + 1 /\ said' = Append(said, x)

LEMMA SaidLonger ==
  ASSUME Typed, Dated, NEW x, Speaks(x)
  PROVE  /\ Len(said') = Len(said) + 1 /\ Len(said) \in Nat
         /\ \A i \in 1..Len(said) : said'[i] = said[i]
         /\ said'[Len(said) + 1] = x /\ Dated'
         /\ \A e : Said(e) => Said(e)'
         /\ Said(x)' /\ ~Said(x)
<1>1. said \in Seq(Statements) /\ x \in Statements
  BY DEF Typed, TypeOK, Speaks
<1>2. PICK n \in Nat : n = Len(said)
  BY <1>1
<1>3. /\ Len(said') = n + 1 /\ said'[n + 1] = x
      /\ \A i \in 1..n : said'[i] = said[i]
  BY <1>1, <1>2 DEF Speaks
<1>4. 1..(n + 1) = (1..n) \cup {n + 1} /\ n + 1 \notin 1..n
  OBVIOUS
<1>5. Dated'
  BY <1>2, <1>3, <1>4 DEF Dated, Speaks
<1>6. \A e : Said(e) => Said(e)'
  BY <1>2, <1>3, <1>4 DEF Said
<1>7. Said(x)' /\ ~Said(x)
  BY <1>2, <1>3, <1>4 DEF Said, Speaks
<1>8. QED
  BY <1>2, <1>3, <1>5, <1>6, <1>7

\* What a request writes is a path of its store.
LEMMA OwnPath ==
  ASSUME Typed, Shared, NEW tab \in Tabs, request[tab] # None,
         NEW kind \in {"company", "records"}
  PROVE  LET r == request[tab]
         IN  /\ Writable(r, kind) \in Paths /\ Writable(r, kind)[2] # Plain
             /\ PathStore(Writable(r, kind)) = Store(r, kind) /\ Store(r, kind) \in Stores
             /\ Path("records", Account(r.who), r.slot) \in Paths
             /\ Path("records", Account(r.who), r.slot)[2] # Plain
             /\ PathStore(Path("records", Account(r.who), r.slot)) = Store(r, "records")
<1>1. PICK r \in Requests : r = request[tab] /\ PlaceOK(r)
  BY TabRequest DEF Typed, PlacesOK
<1>2. r.scope \in {Visitor(r.who), Account(r.who)} /\ r.who \in People
  BY <1>1, Unchanged DEF PlaceOK
<1>3. /\ Visitor(r.who) # Plain /\ Account(r.who) # Plain
      /\ Visitor(r.who)[1] = r.who /\ Account(r.who)[1] = r.who
  BY DEF Visitor, Account, Plain
<1>4. /\ Writable(r, kind) = <<kind, r.scope, r.slot>>
      /\ Path("records", Account(r.who), r.slot) = <<"records", Account(r.who), r.slot>>
  BY DEF Writable, Path
<1>5. /\ Writable(r, kind) \in Paths /\ Store(r, kind) \in Stores
      /\ Path("records", Account(r.who), r.slot) \in Paths
  BY <1>2, RequestPaths
<1>6. Writable(r, kind)[2] # Plain /\ PathStore(Writable(r, kind)) = Store(r, kind)
  BY <1>2, <1>3, <1>4 DEF PathStore, Store
<1>7. /\ Path("records", Account(r.who), r.slot)[2] # Plain
      /\ PathStore(Path("records", Account(r.who), r.slot)) = Store(r, "records")
  BY <1>3, <1>4 DEF PathStore, Store
<1>8. QED
  BY <1>1, <1>5, <1>6, <1>7

\* The demonstration's file holds nothing, so that what is read is what is in one's own.
LEMMA ReadOwn ==
  ASSUME Typed, Placed, Shared, NEW tab \in Tabs, request[tab] # None,
         NEW kind \in {"company", "records"}
  PROVE  /\ Load(Readable(request[tab], kind)) = Load(Writable(request[tab], kind))
         /\ \/ Readable(request[tab], kind) = Writable(request[tab], kind)
            \/ Readable(request[tab], kind) \in Paths /\ Readable(request[tab], kind)[2] = Plain
<1>1. PICK r \in Requests : r = request[tab]
  BY TabRequest DEF Typed
<1>2. CASE Readable(r, kind) = Path(kind, r.scope, r.slot)
  BY <1>1, <1>2 DEF Writable
<1>3. CASE /\ Readable(r, kind) = Path(kind, Plain, First)
           /\ files[Path(kind, r.scope, r.slot)] = None
  <2>1. Readable(r, kind)[2] = Plain /\ Readable(r, kind) \in Paths
    BY <1>3, RequestPaths DEF Path
  <2>2. Load(Readable(r, kind)) = {}
    BY <2>1 DEF Placed, Filed, Mine
  <2>3. Load(Writable(r, kind)) = {}
    BY <1>3 DEF Writable, Load
  <2>4. QED
    BY <1>1, <2>1, <2>2, <2>3
<1>4. QED
  BY <1>2, <1>3 DEF Readable

\* The copy of a request is the one it had, or it has none.
CopyKept(tab) ==
  request'[tab] # None =>
    \/ request'[tab].copy = {}
    \/ /\ request[tab] # None /\ request'[tab].copy = request[tab].copy
       /\ Store(request'[tab], KindOf(request'[tab])) = Store(request[tab], KindOf(request[tab]))

LEMMA TurnsCopy ==
  ASSUME NEW tab, request[tab] # None, NEW at, NEW holds, NEW copy, NEW list, NEW adopted,
         Turns(tab, at, holds, copy, list, adopted), copy = request[tab].copy
  PROVE  CopyKept(tab)
BY DEF Turns, CopyKept, Store, KindOf

\* What is new in a file is said, and the file's own.
LEMMA PlacedByOne ==
  ASSUME Typed, Placed, NEW tab \in Tabs, Becomes(tab, request'[tab]),
         said' = said \/ \E x : Speaks(x),
         \A path \in Paths : \A e : e \in Load(path)' =>
            e \in Load(path) \/ (Mine(path, e) /\ Said(e)'),
         request'[tab] # None => \A e \in request'[tab].copy :
            StoreOf(e) = Store(request'[tab], KindOf(request'[tab])) /\ (Said(e) \/ Said(e)')
  PROVE  Placed'
<1>1. Dated' /\ \A e : Said(e) => Said(e)'
  <2>1. CASE said' = said
    BY <2>1 DEF Placed, Dated, Said
  <2>2. QED
    BY <2>1, SaidLonger DEF Placed
<1>2. Filed'
  BY <1>1 DEF Placed, Filed
<1>3. ASSUME NEW u \in Tabs, request'[u] # None
      PROVE  \A e \in request'[u].copy :
               StoreOf(e) = Store(request'[u], KindOf(request'[u])) /\ Said(e)'
  <2>1. CASE u = tab
    BY <1>1, <1>3, <2>1
  <2>2. CASE u # tab
    BY <1>1, <1>3, <2>2 DEF Becomes, Placed, Copied
  <2>3. QED
    BY <2>1, <2>2
<1>4. Copied'
  BY <1>3 DEF Copied
<1>5. QED
  BY <1>1, <1>2, <1>4 DEF Placed

\* Who is writing a statement holds its store.
LEMMA WriterHolds ==
  ASSUME Typed, Placed, Typed', Placed', NEW u \in Tabs, NEW p \in Paths, NEW e
  PROVE  /\ Writes(u, p, e) => Holder(u, StoreOf(e)) /\ At(u, "writing") /\ StoreOf(e).kind = "records"
         /\ Writes(u, p, e)' => Holder(u, StoreOf(e))' /\ At(u, "writing")' /\ StoreOf(e).kind = "records"
BY DEF Writes, At, Typed, PlacesOK, PlaceOK, Placed, Copied, Holder, Store, KindOf, StoreOf

LEMMA SameHolds ==
  ASSUME Typed, Placed, Typed', Placed', NEW T \in Stores,
         \A path \in Paths :
           (path[2] # Plain /\ PathStore(path) = T) => Load(path)' = Load(path),
         \A u \in Tabs :
           ((Holder(u, T) /\ At(u, "writing")) \/ (Holder(u, T)' /\ At(u, "writing")'))
             => request'[u] = request[u]
  PROVE  \A p \in Paths, e \in Statements : StoreOf(e) = T => (Holds(p, e)' <=> Holds(p, e))
<1>1. SUFFICES ASSUME NEW p \in Paths, NEW e \in Statements, StoreOf(e) = T
               PROVE  Holds(p, e)' <=> Holds(p, e)
  OBVIOUS
<1>2. e \in Load(p)' <=> e \in Load(p)
  BY <1>1 DEF Placed, Filed, Mine
<1>3. ASSUME NEW u \in Tabs PROVE Writes(u, p, e)' <=> Writes(u, p, e)
  <2>1. /\ Writes(u, p, e) => Holder(u, T) /\ At(u, "writing")
        /\ Writes(u, p, e)' => Holder(u, T)' /\ At(u, "writing")'
    BY <1>1, WriterHolds
  <2>2. Writes(u, p, e) \/ Writes(u, p, e)' => request'[u] = request[u]
    BY <2>1
  <2>3. QED
    BY <2>2 DEF Writes, At, Writable, Path
<1>4. QED
  BY <1>2, <1>3 DEF Holds

\* Nothing of the store is lost or doubled when its statements are where they were.
LEMMA SameKept ==
  ASSUME Typed, Placed, NEW T \in Stores, Single(T), Kept(T),
         \A p \in Paths, e \in Statements : StoreOf(e) = T => (Holds(p, e)' <=> Holds(p, e)),
         said' = said \/ \E x : Speaks(x) /\ StoreOf(x) # T,
         cleared \subseteq cleared'
  PROVE  Single(T)' /\ Kept(T)'
<1>1. Single(T)'
  BY DEF Single
<1>2. CASE said' = said
  BY <1>1, <1>2 DEF Kept, Gone
<1>3. CASE \E x : Speaks(x) /\ StoreOf(x) # T
  <2>1. PICK x : Speaks(x) /\ StoreOf(x) # T
    BY <1>3
  <2>2. PICK n \in Nat : n = Len(said)
    BY DEF Typed, TypeOK
  <2>3. /\ Len(said') = n + 1 /\ said'[n + 1] = x
        /\ \A i \in 1..n : said'[i] = said[i]
    BY <2>1, <2>2, SaidLonger DEF Placed
  <2>4. SUFFICES ASSUME NEW i \in 1..Len(said'), NEW e \in Statements, said'[i] = e,
                        StoreOf(e) = T
                 PROVE  Gone(i)' \/ \E path \in Paths : Holds(path, e)'
    BY <1>1 DEF Kept
  <2>5. i \in 1..n
    BY <2>1, <2>2, <2>3, <2>4
  <2>6. Gone(i) \/ \E path \in Paths : Holds(path, e)
    BY <2>2, <2>3, <2>4, <2>5 DEF Kept
  <2>7. Gone(i) => Gone(i)'
    <3>1. \A j \in (i + 1)..n : j \in 1..n /\ j \in (i + 1)..(n + 1)
      BY <2>5
    <3>2. QED
      BY <2>2, <2>3, <2>5, <3>1 DEF Gone
  <2>8. QED
    BY <2>4, <2>6, <2>7
<1>4. QED
  BY <1>1, <1>2, <1>3

\* A statement was added where the store's statements were.
LEMMA AddedKept ==
  ASSUME Typed, Placed, Typed', Placed', NEW T \in Stores, Single(T), Kept(T),
         NEW own \in Paths, NEW x, Speaks(x),
         \A p \in Paths, e \in Statements :
            StoreOf(e) = T => (Holds(p, e)' <=> Holds(p, e) \/ (p = own /\ e = x)),
         cleared \subseteq cleared'
  PROVE  Single(T)' /\ Kept(T)'
<1>1. PICK n \in Nat : n = Len(said)
  BY DEF Typed, TypeOK
<1>2. /\ Len(said') = n + 1 /\ said'[n + 1] = x /\ ~Said(x)
      /\ \A i \in 1..n : said'[i] = said[i]
  BY <1>1, SaidLonger DEF Placed
<1>3. \A p \in Paths : ~Holds(p, x)
  BY <1>2 DEF Holds, Writes, At, Placed, Filed, Copied
<1>4. Single(T)'
  BY <1>3 DEF Single
<1>5. SUFFICES ASSUME NEW i \in 1..Len(said'), NEW e \in Statements, said'[i] = e,
                      StoreOf(e) = T
               PROVE  Gone(i)' \/ \E path \in Paths : Holds(path, e)'
  BY <1>4 DEF Kept
<1>6. CASE i = n + 1
  BY <1>2, <1>5, <1>6
<1>7. CASE i \in 1..n
  <2>1. Gone(i) \/ \E path \in Paths : Holds(path, e)
    BY <1>1, <1>2, <1>5, <1>7 DEF Kept
  <2>2. Gone(i) => Gone(i)'
    <3>1. \A j \in (i + 1)..n : j \in 1..n /\ j \in (i + 1)..(n + 1)
      BY <1>7
    <3>2. QED
      BY <1>1, <1>2, <1>7, <3>1 DEF Gone
  <2>3. QED
    BY <1>5, <2>1, <2>2
<1>8. QED
  BY <1>1, <1>2, <1>5, <1>6, <1>7

-----------------------------------------------------------------------------
(* Every step keeps the stores no request changed under another.           *)

Files == Typed /\ Placed /\ StoresOK

\* A step of the tab's request leaves every store but T0 as it was.
OnlyTouches(tab, T0) ==
  /\ Becomes(tab, request'[tab])
  /\ \A path \in Paths : (path[2] # Plain /\ PathStore(path) # T0) => files'[path] = files[path]
  /\ request[tab] # None => request[tab].holds \in {None, T0}
  /\ request'[tab] # None => request'[tab].holds \in {None, T0}
  /\ said' = said \/ \E x : Speaks(x) /\ StoreOf(x) = T0
  /\ cleared \subseteq cleared' /\ racedFiles \subseteq racedFiles'

\* The paths that what a holder knows is about are the store's.
LEMMA HolderPaths ==
  ASSUME Typed, Shared, NEW u \in Tabs, NEW T \in Stores, Holder(u, T)
  PROVE  /\ request[u] # None
         /\ request[u].at \in {"write", "writing"} =>
              \A own \in Paths : own = Writable(request[u], T.kind) =>
                own[2] # Plain /\ PathStore(own) = T
         /\ request[u].at = "move" =>
              /\ From(T) \in Paths /\ To(T) \in Paths /\ From(T) # To(T)
              /\ From(T)[2] # Plain /\ PathStore(From(T)) = T
              /\ To(T)[2] # Plain /\ PathStore(To(T)) = T
<1>1. PICK r \in Requests : r = request[u] /\ r # None /\ PlaceOK(r) /\ r.holds = T
  BY TabRequest DEF Typed, PlacesOK, Holder
<1>2. KindOf(r) \in {"company", "records"}
  BY DEF KindOf
<1>3. ASSUME r.at \in {"write", "writing"}
      PROVE  \A own \in Paths : own = Writable(r, T.kind) => own[2] # Plain /\ PathStore(own) = T
  <2>1. PICK kind \in {"company", "records"} : kind = KindOf(r)
    BY <1>2
  <2>3. T = Store(r, kind)
    BY <1>1, <1>3, <2>1 DEF PlaceOK
  <2>4. T.kind = kind
    BY <2>3 DEF Store
  <2>2. QED
    BY <1>1, <2>3, <2>4, OwnPath
<1>4. ASSUME r.at = "move"
      PROVE  /\ From(T) \in Paths /\ To(T) \in Paths /\ From(T) # To(T)
             /\ From(T)[2] # Plain /\ PathStore(From(T)) = T
             /\ To(T)[2] # Plain /\ PathStore(To(T)) = T
  <2>1. T = Adopted(r)
    BY <1>1, <1>4 DEF PlaceOK
  <2>2. T.slot = First /\ T.kind \in {"company", "records"} /\ T.by \in People
        /\ T = [by |-> T.by, slot |-> First, kind |-> T.kind]
    BY <2>1 DEF Adopted, Stores
  <2>3. /\ From(T) = <<T.kind, <<T.by, "visitor">>, First>>
        /\ To(T) = <<T.kind, <<T.by, "account">>, First>>
    BY DEF From, To, Path, Visitor, Account
  <2>4. From(T) \in Paths /\ To(T) \in Paths
    BY <2>2, <2>3, Basics DEF Paths, Scopes
  <2>5. From(T) # To(T) /\ From(T)[2] # Plain /\ To(T)[2] # Plain
    BY <2>3 DEF Plain
  <2>6. PathStore(From(T)) = T /\ PathStore(To(T)) = T
    BY <2>2, <2>3 DEF PathStore
  <2>7. QED
    BY <2>4, <2>5, <2>6
<1>5. QED
  BY <1>1, <1>3, <1>4

LEMMA OthersKept ==
  ASSUME Files, Typed', Placed', Shared, NEW tab \in Tabs, NEW T0, OnlyTouches(tab, T0),
         NEW T \in Stores \ racedFiles', T # T0
  PROVE  StoreOK(T)'
<1>1. Typed /\ Placed /\ StoreOK(T) /\ T \in Stores /\ T # None
  BY NoListAssumption DEF Files, StoresOK, OnlyTouches
<1>2. \A path \in Paths : (path[2] # Plain /\ PathStore(path) = T) =>
        files'[path] = files[path] /\ Load(path)' = Load(path)
  BY DEF OnlyTouches, Load
<1>3. \A u \in Tabs : Holder(u, T) \/ Holder(u, T)' => u # tab /\ request'[u] = request[u]
  BY <1>1 DEF OnlyTouches, Becomes, Holder
<1>4. \A p \in Paths, e \in Statements : StoreOf(e) = T => (Holds(p, e)' <=> Holds(p, e))
  BY <1>1, <1>2, <1>3, SameHolds
<1>5. Single(T)' /\ Kept(T)'
  BY <1>1, <1>4, SameKept DEF OnlyTouches, StoreOK
<1>6. OneHolder(T)'
  BY <1>1, <1>3 DEF StoreOK, OneHolder, Holder
<1>7. ASSUME NEW u \in Tabs, Holder(u, T)' PROVE Fresh(u, T)'
  <2>1. Holder(u, T) /\ request'[u] = request[u] /\ Fresh(u, T)
    BY <1>1, <1>3, <1>7 DEF Holder, StoreOK, StillSo
  <2>2. \A place : At(u, place)' <=> At(u, place)
    BY <2>1 DEF At
  <2>3. SUFFICES ASSUME NEW own \in Paths, own = Writable(request[u], T.kind)
                 PROVE  /\ At(u, "write") => request[u].copy = Load(own)'
                        /\ At(u, "writing") => files'[own] = Torn
                        /\ At(u, "move") => files'[From(T)] # None /\ files'[To(T)] = None
    BY <2>1, <2>2 DEF Fresh, Writable, Path
  <2>4. At(u, "write") \/ At(u, "writing") => files'[own] = files[own] /\ Load(own)' = Load(own)
    BY <1>1, <1>2, <2>1, <2>3, HolderPaths DEF At
  <2>5. At(u, "move") => /\ files'[From(T)] = files[From(T)] /\ files'[To(T)] = files[To(T)]
    BY <1>1, <1>2, <2>1, HolderPaths DEF At
  <2>6. QED
    BY <2>1, <2>3, <2>4, <2>5 DEF Fresh
<1>8. QED
  BY <1>5, <1>6, <1>7 DEF StoreOK, StillSo

\* What a step of one request has to keep: the store it is about.
LEMMA FilesByOne ==
  ASSUME Files, Typed', Placed', Shared, NEW tab \in Tabs, NEW T0, OnlyTouches(tab, T0),
         T0 \in Stores \ racedFiles' => StoreOK(T0)'
  PROVE  Files'
BY OthersKept DEF Files, StoresOK

\* With nobody holding the store there is nothing to be still so.
LEMMA NobodyHolds ==
  ASSUME NEW T, \A u \in Tabs : ~Holder(u, T)', Single(T)', Kept(T)'
  PROVE  StoreOK(T)'
BY DEF StoreOK, OneHolder, StillSo

\* A request that is about no file.
LEMMA QuietFiles ==
  ASSUME Files, Typed', Shared, NEW tab \in Tabs, Becomes(tab, request'[tab]), CopyKept(tab),
         request[tab] # None => request[tab].holds = None,
         request'[tab] # None => request'[tab].holds = None,
         UNCHANGED <<files, said, cleared, racedFiles>>
  PROVE  Files'
<1>1. Typed /\ Placed /\ None \notin Stores
  BY NoListAssumption DEF Files
<1>2. \A path \in Paths : Load(path)' = Load(path)
  BY DEF Load
<1>3. request'[tab] # None => \A e \in request'[tab].copy :
        StoreOf(e) = Store(request'[tab], KindOf(request'[tab])) /\ Said(e)
  BY <1>1 DEF CopyKept, Placed, Copied
<1>4. Placed'
  BY <1>1, <1>2, <1>3, PlacedByOne
<1>5. OnlyTouches(tab, None)
  BY DEF OnlyTouches
<1>6. QED
  BY <1>1, <1>4, <1>5, FilesByOne

\* A request takes a store nobody else holds, as it is.
LEMMA FilesTaken ==
  ASSUME Files, Typed', Placed', Shared, NEW tab \in Tabs, NEW T \in Stores,
         Becomes(tab, request'[tab]), request[tab] # None, request[tab].holds = None,
         request'[tab] # None, request'[tab].holds = T, request'[tab].at # "writing",
         Fresh(tab, T)', Touches(tab, T), UNCHANGED <<files, said, cleared>>
  PROVE  Files'
<1>1. Typed /\ Placed
  BY DEF Files
<1>2. OnlyTouches(tab, T)
  BY <1>1, TouchTyped DEF OnlyTouches
<1>3. ASSUME T \notin racedFiles' PROVE StoreOK(T)'
  <2>1. StoreOK(T) /\ ~HeldByOther(tab, T) /\ T # None
    BY <1>1, <1>3, TouchTyped, NoListAssumption DEF Files, StoresOK
  <2>2. \A u \in Tabs : (Holder(u, T)' => u = tab) /\ ~Holder(u, T)
    BY <2>1 DEF Holder, HeldByOther, Becomes
  <2>3. \A path \in Paths : Load(path)' = Load(path)
    BY DEF Load
  <2>4. \A p \in Paths, e \in Statements : StoreOf(e) = T => (Holds(p, e)' <=> Holds(p, e))
    BY <1>1, <2>2, <2>3, SameHolds DEF At
  <2>5. Single(T)' /\ Kept(T)'
    BY <1>1, <2>1, <2>4, SameKept DEF StoreOK
  <2>6. QED
    BY <2>2, <2>5 DEF StoreOK, OneHolder, StillSo
<1>4. QED
  BY <1>2, <1>3, FilesByOne

\* What a file of the request's holds is its own.
LEMMA OwnFiled ==
  ASSUME Typed, Placed, Shared, NEW tab \in Tabs, request[tab] # None,
         NEW kind \in {"company", "records"}, NEW path \in Paths,
         path[2] # Plain, PathStore(path) = Store(request[tab], kind),
         NEW content \in {None, Torn} \cup SUBSET Statements, Put(path, content),
         said' = said \/ \E x : Speaks(x),
         content \in SUBSET Statements => \A e \in content :
            \/ kind = KindOf(request[tab]) /\ e \in request[tab].copy
            \/ StoreOf(e) = Store(request[tab], kind) /\ Said(e)',
         Becomes(tab, request'[tab]), CopyKept(tab)
  PROVE  Placed'
<1>1. files'[path] = content /\ \A p \in Paths : p # path => files'[p] = files[p]
  BY TypedParts, PutTyped
<1>2. \A e : Said(e) => Said(e)'
  BY SaidLonger DEF Placed, Said
<1>3. ASSUME NEW e \in content, content \in SUBSET Statements
      PROVE  Mine(path, e) /\ Said(e)'
  BY <1>2, <1>3 DEF Placed, Copied, Mine
<1>4. ASSUME NEW p \in Paths, NEW e, e \in Load(p)'
      PROVE  e \in Load(p) \/ (Mine(p, e) /\ Said(e)')
  <2>1. CASE p # path
    BY <1>1, <1>4, <2>1 DEF Load
  <2>2. CASE p = path
    BY <1>1, <1>3, <1>4, <2>2 DEF Load
  <2>3. QED
    BY <2>1, <2>2
<1>5. request'[tab] # None => \A e \in request'[tab].copy :
        StoreOf(e) = Store(request'[tab], KindOf(request'[tab])) /\ (Said(e) \/ Said(e)')
  BY <1>2 DEF CopyKept, Placed, Copied
<1>6. QED
  BY <1>4, <1>5, PlacedByOne

LEMMA AnsweredCopy ==
  ASSUME Typed, NEW tab \in Tabs, Answered(tab)
  PROVE  Becomes(tab, request'[tab]) /\ request'[tab] = None /\ CopyKept(tab)
BY AnsweredBecomes DEF Typed, Becomes, CopyKept

LEMMA Spoken ==
  ASSUME Typed, NEW tab \in Tabs, request[tab] # None, NEW kind \in {"company", "records"},
         Says(tab, kind)
  PROVE  /\ Speaks(Statement(request[tab], kind))
         /\ StoreOf(Statement(request[tab], kind)) = Store(request[tab], kind)
         /\ Statement(request[tab], kind) \in Statements
<1>1. PICK r \in Requests : r = request[tab]
  BY TabRequest DEF Typed
<1>2. QED
  BY <1>1, StatementType DEF Typed, Says, Speaks

\* The profile is written anew; the one before is replaced.
LEMMA FilesSaveProfile ==
  ASSUME Files, Typed', Shared, NEW tab \in Tabs, SaveProfile(tab)
  PROVE  Files'
<1>1. PICK r \in Requests : r = request[tab] /\ r # None /\ PlaceOK(r) /\ r.at = "start"
  BY ServedIs, NoRequestAssumption DEF SaveProfile, Serving, Files
<1>2. Typed /\ Placed /\ r.holds = None
  BY <1>1 DEF Files, PlaceOK
<1>3. PICK x \in Statements : /\ x = Statement(r, "company") /\ Speaks(x)
                              /\ StoreOf(x) = Store(r, "company")
  BY <1>1, <1>2, Spoken DEF SaveProfile
<1>4. PICK T \in Stores : T = Store(r, "company")
  BY RequestPaths
<1>5. PICK own \in Paths : /\ own = Writable(r, "company") /\ own[2] # Plain
                           /\ PathStore(own) = T
  BY <1>1, <1>2, <1>4, OwnPath
<1>6. PICK c \in SUBSET Statements : c = {x}
  OBVIOUS
<1>7. Put(own, c)
  BY <1>1, <1>3, <1>5, <1>6 DEF SaveProfile
<1>8. files'[own] = c /\ \A p \in Paths : p # own => files'[p] = files[p]
  BY <1>2, <1>7, TypedParts, PutTyped
<1>9. Turns(tab, "remember", r.holds, r.copy, r.list, r.adopted)
  BY <1>1, <1>2, GoesTurns DEF SaveProfile, Typed, Places
<1>10. Becomes(tab, request'[tab]) /\ CopyKept(tab) /\ request'[tab].holds = None
  BY <1>1, <1>2, <1>9, TurnsCopy DEF Turns
<1>11. Placed'
  <2>1. Said(x)'
    BY <1>2, <1>3, SaidLonger DEF Placed
  <2>2. \A e \in c : StoreOf(e) = Store(r, "company") /\ Said(e)'
    BY <1>3, <1>6, <2>1
  <2>3. PICK kind \in {"company", "records"} : kind = "company"
    OBVIOUS
  <2>4. QED
    BY <1>1, <1>2, <1>3, <1>4, <1>5, <1>7, <1>10, <2>2, <2>3, OwnFiled
<1>12. Touches(tab, T) /\ cleared' = cleared
  BY <1>1, <1>4 DEF SaveProfile
<1>13. OnlyTouches(tab, T)
  BY <1>1, <1>2, <1>3, <1>4, <1>5, <1>8, <1>10, <1>12, TouchTyped DEF OnlyTouches
<1>14. ASSUME T \notin racedFiles' PROVE StoreOK(T)'
  <2>1. ~HeldByOther(tab, T) /\ T # None
    BY <1>2, <1>12, <1>14, TouchTyped, NoListAssumption
  <2>2. \A u \in Tabs : ~Holder(u, T) /\ ~Holder(u, T)'
    BY <1>1, <1>2, <1>10, <2>1 DEF Holder, HeldByOther, Becomes
  <2>3. ASSUME NEW p \in Paths, NEW e \in Statements, StoreOf(e) = T
        PROVE  Holds(p, e)' <=> e \in Load(p)'
    BY <1>2, <1>11, <2>2, <2>3, WriterHolds DEF Holds
  <2>4. ~Said(x)
    BY <1>2, <1>3, SaidLonger DEF Placed
  <2>5. ASSUME NEW p \in Paths, NEW e \in Statements, StoreOf(e) = T, Holds(p, e)'
        PROVE  (p = own /\ e = x) \/ (p # own /\ e # x /\ Holds(p, e))
    <3>1. e \in Load(p)'
      BY <2>3, <2>5
    <3>2. CASE p = own
      BY <1>6, <1>8, <3>1, <3>2 DEF Load
    <3>3. CASE p # own
      <4>1. e \in Load(p)
        BY <1>8, <3>1, <3>3 DEF Load
      <4>2. QED
        BY <1>2, <2>4, <3>3, <4>1 DEF Holds, Placed, Filed
    <3>4. QED
      BY <3>2, <3>3
  <2>6. StoreOK(T)
    BY <1>2, <1>12, <1>14, TouchTyped DEF Files, StoresOK
  <2>7. Single(T)'
    BY <2>5, <2>6 DEF Single, StoreOK
  <2>8. PICK n \in Nat : n = Len(said)
    BY <1>2 DEF Typed, TypeOK
  <2>9. /\ Len(said') = n + 1 /\ said'[n + 1] = x /\ \A i \in 1..n : said'[i] = said[i]
    BY <1>2, <1>3, <2>8, SaidLonger DEF Placed
  <2>10. ASSUME NEW i \in 1..Len(said'), NEW e \in Statements, said'[i] = e, StoreOf(e) = T
         PROVE  Gone(i)' \/ \E path \in Paths : Holds(path, e)'
    <3>1. CASE i = n + 1
      <4>1. x \in Load(own)'
        BY <1>6, <1>8, NoFileAssumption DEF Load
      <4>2. QED
        BY <2>9, <2>10, <3>1, <4>1 DEF Holds
    <3>2. CASE i # n + 1
      <4>1. n + 1 \in (i + 1)..Len(said')
        BY <2>9, <2>10, <3>2
      <4>2. e.kind = "company"
        BY <1>4, <2>10 DEF StoreOf, Store
      <4>3. StoreOf(said'[n + 1]) = StoreOf(said'[i])
        BY <1>3, <1>4, <2>9, <2>10
      <4>4. QED
        BY <2>10, <4>1, <4>2, <4>3 DEF Gone
    <3>3. QED
      BY <3>1, <3>2
  <2>11. Kept(T)'
    BY <2>10 DEF Kept
  <2>12. QED
    BY <2>2, <2>7, <2>11, NobodyHolds
<1>15. QED
  BY <1>2, <1>11, <1>13, <1>14, FilesByOne

\* A store is read: what is read is what the request's own file holds.
LEMMA FilesTakes ==
  ASSUME Files, Typed', Shared, NEW tab \in Tabs, request[tab] # None,
         request[tab].at = "start", NEW kind \in {"company", "records"},
         kind = KindOf(request[tab]), Takes(tab, kind), UNCHANGED <<files, said, cleared>>
  PROVE  Files'
<1>1. PICK r \in Requests : r = request[tab] /\ PlaceOK(r)
  BY TabRequest DEF Files, Typed, PlacesOK
<1>2. Typed /\ Placed /\ r.holds = None
  BY <1>1 DEF Files, PlaceOK
<1>3. PICK T \in Stores : T = Store(r, kind) /\ T.kind = kind
  BY RequestPaths DEF Store
<1>4. PICK own \in Paths : /\ own = Writable(r, kind) /\ own[2] # Plain
                           /\ PathStore(own) = T
  BY <1>1, <1>2, <1>3, OwnPath
<1>5. PICK c : c = Load(own)
  OBVIOUS
<1>6. Load(Readable(r, kind)) = c
  BY <1>1, <1>2, <1>4, <1>5, ReadOwn
<1>7. Turns(tab, "write", T, c, r.list, r.adopted)
  BY <1>1, <1>2, <1>3, <1>6, TakesTurns DEF Typed
<1>8. PICK q \in Requests : /\ q = request'[tab] /\ q # None /\ Becomes(tab, q)
                            /\ q.at = "write" /\ q.holds = T /\ q.copy = c
                            /\ q.who = r.who /\ q.what = r.what /\ q.scope = r.scope
                            /\ q.slot = r.slot
  BY <1>1, <1>7, NoRequestAssumption DEF Turns
<1>9. Store(q, KindOf(q)) = T
  BY <1>1, <1>3, <1>8 DEF Store, KindOf
<1>10. \A path \in Paths : Load(path)' = Load(path)
  BY DEF Load
<1>11. \A e \in c : StoreOf(e) = T /\ Said(e)
  BY <1>2, <1>4, <1>5 DEF Placed, Filed, Mine
<1>12. Placed'
  <2>1. \A e \in request'[tab].copy :
          StoreOf(e) = Store(request'[tab], KindOf(request'[tab])) /\ (Said(e) \/ Said(e)')
    BY <1>8, <1>9, <1>11
  <2>2. QED
    BY <1>2, <1>8, <1>10, <2>1, PlacedByOne
<1>13. Fresh(tab, T)'
  <2>1. Writable(q, T.kind) = own
    BY <1>3, <1>4, <1>8 DEF Writable, Path
  <2>2. q.copy = Load(own)'
    BY <1>5, <1>8, <1>10
  <2>3. QED
    BY <1>8, <2>1, <2>2 DEF Fresh, At
<1>14. Touches(tab, T)
  BY <1>1, <1>3 DEF Takes
<1>15. QED
  BY <1>1, <1>2, <1>8, <1>12, <1>13, <1>14, FilesTaken

\* Who holds a store is the only one, and what it read is still so.
LEMMA SoleHolder ==
  ASSUME Files, NEW tab \in Tabs, NEW T \in Stores \ racedFiles, Holder(tab, T)
  PROVE  /\ \A u \in Tabs \ {tab} : ~Holder(u, T)
         /\ Fresh(tab, T) /\ Single(T) /\ Kept(T)
BY DEF Files, StoresOK, StoreOK, OneHolder, StillSo

\* A request that is done with a store holds none any more.
LEMMA Released ==
  ASSUME Files, NEW tab \in Tabs, NEW T \in Stores \ racedFiles, Holder(tab, T),
         Becomes(tab, request'[tab]), request'[tab] # None => request'[tab].holds = None
  PROVE  \A u \in Tabs : ~Holder(u, T)'
<1>1. T # None
  BY NoListAssumption
<1>2. QED
  BY <1>1, SoleHolder DEF Becomes, Holder

\* The frameworks are saved with the profile that was read.
LEMMA FilesSaveFrameworks ==
  ASSUME Files, Typed', Shared, NEW tab \in Tabs, SaveFrameworks(tab)
  PROVE  Files'
<1>1. PICK r \in Requests : /\ r = request[tab] /\ r # None /\ PlaceOK(r) /\ r.at = "write"
                            /\ r.what = "choose frameworks"
  BY ServedIs, NoRequestAssumption DEF SaveFrameworks, Serving, Files
<1>2. Typed /\ Placed
  BY DEF Files
<1>3. PICK kind \in {"company", "records"} : kind = "company" /\ kind = KindOf(r)
  BY <1>1 DEF KindOf
<1>4. PICK T \in Stores : T = Store(r, kind) /\ T.kind = kind /\ r.holds = T
  BY <1>1, <1>3, RequestPaths DEF Store, PlaceOK
<1>5. PICK own \in Paths : /\ own = Writable(r, kind) /\ own[2] # Plain
                           /\ PathStore(own) = T
  BY <1>1, <1>2, <1>4, OwnPath
<1>6. PICK c \in SUBSET Statements : c = r.copy
  BY Unchanged
<1>7. /\ Put(own, c) \/ UNCHANGED files
      /\ Answered(tab) /\ UNCHANGED <<said, cleared, racedFiles>>
  BY <1>1, <1>3, <1>5, <1>6 DEF SaveFrameworks, history
<1>8. Becomes(tab, request'[tab]) /\ request'[tab] = None /\ CopyKept(tab)
  BY <1>2, <1>7, AnsweredCopy
<1>9. CASE UNCHANGED files
  <2>1. Placed'
    BY <1>2, <1>7, <1>8, <1>9, PlacedByOne DEF Load
  <2>2. OnlyTouches(tab, T)
    BY <1>1, <1>4, <1>7, <1>8, <1>9 DEF OnlyTouches
  <2>3. ASSUME T \notin racedFiles' PROVE StoreOK(T)'
    <3>1. T \notin racedFiles /\ Holder(tab, T) /\ T # None
      BY <1>1, <1>4, <1>7, <2>3, NoListAssumption DEF Holder
    <3>2. \A u \in Tabs : (Holder(u, T) => u = tab) /\ ~Holder(u, T)'
      BY <1>8, <3>1, SoleHolder, Released
    <3>3. \A p \in Paths, e \in Statements : StoreOf(e) = T => (Holds(p, e)' <=> Holds(p, e))
      BY <1>1, <1>2, <1>9, <2>1, <3>2, SameHolds DEF At, Load
    <3>4. QED
      BY <1>2, <1>7, <3>1, <3>2, <3>3, SoleHolder, SameKept, NobodyHolds
  <2>4. QED
    BY <1>2, <2>1, <2>2, <2>3, FilesByOne
<1>10. CASE Put(own, c)
  <2>1. files'[own] = c /\ \A p \in Paths : p # own => files'[p] = files[p]
    BY <1>2, <1>10, TypedParts, PutTyped
  <2>2. Placed'
    BY <1>1, <1>2, <1>3, <1>4, <1>5, <1>6, <1>7, <1>8, <1>10, OwnFiled
  <2>3. OnlyTouches(tab, T)
    BY <1>1, <1>4, <1>5, <1>7, <1>8, <2>1 DEF OnlyTouches
  <2>4. ASSUME T \notin racedFiles' PROVE StoreOK(T)'
    <3>1. T \notin racedFiles /\ Holder(tab, T) /\ T # None
      BY <1>1, <1>4, <1>7, <2>4, NoListAssumption DEF Holder
    <3>2. \A u \in Tabs : (Holder(u, T) => u = tab) /\ ~Holder(u, T)'
      BY <1>8, <3>1, SoleHolder, Released
    <3>3. c = Load(own)
      BY <1>1, <1>4, <1>5, <1>6, <3>1, SoleHolder DEF Fresh, At
    <3>4. \A path \in Paths : Load(path)' = Load(path)
      BY <2>1, <3>3, NoFileAssumption DEF Load
    <3>5. \A p \in Paths, e \in Statements : StoreOf(e) = T => (Holds(p, e)' <=> Holds(p, e))
      BY <1>1, <1>2, <2>2, <3>2, <3>4, SameHolds DEF At
    <3>6. QED
      BY <1>2, <1>7, <3>1, <3>2, <3>5, SoleHolder, SameKept, NobodyHolds
  <2>5. QED
    BY <1>2, <2>2, <2>3, <2>4, FilesByOne
<1>11. QED
  BY <1>7, <1>9, <1>10

\* Records are opened to be written in place.
LEMMA FilesOpenRecords ==
  ASSUME Files, Typed', Shared, NEW tab \in Tabs, OpenRecords(tab)
  PROVE  Files'
<1>1. PICK r \in Requests : /\ r = request[tab] /\ r # None /\ PlaceOK(r) /\ r.at = "write"
                            /\ r.what = "add record"
  BY ServedIs, NoRequestAssumption DEF OpenRecords, Serving, Files
<1>2. Typed /\ Placed
  BY DEF Files
<1>3. PICK kind \in {"company", "records"} : kind = "records" /\ kind = KindOf(r)
  BY <1>1 DEF KindOf
<1>4. PICK T \in Stores : T = Store(r, kind) /\ T.kind = kind /\ r.holds = T
  BY <1>1, <1>3, RequestPaths DEF Store, PlaceOK
<1>5. PICK own \in Paths : /\ own = Writable(r, kind) /\ own[2] # Plain
                           /\ PathStore(own) = T
  BY <1>1, <1>2, <1>4, OwnPath
<1>6. Put(own, Torn) /\ Goes(tab, "writing") /\ UNCHANGED <<said, cleared, racedFiles>>
  BY <1>1, <1>3, <1>5 DEF OpenRecords, history
<1>7. files'[own] = Torn /\ \A p \in Paths : p # own => files'[p] = files[p]
  BY <1>2, <1>6, TypedParts, PutTyped
<1>8. Turns(tab, "writing", r.holds, r.copy, r.list, r.adopted)
  BY <1>1, <1>2, <1>6, GoesTurns DEF Typed, Places
<1>9. PICK q \in Requests : /\ q = request'[tab] /\ q # None /\ Becomes(tab, q) /\ CopyKept(tab)
                            /\ q.at = "writing" /\ q.holds = T /\ q.copy = r.copy
                            /\ q.who = r.who /\ q.what = r.what /\ q.scope = r.scope
                            /\ q.slot = r.slot
  BY <1>1, <1>4, <1>8, TurnsCopy, NoRequestAssumption DEF Turns
<1>10. Placed'
  <2>1. Torn \notin SUBSET Statements
    BY NoFileAssumption
  <2>2. QED
    BY <1>1, <1>2, <1>4, <1>5, <1>6, <1>9, <2>1, OwnFiled
<1>11. OnlyTouches(tab, T)
  BY <1>1, <1>4, <1>5, <1>6, <1>7, <1>9 DEF OnlyTouches
<1>12. ASSUME T \notin racedFiles' PROVE StoreOK(T)'
  <2>1. T \notin racedFiles /\ Holder(tab, T) /\ T # None
    BY <1>1, <1>4, <1>6, <1>12, NoListAssumption DEF Holder
  <2>2. \A u \in Tabs : (Holder(u, T) => u = tab) /\ (Holder(u, T)' => u = tab)
    BY <1>9, <2>1, SoleHolder DEF Becomes, Holder
  <2>3. r.copy = Load(own)
    BY <1>1, <1>4, <1>5, <2>1, SoleHolder DEF Fresh, At
  <2>4. Writable(q, T.kind) = own /\ Writable(q, "records") = own
    BY <1>3, <1>4, <1>5, <1>9 DEF Writable, Path
  <2>5. Fresh(tab, T)'
    BY <1>7, <1>9, <2>4 DEF Fresh, At
  <2>6. ASSUME NEW p \in Paths, NEW e \in Statements, StoreOf(e) = T
        PROVE  Holds(p, e)' <=> Holds(p, e)
    <3>1. Holds(p, e) <=> e \in Load(p)
      BY <1>1, <1>2, <1>10, <2>2, <2>6, WriterHolds DEF Holds, At
    <3>2. Holds(p, e)' <=> e \in Load(p)' \/ Writes(tab, p, e)'
      BY <1>2, <1>10, <2>2, <2>6, WriterHolds DEF Holds
    <3>3. Writes(tab, p, e)' <=> p = own /\ e \in Load(own)
      BY <1>9, <2>3, <2>4 DEF Writes, At
    <3>4. CASE p = own
      BY <1>7, <3>1, <3>2, <3>3, <3>4 DEF Load
    <3>5. CASE p # own
      BY <1>7, <3>1, <3>2, <3>3, <3>5 DEF Load
    <3>6. QED
      BY <3>4, <3>5
  <2>7. Single(T)' /\ Kept(T)'
    BY <1>2, <1>6, <2>1, <2>6, SoleHolder, SameKept
  <2>8. QED
    BY <2>2, <2>5, <2>7 DEF StoreOK, OneHolder, StillSo
<1>13. QED
  BY <1>2, <1>9, <1>10, <1>11, <1>12, FilesByOne

\* Records are saved with what was added to them, whole or where they were opened.
LEMMA FilesAdd ==
  ASSUME Files, Typed', Shared, NEW tab \in Tabs, SaveRecords(tab) \/ WriteRecords(tab)
  PROVE  Files'
<1>1. PICK r \in Requests : /\ r = request[tab] /\ r # None /\ PlaceOK(r)
                            /\ r.what = "add record" /\ r.at \in {"write", "writing"}
                            /\ SaveRecords(tab) => r.at = "write"
                            /\ WriteRecords(tab) => r.at = "writing"
  BY ServedIs, NoRequestAssumption DEF SaveRecords, WriteRecords, Serving, At, Files
<1>2. Typed /\ Placed
  BY DEF Files
<1>3. PICK kind \in {"company", "records"} : kind = "records" /\ kind = KindOf(r)
  BY <1>1 DEF KindOf
<1>4. PICK T \in Stores : T = Store(r, kind) /\ T.kind = kind /\ r.holds = T
  BY <1>1, <1>3, RequestPaths DEF Store, PlaceOK
<1>5. PICK own \in Paths : /\ own = Writable(r, kind) /\ own[2] # Plain
                           /\ PathStore(own) = T
  BY <1>1, <1>2, <1>4, OwnPath
<1>6. Says(tab, "records") /\ Answered(tab) /\ UNCHANGED <<cleared, racedFiles>>
  BY DEF SaveRecords, WriteRecords
<1>7. PICK x \in Statements : x = Statement(r, "records") /\ Speaks(x) /\ StoreOf(x) = T
  BY <1>1, <1>2, <1>3, <1>4, <1>6, Spoken
<1>8. PICK c \in SUBSET Statements : c = Added(tab) /\ c = r.copy \cup {x}
  BY <1>1, <1>2, <1>6, <1>7, AddedType
<1>9. Becomes(tab, request'[tab]) /\ request'[tab] = None /\ CopyKept(tab)
  BY <1>2, <1>6, AnsweredCopy
<1>10. Said(x)' /\ ~Said(x)
  BY <1>2, <1>7, SaidLonger DEF Placed
<1>11. PICK file \in Paths :
         /\ file[2] # Plain /\ PathStore(file) = T
         /\ Put(file, c) \/ (UNCHANGED files /\ WriteRecords(tab) /\ files[own] # Torn)
         /\ (SaveRecords(tab) \/ files[own] = Torn) => file = own
  <2>1. CASE SaveRecords(tab)
    BY <1>1, <1>3, <1>5, <1>8, <2>1 DEF SaveRecords
  <2>2. CASE WriteRecords(tab)
    <3>1. PICK file : file = Opened(r)
      OBVIOUS
    <3>2. \/ file = own
          \/ files[own] # Torn /\ file = Path("records", Account(r.who), r.slot)
      BY <1>3, <1>5, <3>1 DEF Opened
    <3>3. files[own] = Torn => file = own
      BY <1>3, <1>5, <3>1 DEF Opened
    <3>4. file \in Paths /\ file[2] # Plain /\ PathStore(file) = T
      BY <1>1, <1>2, <1>3, <1>4, <1>5, <3>2, OwnPath
    <3>5. IF files[file] = Torn THEN Put(file, c) ELSE UNCHANGED files
      BY <1>1, <1>8, <2>2, <3>1 DEF WriteRecords
    <3>6. SaveRecords(tab) => file = own
      BY <1>1, <2>2
    <3>7. QED
      BY <2>2, <3>3, <3>4, <3>5, <3>6
  <2>3. QED
    BY <2>1, <2>2
<1>12. Placed'
  <2>1. \A e \in c : \/ kind = KindOf(r) /\ e \in r.copy
                     \/ StoreOf(e) = Store(r, kind) /\ Said(e)'
    BY <1>3, <1>4, <1>7, <1>8, <1>10
  <2>2. CASE Put(file, c)
    BY <1>1, <1>2, <1>4, <1>7, <1>9, <1>11, <2>1, <2>2, OwnFiled
  <2>3. CASE UNCHANGED files
    <3>1. \A path \in Paths : Load(path)' = Load(path)
      BY <2>3 DEF Load
    <3>2. QED
      BY <1>2, <1>7, <1>9, <3>1, PlacedByOne
  <2>4. QED
    BY <1>11, <2>2, <2>3
<1>13. OnlyTouches(tab, T)
  <2>1. \A p \in Paths : p # file => files'[p] = files[p]
    BY <1>2, <1>11, TypedParts, PutTyped
  <2>2. QED
    BY <1>1, <1>4, <1>6, <1>7, <1>9, <1>11, <2>1 DEF OnlyTouches
<1>14. ASSUME T \notin racedFiles' PROVE StoreOK(T)'
  <2>1. T \in Stores \ racedFiles /\ Holder(tab, T) /\ T # None
    BY <1>1, <1>4, <1>6, <1>14, NoListAssumption DEF Holder
  <2>2. \A u \in Tabs : (Holder(u, T) => u = tab) /\ ~Holder(u, T)'
    BY <1>9, <2>1, SoleHolder, Released
  <2>3. /\ r.at = "write" => r.copy = Load(own)
        /\ r.at = "writing" => files[own] = Torn
    BY <1>1, <1>4, <1>5, <2>1, SoleHolder DEF Fresh, At
  <2>4. file = own /\ Put(own, c)
    BY <1>1, <1>11, <2>3
  <2>5. files'[own] = c /\ \A p \in Paths : p # own => files'[p] = files[p]
    BY <1>2, <2>4, TypedParts, PutTyped
  <2>6. ASSUME NEW p \in Paths, NEW e \in Statements, StoreOf(e) = T
        PROVE  Holds(p, e)' <=> Holds(p, e) \/ (p = own /\ e = x)
    <3>1. Holds(p, e)' <=> e \in Load(p)'
      BY <1>2, <1>12, <2>2, <2>6, WriterHolds DEF Holds
    <3>2. Holds(p, e) <=> e \in Load(p) \/ Writes(tab, p, e)
      BY <1>2, <1>12, <2>2, <2>6, WriterHolds DEF Holds
    <3>3. Writes(tab, p, e) <=> r.at = "writing" /\ p = own /\ e \in r.copy
      BY <1>1, <1>3, <1>5 DEF Writes, At
    <3>4. CASE p = own
      <4>1. e \in Load(p)' <=> e \in r.copy \/ e = x
        BY <1>8, <2>5, <3>4, NoFileAssumption DEF Load
      <4>2. Holds(p, e) <=> e \in r.copy
        <5>1. CASE r.at = "write"
          BY <2>3, <3>2, <3>3, <3>4, <5>1
        <5>2. CASE r.at = "writing"
          BY <2>3, <3>2, <3>3, <3>4, <5>2 DEF Load
        <5>3. QED
          BY <1>1, <5>1, <5>2
      <4>3. QED
        BY <3>1, <3>4, <4>1, <4>2
    <3>5. CASE p # own
      BY <2>5, <3>1, <3>2, <3>3, <3>5 DEF Load
    <3>6. QED
      BY <3>4, <3>5
  <2>7. Single(T)' /\ Kept(T)'
    BY <1>2, <1>6, <1>7, <1>12, <2>1, <2>6, SoleHolder, AddedKept
  <2>8. QED
    BY <2>2, <2>7, NobodyHolds
<1>15. QED
  BY <1>2, <1>9, <1>12, <1>13, <1>14, FilesByOne

\* The records that are shown are cleared.
LEMMA FilesClearRecords ==
  ASSUME Files, Typed', Shared, NEW tab \in Tabs, ClearRecords(tab)
  PROVE  Files'
<1>1. PICK r \in Requests : r = request[tab] /\ r # None /\ PlaceOK(r) /\ r.at = "start"
  BY ServedIs, NoRequestAssumption DEF ClearRecords, Serving, Files
<1>2. Typed /\ Placed /\ r.holds = None
  BY <1>1 DEF Files, PlaceOK
<1>3. PICK T \in Stores : T = Store(r, "records")
  BY RequestPaths
<1>4. PICK own \in Paths : /\ own = Writable(r, "records") /\ own[2] # Plain
                           /\ PathStore(own) = T
  BY <1>1, <1>2, <1>3, OwnPath
<1>5. PICK shown \in Paths : /\ shown = Readable(r, "records")
                             /\ shown = own \/ shown[2] = Plain
  BY <1>1, <1>2, <1>4, ReadOwn, RequestPaths
<1>6. /\ Put(shown, None) /\ cleared' = cleared \cup Load(shown) /\ Touches(tab, T)
      /\ Answered(tab) /\ said' = said
  BY <1>1, <1>3, <1>5 DEF ClearRecords
<1>7. files'[shown] = None /\ \A p \in Paths : p # shown => files'[p] = files[p]
  BY <1>2, <1>6, TypedParts, PutTyped
<1>8. Becomes(tab, request'[tab]) /\ request'[tab] = None /\ CopyKept(tab)
  BY <1>2, <1>6, AnsweredCopy
<1>9. \A p \in Paths : Load(p)' = IF p = shown THEN {} ELSE Load(p)
  BY <1>7 DEF Load
<1>10. Placed'
  BY <1>2, <1>6, <1>8, <1>9, PlacedByOne
<1>11. OnlyTouches(tab, T)
  BY <1>1, <1>2, <1>4, <1>5, <1>6, <1>7, <1>8, TouchTyped DEF OnlyTouches
<1>12. ASSUME T \notin racedFiles' PROVE StoreOK(T)'
  <2>1. ~HeldByOther(tab, T) /\ T # None /\ StoreOK(T)
    BY <1>2, <1>6, <1>12, TouchTyped, NoListAssumption DEF Files, StoresOK
  <2>2. \A u \in Tabs : ~Holder(u, T) /\ ~Holder(u, T)'
    BY <1>1, <1>2, <1>8, <2>1 DEF Holder, HeldByOther, Becomes
  <2>3. ASSUME NEW p \in Paths, NEW e \in Statements, StoreOf(e) = T
        PROVE  /\ Holds(p, e)' <=> e \in Load(p)'
               /\ Holds(p, e) <=> e \in Load(p)
    BY <1>2, <1>10, <2>2, <2>3, WriterHolds DEF Holds
  <2>4. Single(T)'
    BY <1>9, <2>1, <2>3 DEF StoreOK, Single
  <2>5. ASSUME NEW i \in 1..Len(said'), NEW e \in Statements, said'[i] = e, StoreOf(e) = T
        PROVE  Gone(i)' \/ \E path \in Paths : Holds(path, e)'
    <3>1. Gone(i) \/ \E path \in Paths : Holds(path, e)
      BY <1>6, <2>1, <2>5 DEF StoreOK, Kept
    <3>2. CASE Gone(i)
      BY <1>6, <3>2 DEF Gone
    <3>3. CASE \E path \in Paths : Holds(path, e)
      <4>1. PICK path \in Paths : e \in Load(path)
        BY <2>3, <2>5, <3>3
      <4>2. CASE path = shown
        BY <1>6, <2>5, <4>1, <4>2 DEF Gone
      <4>3. CASE path # shown
        BY <1>9, <2>3, <2>5, <4>1, <4>3
      <4>4. QED
        BY <4>2, <4>3
    <3>4. QED
      BY <3>1, <3>2, <3>3
  <2>6. Kept(T)'
    BY <2>5 DEF Kept
  <2>7. QED
    BY <2>2, <2>4, <2>6, NobodyHolds
<1>13. QED
  BY <1>2, <1>8, <1>10, <1>11, <1>12, FilesByOne

\* A store is looked for and then moved to the account.
LEMMA FilesAdoption ==
  ASSUME Files, Typed', Shared, NEW tab \in Tabs, LookFor(tab) \/ Move(tab)
  PROVE  Files'
<1>1. PICK r \in Requests :
        /\ r = request[tab] /\ Adopted(r) \in Stores
        /\ \/ /\ r.at = "start" /\ r.holds = None /\ Touches(tab, Adopted(r))
              /\ files[From(Adopted(r))] # None /\ files[To(Adopted(r))] = None
              /\ UNCHANGED files
              /\ Turns(tab, "move", Adopted(r), r.copy, r.list, r.adopted)
           \/ /\ r.at = "start" /\ r.holds = None /\ UNCHANGED <<files, racedFiles>>
              /\ Turns(tab, "start", r.holds, r.copy, r.list, r.adopted + 1)
           \/ /\ r.at = "move" /\ r.holds = Adopted(r) /\ Move(tab)
              /\ Turns(tab, "start", None, r.copy, r.list, r.adopted + 1)
  BY AdoptionTurns DEF Files
<1>2. Typed /\ Placed /\ r # None
  BY <1>1, NoRequestAssumption DEF Files
<1>3. PICK T \in Stores : T = Adopted(r)
  BY <1>1
<1>4. UNCHANGED <<said, cleared>>
  BY DEF LookFor, Move, history
<1>5. PICK q \in Requests : q = request'[tab] /\ q # None /\ Becomes(tab, q) /\ CopyKept(tab)
  <2>1. \E at, holds, copy, list, adopted :
          copy = r.copy /\ Turns(tab, at, holds, copy, list, adopted)
    BY <1>1
  <2>2. QED
    BY <1>1, <1>2, <2>1, TurnsCopy, NoRequestAssumption DEF Turns
<1>6. CASE /\ r.at = "start" /\ r.holds = None /\ Touches(tab, T)
           /\ files[From(T)] # None /\ files[To(T)] = None /\ UNCHANGED files
           /\ Turns(tab, "move", T, r.copy, r.list, r.adopted)
  <2>1. q.at = "move" /\ q.holds = T
    BY <1>5, <1>6 DEF Turns
  <2>2. \A path \in Paths : Load(path)' = Load(path)
    BY <1>6 DEF Load
  <2>3. \A e \in q.copy : StoreOf(e) = Store(q, KindOf(q)) /\ Said(e)
    BY <1>1, <1>2, <1>5 DEF CopyKept, Placed, Copied
  <2>4. Placed'
    BY <1>2, <1>4, <1>5, <2>2, <2>3, PlacedByOne
  <2>5. Fresh(tab, T)'
    BY <1>5, <1>6, <2>1 DEF Fresh, At, From, To, Path
  <2>6. QED
    BY <1>1, <1>2, <1>4, <1>5, <1>6, <2>1, <2>4, <2>5, FilesTaken
<1>7. CASE /\ r.holds = None /\ UNCHANGED <<files, racedFiles>>
           /\ Turns(tab, "start", r.holds, r.copy, r.list, r.adopted + 1)
  <2>1. q.holds = None
    BY <1>5, <1>7 DEF Turns
  <2>2. QED
    BY <1>1, <1>2, <1>4, <1>5, <1>7, <2>1, QuietFiles
<1>8. CASE /\ r.at = "move" /\ r.holds = T /\ Move(tab)
           /\ Turns(tab, "start", None, r.copy, r.list, r.adopted + 1)
  <2>1. q.holds = None /\ racedFiles' = racedFiles
    BY <1>5, <1>8 DEF Turns, Move, history
  <2>2. Holder(tab, T) /\ At(tab, "move")
    BY <1>1, <1>2, <1>8 DEF Holder, At
  <2>3. PICK from \in Paths, to \in Paths :
          /\ from = From(T) /\ to = To(T) /\ from # to
          /\ from[2] # Plain /\ PathStore(from) = T /\ to[2] # Plain /\ PathStore(to) = T
    BY <1>1, <1>2, <1>8, <2>2, HolderPaths
  <2>4. IF files[from] = None THEN UNCHANGED files
        ELSE files' = [files EXCEPT ![to] = files[from], ![from] = None]
    <3>1. /\ from = Path(Kinds[r.adopted + 1], Visitor(r.who), First)
          /\ to = Path(Kinds[r.adopted + 1], Account(r.who), First)
      BY <1>3, <2>3 DEF From, To, Adopted
    <3>2. QED
      BY <1>1, <1>8, <3>1 DEF Move
  <2>5. /\ \A p \in Paths : p # from /\ p # to => files'[p] = files[p]
        /\ files[from] # None => files'[from] = None /\ files'[to] = files[from]
        /\ files[from] = None => files' = files
    BY <1>2, <2>3, <2>4 DEF Typed, TypeOK
  <2>6. ASSUME NEW p \in Paths, NEW e, e \in Load(p)'
        PROVE  e \in Load(p) \/ (Mine(p, e) /\ Said(e)')
    <3>1. CASE p = to /\ files[from] # None
      <4>1. e \in Load(from)
        BY <2>5, <2>6, <3>1 DEF Load
      <4>2. QED
        BY <1>2, <1>4, <2>3, <3>1, <4>1 DEF Placed, Filed, Mine, Said
    <3>2. CASE p # to \/ files[from] = None
      BY <2>5, <2>6, <3>2 DEF Load
    <3>3. QED
      BY <3>1, <3>2
  <2>7. \A e \in q.copy : StoreOf(e) = Store(q, KindOf(q)) /\ Said(e)
    BY <1>1, <1>2, <1>5 DEF CopyKept, Placed, Copied
  <2>8. Placed'
    BY <1>2, <1>4, <1>5, <2>6, <2>7, PlacedByOne
  <2>9. OnlyTouches(tab, T)
    BY <1>1, <1>4, <1>5, <1>8, <2>1, <2>3, <2>5 DEF OnlyTouches
  <2>10. ASSUME T \notin racedFiles' PROVE StoreOK(T)'
    <3>1. T \in Stores \ racedFiles /\ T # None
      BY <2>1, <2>10, NoListAssumption
    <3>2. \A u \in Tabs : (Holder(u, T) => u = tab) /\ ~Holder(u, T)'
      BY <1>5, <2>1, <2>2, <3>1, SoleHolder, Released
    <3>3. files[from] # None /\ files[to] = None /\ Single(T) /\ Kept(T)
      <4>1. \E own \in Paths : own = Writable(r, T.kind)
        BY RequestPaths DEF Stores
      <4>2. QED
        BY <1>1, <2>2, <2>3, <3>1, <4>1, SoleHolder DEF Fresh
    <3>4. ASSUME NEW p \in Paths, NEW e \in Statements, StoreOf(e) = T
          PROVE  /\ Holds(p, e)' <=> e \in Load(p)'
                 /\ Holds(p, e) <=> e \in Load(p)
      <4>1. \A u \in Tabs : ~Writes(u, p, e) /\ ~Writes(u, p, e)'
        BY <1>1, <1>2, <1>8, <2>8, <3>2, <3>4, WriterHolds DEF At
      <4>2. QED
        BY <4>1 DEF Holds
    <3>5. \A p \in Paths : Load(p)' = IF p = from THEN {}
                                      ELSE IF p = to THEN Load(from) ELSE Load(p)
      BY <2>3, <2>5, <3>3 DEF Load
    <3>6. Load(to) = {}
      BY <3>3 DEF Load
    <3>7. Single(T)'
      BY <2>3, <3>3, <3>4, <3>5, <3>6 DEF Single
    <3>8. ASSUME NEW e \in Statements, StoreOf(e) = T, \E path \in Paths : Holds(path, e)
          PROVE  \E path \in Paths : Holds(path, e)'
      BY <2>3, <3>4, <3>5, <3>6, <3>8
    <3>9. Kept(T)'
      BY <1>4, <3>3, <3>8 DEF Kept, Gone
    <3>10. QED
      BY <3>2, <3>7, <3>9, NobodyHolds
  <2>11. QED
    BY <1>2, <1>5, <2>8, <2>9, <2>10, FilesByOne
<1>9. QED
  BY <1>1, <1>3, <1>6, <1>7, <1>8

\* A request that is for the index, for the session or for nothing.
Reaches(tab) ==
  \/ \E p \in People, what \in Acts, which \in {None} \cup Slots : Arrive(tab, p, what, which)
  \/ Remember(tab) \/ NewFirm(tab) \/ OpenFirm(tab) \/ OpenIndex(tab) \/ WriteIndex(tab)
  \/ SignIn(tab) \/ SignOut(tab)

LEMMA ReachesQuiet ==
  ASSUME Typed, NEW tab \in Tabs, Reaches(tab)
  PROVE  /\ Becomes(tab, request'[tab]) /\ CopyKept(tab)
         /\ request[tab] # None => request[tab].holds = None
         /\ request'[tab] # None => request'[tab].holds = None
         /\ UNCHANGED <<files, said, cleared, racedFiles>>
<1>1. UNCHANGED <<files, said, cleared, racedFiles>>
  BY DEF Reaches, Arrive, Remember, NewFirm, OpenFirm, Reads, OpenIndex, WriteIndex, SignIn,
         SignOut, history
<1>2. CASE \E p \in People, what \in Acts, which \in {None} \cup Slots :
             Arrive(tab, p, what, which)
  <2>1. PICK p \in People, what \in Acts, which \in {None} \cup Slots :
          Arrive(tab, p, what, which)
    BY <1>2
  <2>2. PICK q : q = [who |-> p, what |-> what, which |-> which, scope |-> VisitorScope(p),
                      slot |-> LoadIndex(VisitorScope(p)).active, signed |-> p \in signed,
                      adopted |-> 0, at |-> Begins(what), holds |-> None, copy |-> {},
                      list |-> None]
    OBVIOUS
  <2>3. q.holds = None /\ q.copy = {}
    BY <2>2
  <2>4. request' = [request EXCEPT ![tab] = q] /\ request[tab] = None
    BY <2>1, <2>2 DEF Arrive
  <2>5. Becomes(tab, q) /\ request'[tab] = q
    BY <2>4 DEF Typed, TypeOK, Becomes
  <2>6. QED
    BY <1>1, <2>3, <2>4, <2>5 DEF CopyKept
<1>3. CASE ~\E p \in People, what \in Acts, which \in {None} \cup Slots :
              Arrive(tab, p, what, which)
  <2>0. \E place \in {"start", "remember", "choose", "remembered", "chosen", "remembering",
                     "choosing"} : At(tab, place)
    BY <1>3 DEF Reaches, Remember, NewFirm, OpenFirm, OpenIndex, WriteIndex, SignIn, SignOut,
                Serving
  <2>1. PICK r \in Requests : /\ r = request[tab] /\ r # None /\ PlaceOK(r)
                              /\ r.at \notin {"write", "writing", "move"}
    BY <2>0, ServedIs, NoRequestAssumption
  <2>2. r.holds = None
    BY <2>1 DEF PlaceOK
  <2>3. \/ Becomes(tab, None)
        \/ \E at, list : Turns(tab, at, r.holds, r.copy, list, r.adopted)
    <3>1. CASE Answered(tab) \/ Remembers(tab)
      BY <2>1, <3>1, AnsweredBecomes, RemembersTurns DEF Typed
    <3>2. CASE \E place \in {"remembering", "choosing"} : Goes(tab, place)
      BY <2>1, <3>2, GoesTurns DEF Typed, Places
    <3>3. CASE \E place \in {"remembered", "chosen"}, idx \in Lists : Reads(tab, place, idx)
      BY <2>1, <3>3, ReadsTurns DEF Typed, Places
    <3>4. PICK idx \in Lists : idx = LoadIndex(r.scope) /\ Numbered(idx)
      BY ListLoaded DEF Typed, Requests
    <3>5. /\ Remembered(r, idx) \in Lists
          /\ idx.issued < MaxFirms => Issue(idx) \in Lists
          /\ \A k \in idx.slots : [idx EXCEPT !.active = k] \in Lists
      BY <3>4, RememberedGrows, IssueGrows, OpenedGrows DEF Grows
    <3>6. CASE Remember(tab)
      BY <2>1, <3>1, <3>3, <3>4, <3>5, <3>6 DEF Remember
    <3>7. CASE NewFirm(tab)
      BY <2>1, <3>3, <3>4, <3>5, <3>7 DEF NewFirm
    <3>8. CASE OpenFirm(tab)
      BY <2>1, <3>1, <3>3, <3>4, <3>5, <3>8 DEF OpenFirm
    <3>9. QED
      BY <1>3, <3>1, <3>2, <3>6, <3>7, <3>8 DEF Reaches, OpenIndex, WriteIndex, SignIn, SignOut
  <2>4. CASE Becomes(tab, None)
    BY <1>1, <2>1, <2>2, <2>4 DEF Becomes, CopyKept
  <2>5. CASE \E at, list : Turns(tab, at, r.holds, r.copy, list, r.adopted)
    <3>1. PICK at, list : Turns(tab, at, r.holds, r.copy, list, r.adopted)
      BY <2>5
    <3>2. CopyKept(tab)
      BY <2>1, <3>1, TurnsCopy
    <3>3. QED
      BY <1>1, <2>1, <2>2, <3>1, <3>2 DEF Turns
  <2>6. QED
    BY <2>3, <2>4, <2>5
<1>4. QED
  BY <1>2, <1>3

\* The server dies: a file that was being written is cut short, and that is counted.
LEMMA FilesCrash ==
  ASSUME Files, Typed', Crash
  PROVE  Files'
<1>1. /\ request' = [tab \in Tabs |-> None] /\ UNCHANGED <<files, said, cleared>>
      /\ racedFiles \subseteq racedFiles'
      /\ \A t \in Tabs : At(t, "writing") => request[t].holds \in racedFiles'
  BY DEF Crash
<1>2. Typed /\ Placed
  BY DEF Files
<1>3. \A t \in Tabs : request'[t] = None
  BY <1>1
<1>4. \A path \in Paths : Load(path)' = Load(path)
  BY <1>1 DEF Load
<1>5. Placed'
  BY <1>1, <1>2, <1>3, <1>4 DEF Placed, Dated, Filed, Copied, Said
<1>6. ASSUME NEW T \in Stores, T \notin racedFiles' PROVE StoreOK(T)'
  <2>1. StoreOK(T)
    BY <1>1, <1>6 DEF Files, StoresOK
  <2>2. \A u \in Tabs : ~Holder(u, T)' /\ ~(Holder(u, T) /\ At(u, "writing"))
    BY <1>1, <1>3, <1>6 DEF Holder
  <2>3. \A p \in Paths, e \in Statements : StoreOf(e) = T => (Holds(p, e)' <=> Holds(p, e))
    BY <1>2, <1>4, <1>5, <2>2, SameHolds
  <2>4. Single(T)' /\ Kept(T)'
    BY <1>1, <1>2, <2>1, <2>3, SameKept DEF StoreOK
  <2>5. QED
    BY <2>2, <2>4, NobodyHolds
<1>7. QED
  BY <1>5, <1>6 DEF Files, StoresOK

LEMMA FilesInit == Init => Files
<1>1. SUFFICES ASSUME Init PROVE Files
  OBVIOUS
<1>2. /\ \A tab \in Tabs : request[tab] = None
      /\ \A path \in Paths : Load(path) = {}
      /\ said = <<>>
  BY <1>1 DEF Init, Load
<1>3. Placed
  BY <1>2 DEF Placed, Dated, Filed, Copied
<1>4. ASSUME NEW T \in Stores PROVE StoreOK(T)
  <2>1. OneHolder(T) /\ StillSo(T)
    BY <1>2 DEF OneHolder, StillSo, Holder
  <2>2. Single(T)
    BY <1>2 DEF Single, Holds, Writes, At
  <2>3. Kept(T)
    BY <1>2 DEF Kept
  <2>4. QED
    BY <2>1, <2>2, <2>3 DEF StoreOK
<1>5. QED
  BY <1>1, <1>3, <1>4, TypedInit DEF Files, StoresOK

LEMMA FilesStutter ==
  ASSUME Files, UNCHANGED vars
  PROVE  Files'
<1>1. Typed'
  BY TypedStep DEF Files
<1>2. Placed'
  BY DEF vars, Files, Placed, Dated, Filed, Copied, Said, Load
<1>3. ASSUME NEW T PROVE StoreOK(T) => StoreOK(T)'
  BY DEF vars, StoreOK, OneHolder, StillSo, Holder, Fresh, Single, Kept, Holds, Writes, Gone, At,
         Load
<1>4. QED
  BY <1>1, <1>2, <1>3 DEF Files, StoresOK, vars

LEMMA FilesStep ==
  ASSUME Shared
  PROVE  Files /\ [Next]_vars => Files'
<1>1. SUFFICES ASSUME Files, [Next]_vars PROVE Files'
  OBVIOUS
<1>2. Typed /\ Typed'
  BY <1>1, TypedStep DEF Files
<1>3. CASE \E tab \in Tabs : ReadProfile(tab) \/ ReadRecords(tab)
  <2>1. PICK tab \in Tabs : ReadProfile(tab) \/ ReadRecords(tab)
    BY <1>3
  <2>2. /\ At(tab, "start") /\ UNCHANGED <<files, said, cleared>>
        /\ \/ \E kind \in {"company", "records"} :
                kind = KindOf(request[tab]) /\ Takes(tab, kind)
           \/ Answered(tab) /\ UNCHANGED racedFiles
    BY <2>1 DEF ReadProfile, ReadRecords, Serving, KindOf
  <2>3. request[tab] # None /\ request[tab].at = "start" /\ request[tab].holds = None
    <3>1. PICK r \in Requests : r = request[tab] /\ PlaceOK(r) /\ r.at = "start"
      BY <1>2, <2>2, ServedIs
    <3>2. QED
      BY <2>2, <3>1 DEF At, PlaceOK
  <2>4. CASE Answered(tab) /\ UNCHANGED racedFiles
    BY <1>1, <1>2, <2>2, <2>3, <2>4, AnsweredCopy, QuietFiles
  <2>5. QED
    BY <1>1, <1>2, <2>2, <2>3, <2>4, FilesTakes
<1>4. CASE \E tab \in Tabs : Reaches(tab)
  BY <1>1, <1>2, <1>4, ReachesQuiet, QuietFiles
<1>5. CASE \E tab \in Tabs : SaveProfile(tab) \/ SaveFrameworks(tab) \/ SaveRecords(tab)
             \/ OpenRecords(tab) \/ WriteRecords(tab) \/ ClearRecords(tab)
  BY <1>1, <1>2, <1>5, FilesSaveProfile, FilesSaveFrameworks, FilesAdd, FilesOpenRecords,
     FilesClearRecords
<1>6. CASE \E tab \in Tabs : LookFor(tab) \/ Move(tab)
  BY <1>1, <1>2, <1>6, FilesAdoption
<1>7. "open firm" \in Acts
  BY DEF Acts
<1>8. QED
  BY <1>1, <1>2, <1>3, <1>4, <1>5, <1>6, <1>7, FilesCrash, FilesStutter DEF Next, Reaches

LEMMA FilesAlways == Shared => (Spec => []Files)
<1>1. SUFFICES ASSUME Shared PROVE Spec => []Files
  OBVIOUS
<1>2. Files /\ [Next]_vars => Files'
  BY <1>1, FilesStep
<1>3. QED
  BY <1>2, FilesInit, PTL DEF Spec

\* Nobody's records are another's, nor one firm's another firm's, whoever signs in or
\* out, whatever is open elsewhere and whatever other requests do while one is served
\* (web/app.py).
THEOREM FilesAlwaysOfOneFirm == Shared => (Spec => []FilesAreOfOneFirm)
<1>1. SUFFICES ASSUME Shared PROVE Spec => []FilesAreOfOneFirm
  OBVIOUS
<1>2. Files => FilesAreOfOneFirm
  BY DEF Files, Placed, Filed, Mine, PathStore, StoreOf, FilesAreOfOneFirm
<1>3. QED
  BY <1>1, <1>2, FilesAlways, PTL

\* A statement is where it is held.
LEMMA HoldingHolds ==
  ASSUME NEW e
  PROVE  Holding(e) = {path \in Paths : Holds(path, e)}
BY DEF Holding, Holds, Writes

\* Signing in neither loses what was said before nor doubles it, whatever requests
\* overlap and wherever the server dies, as long as no request changed or moved that
\* store under another and none was cut short while it wrote it in place (web/adopt.py).
THEOREM StatementsAlwaysKept == Shared => (Spec => []StatementsAreKept)
<1>1. SUFFICES ASSUME Shared PROVE Spec => []StatementsAreKept
  OBVIOUS
<1>2. ASSUME Files, NEW i \in 1..Len(said), StoreOf(said[i]) \notin racedFiles
      PROVE  /\ Cardinality(Holding(said[i])) <= 1
             /\ Gone(i) \/ Cardinality(Holding(said[i])) = 1
  <2>1. PICK e \in Statements : e = said[i]
    BY <1>2 DEF Files, Typed, TypeOK
  <2>2. PICK T \in Stores : T = StoreOf(e)
    BY DEF StoreOf, Stores, Statements
  <2>3. Single(T) /\ Kept(T)
    BY <1>2, <2>1, <2>2 DEF Files, StoresOK, StoreOK
  <2>4. \A p, q \in Holding(e) : p = q
    BY <2>2, <2>3, HoldingHolds DEF Single
  <2>5. CASE Holding(e) = {}
    <3>1. Gone(i)
      BY <1>2, <2>1, <2>2, <2>3, <2>5, HoldingHolds DEF Kept
    <3>2. QED
      BY <2>1, <2>5, <3>1, FS_EmptySet
  <2>6. CASE Holding(e) # {}
    <3>1. PICK p : Holding(e) = {p}
      BY <2>4, <2>6
    <3>2. PICK c \in Nat : c = 1 /\ Cardinality({p}) = c
      BY FS_Singleton
    <3>3. Cardinality(Holding(said[i])) = 1
      BY <2>1, <3>1, <3>2
    <3>4. QED
      BY <3>3
  <2>7. QED
    BY <2>5, <2>6
<1>3. Files => StatementsAreKept
  BY <1>2 DEF StatementsAreKept, Gone
<1>4. QED
  BY <1>1, <1>3, FilesAlways, PTL
=============================================================================
