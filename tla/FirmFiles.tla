----------------------------- MODULE FirmFiles -----------------------------
(***************************************************************************)
(* Whose records a request reads and writes: the files a firm's data lives *)
(* in, named after the visitor and the firm that is open (web/app.py), the *)
(* index of a visitor's firms (companies.py), and what signing in does     *)
(* with the files of the visitor one was before (web/adopt.py).            *)
(*                                                                         *)
(* Who is asking and which firm is open is settled when a request arrives; *)
(* what it reads and what it writes, when it is served.  Nothing is locked: *)
(* a request that changes a file reads it in one step and saves it in      *)
(* another, and other requests are served in between.                      *)
(***************************************************************************)
EXTENDS Integers, Sequences, FiniteSets

CONSTANTS
  People,
  Tabs,        \* where requests come from, each at a time one person's
  Shared,      \* SANHITA_SHARED: several people use one deployment
  MaxFirms,    \* bound on the firms of one person
  MaxWrites,   \* bound on what is written down
  MaxRequests, \* bound on the requests made
  MaxCrashes,
  None, Torn

ASSUME FirmsAssumption ==
  /\ Shared \in BOOLEAN
  /\ MaxFirms \in Nat \ {0} /\ MaxWrites \in Nat /\ MaxRequests \in Nat /\ MaxCrashes \in Nat
  /\ None \notin People \cup Tabs /\ None # Torn

VARIABLES
  files,      \* Paths -> what the file holds, None without one, Torn if half written
  index,      \* Scopes -> the list of firms, None without one, Torn if half written
  signed,     \* the people signed in
  request,    \* Tabs -> the request being served, or None
  requests,   \* how many were made
  said,       \* every statement a firm made of its records, in order (history)
  cleared,    \* the statements in records that were cleared (history)
  racedFiles, \* the stores a request changed under another (history)
  racedLists, \* the scopes whose list a request read under another (history)
  crashes

vars == <<files, index, signed, request, requests, said, cleared, racedFiles, racedLists, crashes>>
history == <<said, cleared, racedFiles, racedLists>>

-----------------------------------------------------------------------------
(* Names of files.                                                         *)

\* company.json, which lives at the root, and the sidecars beside a rulebook,
\* all of which are read and written alike.  In the order of SIDECARS.
Kinds == <<"company", "records">>

\* One firm's slot is 1 (FIRST_SLOT), the others are c2, c3 and so on.
First == 1
Slots == First..MaxFirms

\* The files without a scope: the demonstration's on a shared deployment, the
\* firm's own on a laptop.
Plain == <<None, "plain">>
Visitor(p) == <<p, "visitor">>
Account(p) == <<p, "account">>
Scopes == {Plain} \cup (People \X {"visitor", "account"})

Path(kind, scope, slot) == <<kind, scope, slot>>
Paths == {"company", "records"} \X Scopes \X Slots

VisitorScope(p) ==
  IF ~Shared THEN Plain ELSE IF p \in signed THEN Account(p) ELSE Visitor(p)

\* Mutant: a visitor is given the copy to write that was read.
WritableWhereRead(r, kind) ==
  IF files[Path(kind, r.scope, r.slot)] # None \/ files[Path(kind, Plain, First)] = None
  THEN Path(kind, r.scope, r.slot) ELSE Path(kind, Plain, First)

\* _writable and _company_write_path, by _scoped_name.
Writable(r, kind) == Path(kind, r.scope, r.slot)

\* _sidecar and _company_path: the seed until there is an own copy, unless signed in.
Readable(r, kind) ==
  LET own  == Path(kind, r.scope, r.slot)
      seed == Path(kind, Plain, First)
  IN  IF r.signed \/ files[own] # None \/ files[seed] = None THEN own ELSE seed

-----------------------------------------------------------------------------
(* What is in them: the statements made in them.  The demonstration's      *)
(* files hold none.                                                        *)

\* One kind of records of one firm of one person, whatever the file's scope.
Stores == [by : People, slot : Slots, kind : {"company", "records"}]
Store(r, kind) == [by |-> r.who, slot |-> r.slot, kind |-> kind]
StoreOf(e) == [by |-> e.by, slot |-> e.slot, kind |-> e.kind]

Statement(r, kind) ==
  [by |-> r.who, slot |-> r.slot, kind |-> kind, n |-> Len(said) + 1]
Statements == [by : People, slot : Slots, kind : {"company", "records"}, n : 1..MaxWrites]

\* No file is not a file, whatever it holds.
ASSUME NoFileAssumption == \A content \in SUBSET Statements : content # None /\ content # Torn

Load(path) == IF files[path] \in {None, Torn} THEN {} ELSE files[path]

Lists == [slots : SUBSET Slots, active : Slots, issued : Slots]
ASSUME NoListAssumption == None \notin Lists /\ Torn \notin Lists /\ None \notin Stores

NoFirms == [slots |-> {}, active |-> First, issued |-> 1]

\* CompanyIndex.load: a file that does not parse is an index with nothing in it,
\* and a firm that is gone is not opened.
LoadIndex(scope) ==
  IF index[scope] \in {None, Torn} THEN NoFirms
  ELSE [index[scope] EXCEPT !.active = IF @ \in index[scope].slots THEN @ ELSE First]

-----------------------------------------------------------------------------
(* Arrival: gate fixes who is asking and which firm is open.               *)

Acts == {"save profile", "choose frameworks", "add record", "clear records", "list firms",
         "new firm", "open firm", "sign in", "sign out"}

Places == {"start", "write", "writing", "move", "remember", "remembered", "remembering",
           "choose", "chosen", "choosing"}

\* Where a request begins: the firm is remembered first, or the index is opened.
Begins(what) ==
  IF what \in {"list firms", "new firm"} THEN "remember"
  ELSE IF what = "open firm" THEN "choose" ELSE "start"

\* copy is what it read of the store it holds, list the index it is going to save.
Arrive(tab, p, what, which) ==
  /\ request[tab] = None /\ requests < MaxRequests /\ requests' = requests + 1
  /\ what \in {"save profile", "add record"} => Len(said) < MaxWrites
  /\ request' = [request EXCEPT ![tab] =
       [who |-> p, what |-> what, which |-> which, scope |-> VisitorScope(p),
        slot |-> LoadIndex(VisitorScope(p)).active, signed |-> p \in signed, adopted |-> 0,
        at |-> Begins(what), holds |-> None, copy |-> {}, list |-> None]]
  /\ UNCHANGED <<files, index, signed, history, crashes>>

At(tab, place) == request[tab] # None /\ request[tab].at = place
Serving(tab, what, place) == At(tab, place) /\ request[tab].what = what
Goes(tab, place) == request' = [request EXCEPT ![tab].at = place]
Answered(tab) == request' = [request EXCEPT ![tab] = None]

\* Another request has read the store and has not saved it yet.
HeldByOther(tab, store) ==
  \E u \in Tabs \ {tab} : request[u] # None /\ request[u].holds = store
Touches(tab, store) ==
  racedFiles' = racedFiles \cup (IF HeldByOther(tab, store) THEN {store} ELSE {})

ReadByOther(tab) ==
  \E u \in Tabs \ {tab} :
    request[u] # None /\ request[u].list # None /\ request[u].scope = request[tab].scope

-----------------------------------------------------------------------------
(* The profile and the records.                                            *)

Put(path, content) == files' = [files EXCEPT ![path] = content]
Sees(r) == files[Readable(r, "company")] # None

\* It reads what the store holds where that can be, and holds it.
Takes(tab, kind) ==
  LET r == request[tab]
  IN  /\ request' = [request EXCEPT ![tab].at = "write", ![tab].holds = Store(r, kind),
                                    ![tab].copy = Load(Readable(r, kind))]
      /\ Touches(tab, Store(r, kind))

Says(tab, kind) == Len(said) < MaxWrites /\ said' = Append(said, Statement(request[tab], kind))

\* Only an own profile is updated, and the form replaces what the form owns: what
\* else was read, frameworks and the like, is saved again and is no statement here.
SaveProfile(tab) ==
  LET r == request[tab]
  IN  /\ Serving(tab, "save profile", "start")
      /\ Put(Writable(r, "company"), {Statement(r, "company")})
      /\ Says(tab, "company") /\ Touches(tab, Store(r, "company"))
      /\ Goes(tab, "remember")
      /\ UNCHANGED <<index, signed, requests, cleared, racedLists, crashes>>

\* save_frameworks reads the profile that is shown, refuses without one, and
\* waits for the form; finish_setup does the same on a thread of its own.
ReadProfile(tab) ==
  /\ Serving(tab, "choose frameworks", "start")
  /\ IF Sees(request[tab]) THEN Takes(tab, "company")
     ELSE Answered(tab) /\ UNCHANGED racedFiles
  /\ UNCHANGED <<files, index, signed, requests, said, cleared, racedLists, crashes>>

\* It is saved as one's own, or not at all when a rulebook is not known.
SaveFrameworks(tab) ==
  LET r == request[tab]
  IN  /\ Serving(tab, "choose frameworks", "write")
      /\ Put(Writable(r, "company"), r.copy) \/ UNCHANGED files
      /\ Answered(tab)
      /\ UNCHANGED <<index, signed, requests, history, crashes>>

\* Every store of records is read where it can be, changed, and saved as one's
\* own.  One that is half written cannot be read.
ReadRecords(tab) ==
  /\ Serving(tab, "add record", "start")
  /\ IF files[Readable(request[tab], "records")] # Torn THEN Takes(tab, "records")
     ELSE Answered(tab) /\ UNCHANGED racedFiles
  /\ UNCHANGED <<files, index, signed, requests, said, cleared, racedLists, crashes>>

Added(tab) == request[tab].copy \cup {Statement(request[tab], "records")}

\* Most are replaced whole, which AtomicWrite is about.
SaveRecords(tab) ==
  /\ Serving(tab, "add record", "write")
  /\ Put(Writable(request[tab], "records"), Added(tab)) /\ Says(tab, "records")
  /\ Answered(tab)
  /\ UNCHANGED <<index, signed, requests, cleared, racedFiles, racedLists, crashes>>

\* The evidence and the log of assessments are opened, and written after that.
OpenRecords(tab) ==
  /\ Serving(tab, "add record", "write")
  /\ Put(Writable(request[tab], "records"), Torn) /\ Goes(tab, "writing")
  /\ UNCHANGED <<index, signed, requests, history, crashes>>

\* What was opened may have been moved to the account since, or replaced or
\* unlinked, and then what is written is in no file.
Opened(r) ==
  IF files[Writable(r, "records")] = Torn THEN Writable(r, "records")
  ELSE Path("records", Account(r.who), r.slot)

WriteRecords(tab) ==
  LET file == Opened(request[tab])
  IN  /\ Serving(tab, "add record", "writing")
      /\ IF files[file] = Torn THEN Put(file, Added(tab)) ELSE UNCHANGED files
      /\ Says(tab, "records") /\ Answered(tab)
      /\ UNCHANGED <<index, signed, requests, cleared, racedFiles, racedLists, crashes>>

\* clear_evidence unlinks what is shown, be it the demonstration's.
ClearRecords(tab) ==
  LET r == request[tab]
      shown == Readable(r, "records")
  IN  /\ Serving(tab, "clear records", "start")
      /\ Put(shown, None)
      /\ cleared' = cleared \cup Load(shown) /\ Touches(tab, Store(r, "records"))
      /\ Answered(tab) /\ UNCHANGED <<index, signed, requests, said, racedLists, crashes>>

-----------------------------------------------------------------------------
(* The index of firms.                                                     *)

\* _remember_current_company, of the index as it was read.
Remembered(r, idx) ==
  IF r.slot \in idx.slots THEN idx
  ELSE [idx EXCEPT !.slots = @ \cup {First}, !.active = IF r.slot = First THEN First ELSE @]

\* Mutant: the number issued is not counted.
IssueUncounted(idx) ==
  IF First \notin idx.slots
  THEN [idx EXCEPT !.slots = @ \cup {First}, !.active = First]
  ELSE [idx EXCEPT !.slots = @ \cup {idx.issued + 1}, !.active = idx.issued + 1]

\* CompanyIndex.add, and the firm added is open from now on.
Issue(idx) ==
  IF First \notin idx.slots
  THEN [idx EXCEPT !.slots = @ \cup {First}, !.active = First]
  ELSE [slots |-> idx.slots \cup {idx.issued + 1},
        active |-> idx.issued + 1, issued |-> idx.issued + 1]

\* The index was read, and a list is to be saved in its place.
Reads(tab, place, idx) ==
  /\ request' = [request EXCEPT ![tab].at = place, ![tab].list = idx]
  /\ racedLists' = racedLists \cup (IF ReadByOther(tab) THEN {request[tab].scope} ELSE {})
  /\ UNCHANGED <<files, index, signed, requests, said, cleared, racedFiles, crashes>>

\* What comes after the firm is remembered.
Remembers(tab) ==
  IF request[tab].what = "new firm"
  THEN request' = [request EXCEPT ![tab].at = "choose", ![tab].list = None]
  ELSE Answered(tab)

\* Without a profile in sight there is nothing to remember.
Remember(tab) ==
  LET r == request[tab]
  IN  /\ At(tab, "remember")
      /\ IF Sees(r) THEN Reads(tab, "remembered", Remembered(r, LoadIndex(r.scope)))
         ELSE Remembers(tab) /\ UNCHANGED <<files, index, signed, requests, history, crashes>>

NewFirm(tab) ==
  LET idx == LoadIndex(request[tab].scope)
  IN  /\ Serving(tab, "new firm", "choose") /\ idx.issued < MaxFirms
      /\ Reads(tab, "chosen", Issue(idx))

\* A firm that is not in the list is refused (404).
OpenFirm(tab) ==
  LET r == request[tab]
      idx == LoadIndex(r.scope)
  IN  /\ Serving(tab, "open firm", "choose")
      /\ IF r.which \in idx.slots THEN Reads(tab, "chosen", [idx EXCEPT !.active = r.which])
         ELSE Answered(tab) /\ UNCHANGED <<files, index, signed, requests, history, crashes>>

\* CompanyIndex.save opens the file and then writes it.
OpenIndex(tab) ==
  /\ \/ At(tab, "remembered") /\ Goes(tab, "remembering")
     \/ At(tab, "chosen") /\ Goes(tab, "choosing")
  /\ index' = [index EXCEPT ![request[tab].scope] = Torn]
  /\ UNCHANGED <<files, signed, requests, history, crashes>>

WriteIndex(tab) ==
  /\ \/ At(tab, "remembering") /\ Remembers(tab)
     \/ At(tab, "choosing") /\ Answered(tab)
  /\ index' = [index EXCEPT ![request[tab].scope] = request[tab].list]
  /\ UNCHANGED <<files, signed, requests, history, crashes>>

-----------------------------------------------------------------------------
(* Signing in: adopt_visitor_data moves one file after another.            *)

\* Mutant: a file the account has already is replaced.
AdoptableOver(from, to) == files[from] # None

\* A file the account has already is kept back.
Adoptable(from, to) == files[from] # None /\ files[to] = None

\* Only names without a slot are looked for, and the index is not among them.
LookFor(tab) ==
  LET r == request[tab]
      kind == Kinds[r.adopted + 1]
      store == [by |-> r.who, slot |-> First, kind |-> kind]
  IN  /\ Serving(tab, "sign in", "start") /\ Shared /\ r.adopted < Len(Kinds)
      /\ IF Adoptable(Path(kind, Visitor(r.who), First), Path(kind, Account(r.who), First))
         THEN request' = [request EXCEPT ![tab].at = "move", ![tab].holds = store]
              /\ Touches(tab, store)
         ELSE request' = [request EXCEPT ![tab].adopted = @ + 1] /\ UNCHANGED racedFiles
      /\ UNCHANGED <<files, index, signed, requests, said, cleared, racedLists, crashes>>

\* What is at the place it moves to by now is replaced, and what cannot be moved
\* by now is kept back.
Move(tab) ==
  LET r == request[tab]
      kind == Kinds[r.adopted + 1]
      from == Path(kind, Visitor(r.who), First)
      to == Path(kind, Account(r.who), First)
  IN  /\ Serving(tab, "sign in", "move")
      /\ IF files[from] = None THEN UNCHANGED files
         ELSE files' = [files EXCEPT ![to] = files[from], ![from] = None]
      /\ request' = [request EXCEPT ![tab].at = "start", ![tab].holds = None,
                                    ![tab].adopted = @ + 1]
      /\ UNCHANGED <<index, signed, requests, history, crashes>>

SignIn(tab) ==
  /\ Serving(tab, "sign in", "start") /\ (Shared => request[tab].adopted = Len(Kinds))
  /\ signed' = signed \cup {request[tab].who}
  /\ Answered(tab) /\ UNCHANGED <<files, index, requests, history, crashes>>

SignOut(tab) ==
  /\ Serving(tab, "sign out", "start")
  /\ signed' = signed \ {request[tab].who}
  /\ Answered(tab) /\ UNCHANGED <<files, index, requests, history, crashes>>

-----------------------------------------------------------------------------
(* The server dies and is started again.  A file that was open is cut short. *)

Crash ==
  /\ crashes < MaxCrashes /\ crashes' = crashes + 1
  /\ request' = [tab \in Tabs |-> None]
  /\ racedFiles' = racedFiles \cup
       {request[tab].holds : tab \in {t \in Tabs : At(t, "writing")}}
  /\ racedLists' = racedLists \cup
       {request[tab].scope :
          tab \in {t \in Tabs : At(t, "remembering") \/ At(t, "choosing")}}
  /\ UNCHANGED <<files, index, signed, requests, said, cleared>>

Init ==
  \* A shared deployment may have been given a demonstration firm (demo-seed).
  /\ \E seeded \in BOOLEAN : files = [path \in Paths |->
       IF Shared /\ seeded /\ path[2] = Plain /\ path[3] = First THEN {} ELSE None]
  /\ index = [s \in Scopes |-> None]
  /\ signed = {} /\ request = [tab \in Tabs |-> None] /\ requests = 0
  /\ said = <<>> /\ cleared = {} /\ racedFiles = {} /\ racedLists = {} /\ crashes = 0

Next ==
  \/ \E tab \in Tabs :
       \/ \E p \in People :
            \/ \E what \in Acts \ {"open firm"} : Arrive(tab, p, what, None)
            \/ \E slot \in Slots : Arrive(tab, p, "open firm", slot)
       \/ SaveProfile(tab) \/ ReadProfile(tab) \/ SaveFrameworks(tab)
       \/ ReadRecords(tab) \/ SaveRecords(tab) \/ OpenRecords(tab) \/ WriteRecords(tab)
       \/ ClearRecords(tab)
       \/ Remember(tab) \/ NewFirm(tab) \/ OpenFirm(tab)
       \/ OpenIndex(tab) \/ WriteIndex(tab)
       \/ LookFor(tab) \/ Move(tab) \/ SignIn(tab) \/ SignOut(tab)
  \/ Crash

Spec == Init /\ [][Next]_vars

-----------------------------------------------------------------------------
(* Properties.                                                             *)

Requests ==
  [who : People, what : Acts, which : {None} \cup Slots, scope : Scopes, slot : Slots,
   signed : BOOLEAN, adopted : Nat, at : Places, holds : {None} \cup Stores,
   copy : SUBSET Statements, list : {None} \cup Lists]
ASSUME NoRequestAssumption == None \notin Requests

TypeOK ==
  /\ files \in [Paths -> {None, Torn} \cup SUBSET Statements]
  /\ index \in [Scopes -> {None, Torn} \cup Lists]
  /\ signed \subseteq People /\ request \in [Tabs -> {None} \cup Requests]
  /\ requests \in Nat /\ crashes \in Nat
  /\ said \in Seq(Statements) /\ cleared \subseteq Statements
  /\ racedFiles \subseteq Stores /\ racedLists \subseteq Scopes

\* A file holds the statements of the person it is named after and of the firm
\* it is named after, whoever signs in or out, whatever is open in another tab and
\* whatever other requests do while one is served; the demonstration's files hold
\* nobody's.  On a laptop a firm that was just added is shown the first firm's
\* files (_seeded_or).
FilesAreOfOneFirm ==
  \A path \in Paths : \A e \in Load(path) :
    /\ e.slot = path[3]
    /\ Shared => path[2] # Plain /\ e.by = path[2][1]

\* A statement is in the file, or in what is being written in its place.
Holding(e) ==
  {path \in Paths :
     \/ e \in Load(path)
     \/ \E tab \in Tabs : /\ At(tab, "writing") /\ e \in request[tab].copy
                          /\ path = Writable(request[tab], "records")}

\* Signing in must not lose the work you did before you signed in, and must not
\* merge it (web/adopt.py): every statement ever acknowledged is in one file and
\* one only, also when the server dies between two files; a profile is kept until
\* the same person saves the same firm's profile again, records until they are
\* cleared.  This is so as long as no request changed or moved that store between
\* the reading and the saving of another (save_frameworks waits for its form in
\* between), and none was cut short while it wrote in place: nothing is locked, and
\* such a request writes over what it has not read.  The requests may be of
\* different scopes and overlap in any other way.
StatementsAreKept ==
  \A i \in 1..Len(said) : StoreOf(said[i]) \notin racedFiles =>
    LET gone == \/ said[i] \in cleared
                \/ /\ said[i].kind = "company"
                   /\ \E j \in (i + 1)..Len(said) : StoreOf(said[j]) = StoreOf(said[i])
    IN  IF gone THEN Cardinality(Holding(said[i])) <= 1
        ELSE Cardinality(Holding(said[i])) = 1

\* The list of a scope: the one in the file, or the one being written in its place.
Listed(scope) ==
  {index[scope]} \cup
  {request[tab].list :
     tab \in {t \in Tabs : /\ At(t, "remembering") \/ At(t, "choosing")
                          /\ request[t].scope = scope}}

\* A slot that has files was issued, and its number counts as issued, so that no
\* firm added later is given another's files (companies.py: slots are never
\* reused).  This is so as long as no request read the person's index between the
\* reading and the saving of another, and no crash cut the index short: it is not
\* locked, and a firm added in such a request may be lost and its number issued again.
SlotsAreIssued ==
  \A path \in Paths : (files[path] # None /\ path[3] # First /\ path[2] \notin racedLists) =>
    \E idx \in Listed(path[2]) \ {None, Torn} : path[3] \in idx.slots /\ path[3] <= idx.issued
=============================================================================
