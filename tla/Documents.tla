----------------------------- MODULE Documents -----------------------------
(***************************************************************************)
(* Accounts, sessions and the circulars people bring: auth/users.py,       *)
(* auth/session.py, workspace.py and the routes of web/app.py that sign up *)
(* and in, upload, compile and delete.                                     *)
(*                                                                         *)
(* Sign-ups, compiles and deletions run on threads and interleave.         *)
(* Uploads run on the event loop: others are served while one's body is    *)
(* awaited, and no other upload while one is laid down.                    *)
(***************************************************************************)
EXTENDS RateLimit

CONSTANTS
  Threads,     \* requests at a time
  Docs,        \* documents, told apart by their digest
  Size,        \* Docs -> how large
  Quota,       \* MAX_TOTAL_BYTES
  MaxAge,      \* MAX_AGE_SECONDS
  None, Torn,  \* nothing, and a file cut short
  MaxClock, MaxSignUps, MaxUploads, MaxCompiles, MaxRemovals, MaxCrashes   \* bounds

\* A user, what the store keeps of a document, and what a thread has at hand of the
\* request it serves.
Account == [id : Nat, email : Callers]
Folders == [pdf : {None, Torn, "whole"}, meta : {None, Torn} \cup Nat, rules : BOOLEAN]
SignUps == [stage : {"hash", "dump", "open", "write"},
            who : Callers, id : Nat, dump : Seq(Account)]
Uploads == [stage : {"body", "pdf", "meta"}, who : Callers, owner : Nat, doc : Docs]
Files == {"pdf", "meta", "rules"}
Deletions == [stage : {"delete", "unlink"}, doc : Docs, left : SUBSET Files]

ASSUME DocumentsAssumption ==
  /\ IsFiniteSet(Docs) /\ Size \in [Docs -> Nat \ {0}] /\ Quota \in Nat /\ MaxAge \in Nat
  /\ {MaxClock, MaxSignUps, MaxUploads, MaxCompiles, MaxRemovals, MaxCrashes} \subseteq Nat
  /\ None \notin Folders \cup SignUps \cup Uploads \cup Deletions
  /\ {None, Torn} \cap Seq(Account) = {}

VARIABLES
  users,      \* UserStore._users, in the order they were made
  userFile,   \* users.json
  cookie,     \* Callers -> the session cookie in the caller's browser
  folder,     \* Docs -> the workspace's folder
  running,    \* the documents a compile runs for
  request,    \* Threads -> the request being served
  told,       \* the accounts acknowledged (history)
  crossed,    \* whether two sign-ups ever overlapped or one was cut short (history)
  overtaken,  \* the documents removed while a compile of them ran (history)
  removed,    \* the documents whose deletion began, until they are gone (history)
  made        \* how many of what is bounded there were

vars == <<limitVars, users, userFile, cookie, folder, running, request, told, crossed, overtaken, removed, made>>

Serving(t, stage) == request[t] # None /\ request[t].stage = stage
Goes(t, stage) == request' = [request EXCEPT ![t].stage = stage]
Answered(t) == request' = [request EXCEPT ![t] = None]
Count(what) == made' = [made EXCEPT ![what] = @ + 1]

-----------------------------------------------------------------------------
(* Accounts.                                                               *)

\* What a torn or missing file is read as.
UsersIn(file) == IF file \in {None, Torn} THEN <<>> ELSE file
ByEmail(c) == {i \in DOMAIN users : users[i].email = c}

\* Whoever the request is signed in as: session.read, and users.get.
SignedInAs(c) ==
  IF cookie[c] = None \/ clock - cookie[c].at > MaxAge THEN {}
  ELSE {i \in DOMAIN users : users[i].id = cookie[c].id}
UserOf(c) == users[CHOOSE i \in SignedInAs(c) : TRUE].id

\* UserStore.create up to the hashing of the password, which takes its time.
SignUp(t, c) ==
  /\ request[t] = None /\ made.signups < MaxSignUps /\ Count("signups")
  /\ IF ByEmail(c) # {} THEN UNCHANGED request
     ELSE request' = [request EXCEPT ![t] =
            [stage |-> "hash", who |-> c, id |-> made.signups + 1, dump |-> <<>>]]
  /\ crossed' = (crossed \/ \E u \in Threads \ {t} :
       \E s \in {"hash", "dump", "open", "write"} : Serving(u, s))
  /\ UNCHANGED <<limitVars, users, userFile, cookie, folder, running, told, overtaken, removed>>

Insert(t) ==
  /\ Serving(t, "hash") /\ Goes(t, "dump")
  /\ users' = Append(users, [id |-> request[t].id, email |-> request[t].who])
  /\ UNCHANGED <<limitVars, userFile, cookie, folder, running, told, crossed, overtaken, removed, made>>

\* Mutant: what is written is what was read before the account was added.
DumpOld(t) ==
  /\ Serving(t, "dump")
  /\ request' = [request EXCEPT ![t].stage = "open", ![t].dump = UsersIn(userFile)]
  /\ UNCHANGED <<limitVars, users, userFile, cookie, folder, running, told, crossed, overtaken, removed, made>>

\* _save: the payload, and then a file opened anew and written.
Dump(t) ==
  /\ Serving(t, "dump")
  /\ request' = [request EXCEPT ![t].stage = "open", ![t].dump = users]
  /\ UNCHANGED <<limitVars, users, userFile, cookie, folder, running, told, crossed, overtaken, removed, made>>

Open(t) ==
  /\ Serving(t, "open") /\ Goes(t, "write")
  /\ userFile' = Torn
  /\ UNCHANGED <<limitVars, users, cookie, folder, running, told, crossed, overtaken, removed, made>>

SignedUp(t) ==
  /\ Serving(t, "write") /\ Answered(t)
  /\ userFile' = request[t].dump
  /\ cookie' = [cookie EXCEPT ![request[t].who] = [id |-> request[t].id, at |-> clock]]
  /\ told' = told \cup {[id |-> request[t].id, email |-> request[t].who]}
  /\ UNCHANGED <<limitVars, users, folder, running, crossed, overtaken, removed, made>>

\* authenticate takes the first account with the address.  Signing in anew before a
\* session is over only lengthens it, and is left out.
SignIn(c) ==
  /\ ByEmail(c) # {} /\ SignedInAs(c) = {}
  /\ \E i \in ByEmail(c) : (\A j \in ByEmail(c) : i <= j)
       /\ cookie' = [cookie EXCEPT ![c] = [id |-> users[i].id, at |-> clock]]
  /\ UNCHANGED <<limitVars, users, userFile, folder, running, request, told, crossed, overtaken, removed, made>>

-----------------------------------------------------------------------------
(* Folders of uploaded circulars.                                          *)

NewFolder == [pdf |-> None, meta |-> None, rules |-> FALSE]
\* get and uploaded: a folder whose meta.json does not parse is not a workspace.
Listed(d) == folder[d] # None /\ folder[d].meta \notin {None, Torn}
MayOpen(d, c) ==
  \/ folder[d].meta = None      \* no workspace, which the callers answer 404
  \/ SignedInAs(c) # {} /\ folder[d].meta = UserOf(c)

\* bytes_on_disk, of which a rulebook takes one; what is cut short takes what it may.
BytesOf(ds) == UNION {{d} \X (1..Size[d]) : d \in ds}
Stored == {d \in Docs : folder[d] # None /\ folder[d].pdf # None}
PdfBytes == Cardinality(BytesOf(Stored))
BytesOnDisk == PdfBytes + Cardinality({d \in Docs : folder[d] # None /\ folder[d].rules})

Upload(t, c, d) ==
  /\ request[t] = None /\ made.uploads < MaxUploads /\ Count("uploads")
  /\ SignedInAs(c) # {}
  /\ \/ Pass(c) /\ request' = [request EXCEPT ![t] =
                    [stage |-> "body", who |-> c, owner |-> UserOf(c), doc |-> d]]
     \/ Refuse(c) /\ UNCHANGED request
  /\ UNCHANGED <<users, userFile, cookie, folder, running, told, crossed, overtaken, removed>>

\* The event loop lays down one upload at a time.
Idle == \A t \in Threads : ~Serving(t, "pdf") /\ ~Serving(t, "meta")

Fits(d) == BytesOnDisk + Size[d] <= Quota

\* Mutant: the same bytes are laid down again.
KnownNever(d) == FALSE
\* Same bytes, same workspace.
Known(d) == Listed(d)

\* Mutant: the meta file is written before the document is.
OrderSwapped == <<"meta", "pdf">>
\* The order create writes its two files in.
Order == <<"pdf", "meta">>

Taking(t, d) == Serving(t, "unlink") /\ request[t].doc = d
\* The documents whose deletion began, without d unless another request deletes it.
Gone(t, d) == IF \E u \in Threads \ {t} : Taking(u, d) THEN removed ELSE removed \ {d}

\* WorkspaceStore.create: refused, answered with the workspace there is, or begun,
\* also in the folder that a deletion has left behind.
Create(t) ==
  LET d == request[t].doc
  IN  /\ Serving(t, "body") /\ Idle
      /\ IF ~Fits(d) \/ Known(d) THEN Answered(t) /\ UNCHANGED <<folder, removed>>
         ELSE /\ Goes(t, Order[1])
              /\ folder' = [folder EXCEPT ![d] = IF @ = None THEN NewFolder ELSE @]
              /\ removed' = Gone(t, d)
      /\ UNCHANGED <<limitVars, users, userFile, cookie, running, told, crossed, overtaken, made>>

\* One file is written; gone with its folder if the document was deleted meanwhile.
Lay(t, file, content) ==
  LET d == request[t].doc
      last == Order[2] = file
  IN  /\ Serving(t, file)
      /\ IF folder[d] = None THEN Answered(t) /\ UNCHANGED folder
         ELSE /\ folder' = [folder EXCEPT ![d][file] = content]
              /\ IF last THEN Answered(t) ELSE Goes(t, Order[2])
      /\ UNCHANGED <<limitVars, users, userFile, cookie, running, told, crossed, overtaken, removed, made>>

LayPdf(t) == Lay(t, "pdf", "whole")
LayMeta(t) == Lay(t, "meta", request[t].owner)

\* bench finds the workspace, and the runner refuses a second compile of one document.
Compile(c, d) ==
  /\ made.compiles < MaxCompiles /\ Count("compiles")
  /\ SignedInAs(c) # {} /\ Listed(d) /\ MayOpen(d, c) /\ d \notin running
  /\ running' = running \cup {d}
  /\ UNCHANGED <<limitVars, users, userFile, cookie, folder, request, told, crossed, overtaken, removed>>

\* The rulebook is saved, in a folder made again if there is none.
Compiled(d) ==
  /\ d \in running /\ running' = running \ {d}
  /\ folder' = [folder EXCEPT ![d] = [(IF @ = None THEN NewFolder ELSE @) EXCEPT !.rules = TRUE]]
  /\ UNCHANGED <<limitVars, users, userFile, cookie, request, told, crossed, overtaken, removed, made>>

Stopped(d) ==
  /\ d \in running /\ running' = running \ {d}
  /\ UNCHANGED <<limitVars, users, userFile, cookie, folder, request, told, crossed, overtaken, removed, made>>

\* Whether a compile runs is asked first, and the folder is removed after.
Delete(t, c, d) ==
  /\ request[t] = None /\ made.removals < MaxRemovals /\ Count("removals")
  /\ SignedInAs(c) # {} /\ d \notin running /\ folder[d] # None
  /\ request' = [request EXCEPT ![t] =
       [stage |-> "delete", doc |-> d, left |-> {}]]
  /\ UNCHANGED <<limitVars, users, userFile, cookie, folder, running, told, crossed, overtaken, removed>>

Present(d) ==
  {f \in {"pdf", "meta"} : folder[d][f] # None} \cup {f \in {"rules"} : folder[d].rules}

\* shutil.rmtree reads what the folder holds, unlinks that one by one in the
\* order it was read in, whichever that is, and removes the folder.
Scan(t) ==
  LET d == request[t].doc
  IN  /\ Serving(t, "delete")
      /\ IF folder[d] = None THEN Answered(t) /\ UNCHANGED removed
         ELSE /\ request' = [request EXCEPT ![t].stage = "unlink", ![t].left = Present(d)]
              /\ removed' = removed \cup {d}
      /\ UNCHANGED <<limitVars, users, userFile, cookie, folder, running, told, crossed, overtaken, made>>

Unlink(t, file) ==
  LET d == request[t].doc
  IN  /\ Serving(t, "unlink") /\ file \in request[t].left
      /\ folder[d] # None /\ file \in Present(d)
      /\ folder' = [folder EXCEPT ![d][file] = IF file = "rules" THEN FALSE ELSE None]
      /\ request' = [request EXCEPT ![t].left = @ \ {file}]
      /\ UNCHANGED <<limitVars, users, userFile, cookie, running, told, crossed, overtaken, removed, made>>

Remove(t) ==
  LET d == request[t].doc
  IN  /\ Serving(t, "unlink") /\ request[t].left = {}
      /\ folder[d] # None /\ Present(d) = {}
      /\ Answered(t)
      /\ folder' = [folder EXCEPT ![d] = None]
      /\ overtaken' = overtaken \cup ({d} \cap running)
      /\ removed' = Gone(t, d)
      /\ UNCHANGED <<limitVars, users, userFile, cookie, running, told, crossed, made>>

\* An error ends it anywhere and what is left stays: a file was gone or held open,
\* or another was laid into the folder.
RemoveFails(t) ==
  /\ Serving(t, "unlink") /\ Answered(t)
  /\ UNCHANGED <<limitVars, users, userFile, cookie, folder, running, told, crossed, overtaken, removed, made>>

-----------------------------------------------------------------------------
(* The server dies, also half way through a file, and is started again.    *)

CutShort(t, file) ==
  IF Serving(t, file) /\ folder[request[t].doc] # None
  THEN {[folder EXCEPT ![request[t].doc][file] = Torn]} ELSE {}

Crash ==
  /\ made.crashes < MaxCrashes /\ Count("crashes")
  /\ folder' \in {folder} \cup UNION {CutShort(t, file) : t \in Threads, file \in {"pdf", "meta"}}
  /\ users' = UsersIn(userFile)
  /\ request' = [t \in Threads |-> None] /\ running' = {}
  /\ crossed' = (crossed \/ userFile = Torn \/ users # UsersIn(userFile))
  /\ passed' = [c \in Callers |-> <<>>] /\ seen' = [c \in Callers |-> {}]
  /\ UNCHANGED <<clock, userFile, cookie, told, overtaken, removed>>

Init ==
  /\ LimitInit
  /\ users = <<>> /\ userFile = None /\ cookie = [c \in Callers |-> None]
  /\ folder = [d \in Docs |-> None] /\ running = {}
  /\ request = [t \in Threads |-> None] /\ told = {} /\ crossed = FALSE
  /\ overtaken = {} /\ removed = {}
  /\ made = [signups |-> 0, uploads |-> 0, compiles |-> 0, removals |-> 0, crashes |-> 0]

Next ==
  \/ clock < MaxClock /\ Tick
     /\ UNCHANGED <<users, userFile, cookie, folder, running, request, told, crossed, overtaken, removed, made>>
  \/ \E t \in Threads :
       \/ \E c \in Callers : SignUp(t, c) \/ \E d \in Docs : Upload(t, c, d) \/ Delete(t, c, d)
       \/ Insert(t) \/ Dump(t) \/ Open(t) \/ SignedUp(t)
       \/ Create(t) \/ LayPdf(t) \/ LayMeta(t)
       \/ Scan(t) \/ Remove(t) \/ RemoveFails(t) \/ \E file \in Files : Unlink(t, file)
  \/ \E c \in Callers : SignIn(c) \/ \E d \in Docs : Compile(c, d)
  \/ \E d \in Docs : Compiled(d) \/ Stopped(d)
  \/ Crash

Spec == Init /\ [][Next]_vars

-----------------------------------------------------------------------------
(* Properties.                                                             *)

\* A document in the list can be opened: its meta file stands only beside the whole
\* PDF, although create writes both in place and may be cut short between or within
\* them, or meet a deletion (workspace.py, create and delete).  Two are left out: a
\* document whose deletion began, which takes its files one by one and may end
\* before the folder is gone, until it is gone or laid down anew; and one deleted
\* under its compile, which lays the folder down again.
ListedIsWhole ==
  \A d \in Docs : (Listed(d) /\ d \notin overtaken \cup removed) => folder[d].pdf = "whole"

\* Uploading twice must not fork the audit trail (workspace.py, create): a document
\* in the list keeps its owner, and once compiled its rulebook, until its deletion
\* begins, whoever uploads the same bytes.
UploadKeepsWork ==
  [][\A d \in Docs : (Listed(d) /\ d \notin removed) =>
       /\ folder'[d] # None
       /\ folder'[d].meta = folder[d].meta
       /\ folder[d].rules => folder'[d].rules]_vars

\* What people bring stays within MAX_TOTAL_BYTES, what was cut short included,
\* although the check comes before the bytes are written.
WithinQuota == PdfBytes <= Quota

\* An account acknowledged is in users.json, and one address has one account, as
\* long as sign-ups do not overlap and none was cut short (auth/users.py, create).
AccountsAreKept ==
  ~crossed =>
    /\ \A i, j \in DOMAIN users : users[i].email = users[j].email => i = j
    /\ \A a \in told : \E i \in DOMAIN users : users[i] = a
    /\ (\A t \in Threads : \A s \in {"dump", "open", "write"} : ~Serving(t, s))
         => users = UsersIn(userFile)

\* What is listed can be opened, and all of it fits.
FoldersAreSound == ListedIsWhole /\ WithinQuota
=============================================================================
