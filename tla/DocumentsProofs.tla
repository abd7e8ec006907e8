-------------------------- MODULE DocumentsProofs --------------------------
(* Proofs about Documents, for every number of callers, requests and       *)
(* documents, every quota, limit and window, and any number of crashes.    *)
(* First the limiter it is built on, of which its steps are steps; then    *)
(* the accounts, and then the folders.                                     *)
EXTENDS Documents, FiniteSetTheorems, TLAPS

\* The limiter remembers every upload that is still within the window, and the
\* moments it let uploads pass are in order.
Remembers(c) ==
  /\ seen[c] \subseteq 1..Len(passed[c])
  /\ \A i \in 1..Len(passed[c]) :
       passed[c][i] <= clock /\ (clock - passed[c][i] < Window => i \in seen[c])
  /\ \A i, j \in 1..Len(passed[c]) : i <= j => passed[c][i] <= passed[c][j]

LimitInv == LimitTypeOK /\ Paced /\ \A c \in Callers : Remembers(c)

LEMMA RecentIsFinite ==
  ASSUME LimitTypeOK, NEW c \in Callers, Remembers(c)
  PROVE  IsFiniteSet(Recent(c))
<1>1. Len(passed[c]) \in Nat
  BY DEF LimitTypeOK
<1>2. IsFiniteSet(1..Len(passed[c]))
  BY <1>1, FS_Interval
<1>3. Recent(c) \subseteq 1..Len(passed[c])
  BY DEF Recent, Remembers
<1> QED BY <1>2, <1>3, FS_Subset

LEMMA CountBack ==
  ASSUME NEW n \in Nat, NEW k \in Nat \ {0}, NEW i \in Nat, i + k = n + 1
  PROVE  Cardinality(i..n) = k
<1>1. Cardinality(i..n) = IF i > n THEN 0 ELSE n - i + 1
  BY FS_Interval
<1> QED BY <1>1

\* If an upload may pass, the one Limit before it has left the window: all since
\* that one would be remembered otherwise, and they are Limit of them.
LEMMA OldestHasLeft ==
  ASSUME LimitTypeOK, NEW c \in Callers, Remembers(c), Allowed(c),
         NEW i \in 1..Len(passed[c]), i = Len(passed[c]) + 1 - Limit
  PROVE  clock - passed[c][i] >= Window
<1> DEFINE n == Len(passed[c])
<1>1. n \in Nat /\ Limit \in Nat \ {0} /\ Window \in Nat /\ clock \in Nat
  BY LimitAssumption DEF LimitTypeOK
<1>2. \A j \in 1..n : passed[c][j] \in Nat
  BY <1>1 DEF LimitTypeOK
<1> SUFFICES ASSUME clock - passed[c][i] < Window PROVE FALSE
  BY <1>1, <1>2
<1>3. i..n \subseteq Recent(c)
  <2> SUFFICES ASSUME NEW j \in i..n PROVE j \in Recent(c)
    OBVIOUS
  <2>1. j \in 1..n /\ i <= j
    BY <1>1
  <2>2. passed[c][i] <= passed[c][j]
    BY <2>1 DEF Remembers
  <2>3. clock - passed[c][j] < Window
    <3>1. passed[c][i] \in Nat /\ passed[c][j] \in Nat
      BY <2>1, <1>2
    <3> QED BY <3>1, <2>2, <1>1
  <2>4. j \in seen[c]
    BY <2>1, <2>3 DEF Remembers
  <2> QED BY <2>3, <2>4 DEF Recent
<1>4. IsFiniteSet(Recent(c))
  BY RecentIsFinite
<1>5. Cardinality(i..n) = Limit
  <2>1. n \in Nat /\ i \in Nat /\ i + Limit = n + 1
    BY <1>1
  <2> HIDE DEF n
  <2> QED BY <1>1, <2>1, CountBack, Zenon
<1>6. Cardinality(i..n) <= Cardinality(Recent(c))
  BY <1>3, <1>4, FS_Subset
<1>7. Cardinality(Recent(c)) \in Nat
  BY <1>4, FS_CardinalityType
<1> QED BY <1>1, <1>5, <1>6, <1>7 DEF Allowed

LEMMA LimitInitInv == LimitInit => LimitInv
BY LimitAssumption DEF LimitInit, LimitInv, LimitTypeOK, Paced, Remembers

LEMMA LimitStep == LimitInv /\ [LimitNext]_limitVars => LimitInv'
<1> SUFFICES ASSUME LimitInv, [LimitNext]_limitVars PROVE LimitInv'
  OBVIOUS
<1> USE DEF LimitInv
<1>0. Limit \in Nat \ {0} /\ Window \in Nat \ {0} /\ clock \in Nat
      /\ \A c \in Callers : passed[c] \in Seq(Nat) /\ Len(passed[c]) \in Nat
      /\ \A k \in Callers : \A i \in 1..Len(passed[k]) : passed[k][i] \in Nat
  BY LimitAssumption DEF LimitTypeOK
<1>1. CASE UNCHANGED limitVars
  BY <1>1 DEF limitVars, LimitTypeOK, Paced, Remembers
<1>2. CASE Tick
  <2>1. LimitTypeOK' /\ Paced'
    BY <1>2, <1>0 DEF Tick, LimitTypeOK, Paced
  <2>2. ASSUME NEW c \in Callers PROVE Remembers(c)'
    <3>1. passed' = passed /\ seen' = seen /\ clock' = clock + 1 /\ Remembers(c)
      BY <1>2 DEF Tick
    <3>2. \A i \in 1..Len(passed[c]) :
            passed[c][i] <= clock' /\ (clock' - passed[c][i] < Window => i \in seen[c])
      <4> SUFFICES ASSUME NEW i \in 1..Len(passed[c])
                   PROVE  passed[c][i] <= clock'
                          /\ (clock' - passed[c][i] < Window => i \in seen[c])
        OBVIOUS
      <4>1. passed[c][i] \in Nat /\ clock \in Nat /\ Window \in Nat
        BY <1>0
      <4>2. passed[c][i] <= clock /\ (clock - passed[c][i] < Window => i \in seen[c])
        BY <3>1 DEF Remembers
      <4> QED BY <3>1, <4>1, <4>2
    <3> QED BY <3>1, <3>2 DEF Remembers
  <2> QED BY <2>1, <2>2
<1>3. ASSUME NEW c \in Callers, Refuse(c) PROVE LimitInv'
  <2>1. LimitTypeOK' /\ Paced'
    BY <1>3, <1>0 DEF Refuse, LimitTypeOK, Paced, Recent
  <2>2. ASSUME NEW k \in Callers PROVE Remembers(k)'
    <3>1. CASE k = c
      BY <1>3, <1>0, <3>1 DEF Refuse, Remembers, Recent, LimitTypeOK
    <3>2. CASE k # c
      BY <1>3, <1>0, <3>2 DEF Refuse, Remembers, LimitTypeOK
    <3> QED BY <3>1, <3>2
  <2> QED BY <2>1, <2>2
<1>4. ASSUME NEW c \in Callers, Pass(c) PROVE LimitInv'
  <2> DEFINE n == Len(passed[c])
  <2>0. n \in Nat /\ Recent(c) \subseteq 1..n /\ Remembers(c)
    BY <1>0 DEF Recent, Remembers
  <2>1. /\ passed' = [passed EXCEPT ![c] = Append(@, clock)]
        /\ seen' = [seen EXCEPT ![c] = Recent(c) \cup {n + 1}]
        /\ clock' = clock /\ Allowed(c)
    BY <1>4 DEF Pass
  <2>2. /\ passed'[c] = Append(passed[c], clock) /\ Len(passed'[c]) = n + 1
        /\ \A i \in 1..n : passed'[c][i] = passed[c][i]
        /\ passed'[c][n + 1] = clock
        /\ seen'[c] = Recent(c) \cup {n + 1}
    BY <2>1, <1>0 DEF LimitTypeOK
  <2>3. \A k \in Callers \ {c} : passed'[k] = passed[k] /\ seen'[k] = seen[k]
    BY <2>1 DEF LimitTypeOK
  <2>4. LimitTypeOK'
    BY <2>0, <2>1, <1>0 DEF LimitTypeOK
  <2>5. ASSUME NEW k \in Callers, NEW i \in 1..(Len(passed'[k]) - Limit)
        PROVE  passed'[k][i + Limit] - passed'[k][i] >= Window
    <3>1. CASE k # c
      BY <3>1, <2>3, <1>0 DEF Paced
    <3>2. CASE k = c /\ i + Limit <= n
      <4>1. i \in 1..(n - Limit) /\ i \in 1..n /\ i + Limit \in 1..n
        BY <3>2, <2>0, <1>0
      <4>2. passed[c][i + Limit] - passed[c][i] >= Window
        BY <4>1 DEF Paced
      <4> QED BY <3>2, <4>1, <4>2, <2>2
    <3>3. CASE k = c /\ i + Limit = n + 1
      <4>1. i \in 1..n /\ i = n + 1 - Limit
        <5>1. i \in Nat \ {0} /\ i + Limit = n + 1 /\ n \in Nat /\ Limit \in Nat \ {0}
          BY <3>3, <1>0, <2>0
        <5> HIDE DEF n
        <5> QED BY <5>1
      <4>2. clock - passed[c][i] >= Window
        BY <4>1, <2>0, <2>1, OldestHasLeft
      <4> QED BY <4>1, <4>2, <3>3, <2>2
    <3> QED BY <3>1, <3>2, <3>3, <2>2, <2>0, <1>0
  <2>6. ASSUME NEW k \in Callers PROVE Remembers(k)'
    <3>1. CASE k # c
      BY <3>1, <2>3, <2>1 DEF Remembers
    <3>2. CASE k = c
      <4>1. seen'[c] \subseteq 1..Len(passed'[c])
        BY <2>2, <2>0
      <4>2. ASSUME NEW i \in 1..Len(passed'[c])
            PROVE  passed'[c][i] <= clock' /\ (clock' - passed'[c][i] < Window => i \in seen'[c])
        <5>1. CASE i = n + 1
          BY <5>1, <2>1, <2>2, <1>0
        <5>2. CASE i \in 1..n
          BY <5>2, <2>0, <2>1, <2>2 DEF Remembers, Recent
        <5> QED BY <5>1, <5>2, <2>2, <2>0
      <4>3. ASSUME NEW i \in 1..Len(passed'[c]), NEW j \in 1..Len(passed'[c]), i <= j
            PROVE  passed'[c][i] <= passed'[c][j]
        <5>1. CASE j = n + 1
          BY <5>1, <4>2, <2>1, <2>2
        <5>2. CASE j \in 1..n
          BY <5>2, <4>3, <2>0, <2>2 DEF Remembers
        <5> QED BY <5>1, <5>2, <2>2, <2>0
      <4> QED BY <4>1, <4>2, <4>3, <3>2 DEF Remembers
    <3> QED BY <3>1, <3>2
  <2> QED BY <2>4, <2>5, <2>6 DEF Paced
<1> QED BY <1>1, <1>2, <1>3, <1>4 DEF LimitNext

\* However many uploads one caller tries, and whenever, no Limit + 1 that were let
\* pass fall within one window (RateLimiter.check).
THEOREM LimiterAlwaysPaces == LimitSpec => []Paced
<1>1. LimitInv => Paced
  BY DEF LimitInv
<1> QED BY LimitInitInv, LimitStep, <1>1, PTL DEF LimitSpec

-----------------------------------------------------------------------------
(* What the state holds, and what a step does to it.                       *)

Typed ==
  /\ users \in Seq(Account) /\ userFile \in {None, Torn} \cup Seq(Account)
  /\ folder \in [Docs -> {None} \cup Folders] /\ running \subseteq Docs
  /\ request \in [Threads -> {None} \cup SignUps \cup Uploads \cup Deletions]
  /\ made \in [signups : Nat, uploads : Nat, compiles : Nat, removals : Nat, crashes : Nat]

\* The steps of a deletion that has been let in.
Removing(t) == Scan(t) \/ Remove(t) \/ RemoveFails(t) \/ \E file \in Files : Unlink(t, file)

NewAccount(t) == [id |-> request[t].id, email |-> request[t].who]

LEMMA StageTellsKind ==
  ASSUME Typed, NEW t \in Threads, NEW s, Serving(t, s)
  PROVE  /\ request[t].stage = s
         /\ s \in {"hash", "dump", "open", "write"} => request[t] \in SignUps
         /\ s \in {"body", "pdf", "meta"} => request[t] \in Uploads
         /\ s \in {"delete", "unlink"} => request[t] \in Deletions
<1>1. request[t] # None /\ request[t].stage = s
      /\ request[t] \in {None} \cup SignUps \cup Uploads \cup Deletions
  BY DEF Typed, Serving
<1>2. ASSUME request[t] \in SignUps PROVE s \in {"hash", "dump", "open", "write"}
  BY <1>1, <1>2 DEF SignUps
<1>3. ASSUME request[t] \in Uploads PROVE s \in {"body", "pdf", "meta"}
  BY <1>1, <1>3 DEF Uploads
<1>4. ASSUME request[t] \in Deletions PROVE s \in {"delete", "unlink"}
  BY <1>1, <1>4 DEF Deletions
<1>5. QED
  BY <1>1, <1>2, <1>3, <1>4

\* The shapes of requests differ, and none is no request.
LEMMA KindsDiffer ==
  /\ None \notin SignUps /\ None \notin Uploads /\ None \notin Deletions /\ None \notin Folders
  /\ SignUps \cap Uploads = {} /\ SignUps \cap Deletions = {} /\ Uploads \cap Deletions = {}
<1>1. ASSUME NEW r \in SignUps PROVE r.stage \in {"hash", "dump", "open", "write"}
  BY DEF SignUps
<1>2. ASSUME NEW r \in Uploads PROVE r.stage \in {"body", "pdf", "meta"}
  BY DEF Uploads
<1>3. ASSUME NEW r \in Deletions PROVE r.stage \in {"delete", "unlink"}
  BY DEF Deletions
<1>4. QED
  BY <1>1, <1>2, <1>3, DocumentsAssumption DEF DocumentsAssumption

LEMMA OwnerIsAnId ==
  ASSUME Typed, NEW c \in Callers, SignedInAs(c) # {}
  PROVE  UserOf(c) \in Nat
<1>1. SignedInAs(c) \subseteq DOMAIN users
  BY DEF SignedInAs
<1>2. (CHOOSE i \in SignedInAs(c) : TRUE) \in DOMAIN users
  BY <1>1
<1>3. \A i \in DOMAIN users : users[i] \in Account
  BY DEF Typed
<1>4. QED
  BY <1>2, <1>3 DEF UserOf, Account

\* What create does with one file.
LEMMA LayMoves ==
  ASSUME Typed, NEW t \in Threads, NEW file \in {"pdf", "meta"}, NEW content, Lay(t, file, content)
  PROVE  LET d == request[t].doc
         IN  \/ folder[d] = None /\ Answered(t) /\ UNCHANGED folder
             \/ /\ folder[d] # None /\ folder' = [folder EXCEPT ![d][file] = content]
                /\ IF file = "meta" THEN Answered(t) ELSE Goes(t, "meta")
BY DEF Lay, Order

-----------------------------------------------------------------------------
(* The limiter in the server: a restart forgets what it let pass.          *)

LEMMA ServerStepsLimiter == [Next]_vars => [LimitNext]_limitVars \/ Crash
<1>1. SUFFICES ASSUME [Next]_vars PROVE [LimitNext]_limitVars \/ Crash
  OBVIOUS
<1>2. CASE UNCHANGED vars
  BY <1>2 DEF vars
<1>3. CASE Tick
  BY <1>3 DEF LimitNext
<1>4. ASSUME NEW t \in Threads, NEW c \in Callers, NEW d \in Docs, Upload(t, c, d)
      PROVE  LimitNext
  BY <1>4 DEF Upload, LimitNext
<1>5. ASSUME NEW t \in Threads, NEW c \in Callers, SignUp(t, c) \/ (\E d \in Docs : Delete(t, c, d))
      PROVE  UNCHANGED limitVars
  BY <1>5 DEF SignUp, Delete
<1>6. ASSUME NEW t \in Threads, Insert(t) \/ Dump(t) \/ Open(t) \/ SignedUp(t)
      PROVE  UNCHANGED limitVars
  BY <1>6 DEF Insert, Dump, Open, SignedUp
<1>7. ASSUME NEW t \in Threads, Create(t) \/ LayPdf(t) \/ LayMeta(t) \/ Removing(t)
      PROVE  UNCHANGED limitVars
  BY <1>7 DEF Create, LayPdf, LayMeta, Lay, Removing, Scan, Unlink, Remove, RemoveFails
<1>8. ASSUME NEW c \in Callers, SignIn(c) \/ (\E d \in Docs : Compile(c, d))
      PROVE  UNCHANGED limitVars
  BY <1>8 DEF SignIn, Compile
<1>9. ASSUME NEW d \in Docs, Compiled(d) \/ Stopped(d)
      PROVE  UNCHANGED limitVars
  BY <1>9 DEF Compiled, Stopped
<1>10. QED
  BY <1>1, <1>2, <1>3, <1>4, <1>5, <1>6, <1>7, <1>8, <1>9 DEF Next, Removing

LEMMA LimiterForgets == Crash /\ LimitInv => LimitInv'
BY LimitAssumption DEF Crash, LimitInv, LimitTypeOK, Paced, Remembers

\* The limit holds of the server as of the limiter alone: between restarts, no
\* caller lays down more than Limit documents within one window (web/app.py, upload).
THEOREM UploadsAlwaysPaced == Spec => []Paced
<1>1. LimitInv /\ [Next]_vars => LimitInv'
  BY ServerStepsLimiter, LimitStep, LimiterForgets
<1>2. Init => LimitInv
  BY LimitInitInv DEF Init
<1>3. LimitInv => Paced
  BY DEF LimitInv
<1>4. QED
  BY <1>1, <1>2, <1>3, PTL DEF Spec

-----------------------------------------------------------------------------
(* Types.                                                                  *)

LEMMA RequestTyped ==
  ASSUME Typed, NEW t \in Threads, NEW r,
         r \in {None} \cup SignUps \cup Uploads \cup Deletions,
         request' = [request EXCEPT ![t] = r]
  PROVE  request' \in [Threads -> {None} \cup SignUps \cup Uploads \cup Deletions]
BY DEF Typed

LEMMA StageTyped ==
  ASSUME Typed, NEW t \in Threads, NEW s, Goes(t, s),
         \/ request[t] \in SignUps /\ s \in {"hash", "dump", "open", "write"}
         \/ request[t] \in Uploads /\ s \in {"body", "pdf", "meta"}
  PROVE  /\ request' \in [Threads -> {None} \cup SignUps \cup Uploads \cup Deletions]
         /\ request' = [request EXCEPT ![t] = [request[t] EXCEPT !.stage = s]]
<1>1. request' = [request EXCEPT ![t] = [request[t] EXCEPT !.stage = s]]
  BY DEF Goes, Typed
<1>2. request[t] \in SignUps /\ s \in {"hash", "dump", "open", "write"}
        => [request[t] EXCEPT !.stage = s] \in SignUps
  BY DEF SignUps
<1>3. request[t] \in Uploads /\ s \in {"body", "pdf", "meta"}
        => [request[t] EXCEPT !.stage = s] \in Uploads
  BY DEF Uploads
<1>4. QED
  BY <1>1, <1>2, <1>3 DEF Typed

LEMMA TypedInit == Init => Typed
BY DEF Init, Typed

LEMMA CountTyped ==
  ASSUME Typed, NEW what \in {"signups", "uploads", "compiles", "removals", "crashes"}, Count(what)
  PROVE  made' \in [signups : Nat, uploads : Nat, compiles : Nat, removals : Nat, crashes : Nat]
BY DEF Typed, Count

LEMMA NewFolderTyped == NewFolder \in Folders
BY DEF NewFolder, Folders

LEMMA TypedSignUp ==
  ASSUME Typed, NEW t \in Threads, NEW c \in Callers, SignUp(t, c)
  PROVE  Typed'
<1>1. made' \in [signups : Nat, uploads : Nat, compiles : Nat, removals : Nat, crashes : Nat] /\ made.signups \in Nat
  BY CountTyped DEF SignUp, Typed
<1> DEFINE r == [stage |-> "hash", who |-> c, id |-> made.signups + 1, dump |-> <<>>]
<1>2. r \in SignUps
  BY <1>1 DEF SignUps
<1>3. UNCHANGED request \/ request' = [request EXCEPT ![t] = r]
  BY DEF SignUp
<1> HIDE DEF r
<1>4. request' \in [Threads -> {None} \cup SignUps \cup Uploads \cup Deletions]
  BY <1>2, <1>3 DEF Typed
<1>5. QED
  BY <1>1, <1>4 DEF SignUp, Typed

LEMMA TypedAccounts ==
  ASSUME Typed, NEW t \in Threads, Insert(t) \/ Dump(t) \/ Open(t) \/ SignedUp(t)
  PROVE  Typed'
<1>1. CASE Insert(t)
  <2>1. request[t] \in SignUps
    BY <1>1, StageTellsKind DEF Insert
  <2>2. NewAccount(t) \in Account
    BY <2>1 DEF NewAccount, Account, SignUps
  <2>3. users' = Append(users, NewAccount(t))
    BY <1>1 DEF Insert, NewAccount
  <2>4. users' \in Seq(Account)
    BY <2>2, <2>3 DEF Typed
  <2>5. request' \in [Threads -> {None} \cup SignUps \cup Uploads \cup Deletions]
    BY <1>1, <2>1, StageTyped DEF Insert
  <2>6. QED
    BY <1>1, <2>4, <2>5 DEF Insert, Typed
<1>2. CASE Dump(t)
  <2>1. request[t] \in SignUps /\ users \in Seq(Account)
    BY <1>2, StageTellsKind DEF Dump, Typed
  <2>2. [request[t] EXCEPT !.stage = "open", !.dump = users] \in SignUps
    BY <2>1 DEF SignUps
  <2>3. request' = [request EXCEPT ![t] = [request[t] EXCEPT !.stage = "open", !.dump = users]]
    BY <1>2 DEF Dump, Typed
  <2>4. request' \in [Threads -> {None} \cup SignUps \cup Uploads \cup Deletions]
    BY <2>2, <2>3 DEF Typed
  <2>5. QED
    BY <1>2, <2>4 DEF Dump, Typed
<1>3. CASE Open(t)
  <2>1. request[t] \in SignUps
    BY <1>3, StageTellsKind DEF Open
  <2>2. request' \in [Threads -> {None} \cup SignUps \cup Uploads \cup Deletions]
    BY <1>3, <2>1, StageTyped DEF Open
  <2>3. QED
    BY <1>3, <2>2 DEF Open, Typed
<1>4. CASE SignedUp(t)
  <2>1. request[t] \in SignUps
    BY <1>4, StageTellsKind DEF SignedUp
  <2>2. userFile' \in Seq(Account)
    BY <1>4, <2>1 DEF SignedUp, SignUps
  <2>3. QED
    BY <1>4, <2>2 DEF SignedUp, Answered, Typed
<1>5. QED
  BY <1>1, <1>2, <1>3, <1>4

\* What the steps that lay down and remove documents leave of the sign-ups.
AccountsAside ==
  /\ UNCHANGED <<users, userFile, told>> /\ (crossed => crossed')
  /\ \A u \in Threads : (request[u] \in SignUps \/ request'[u] \in SignUps) => request'[u] = request[u]

LEMMA AsideByOne ==
  ASSUME Typed, NEW t \in Threads, NEW r, request' = [request EXCEPT ![t] = r],
         request[t] \notin SignUps, r \notin SignUps, UNCHANGED <<users, userFile, told, crossed>>
  PROVE  AccountsAside
BY DEF AccountsAside, Typed

LEMMA TypedUpload ==
  ASSUME Typed, NEW t \in Threads, NEW c \in Callers, NEW d \in Docs, Upload(t, c, d)
  PROVE  Typed' /\ AccountsAside
<1>1. made' \in [signups : Nat, uploads : Nat, compiles : Nat, removals : Nat, crashes : Nat]
  BY CountTyped DEF Upload
<1> DEFINE r == [stage |-> "body", who |-> c, owner |-> UserOf(c), doc |-> d]
<1>2. r \in Uploads
  BY OwnerIsAnId DEF Upload, Uploads
<1>3. UNCHANGED request \/ request' = [request EXCEPT ![t] = r]
  BY DEF Upload
<1>4. UNCHANGED <<users, userFile, cookie, folder, running, told, crossed>> /\ request[t] = None
  BY DEF Upload
<1> HIDE DEF r
<1>5. request' \in [Threads -> {None} \cup SignUps \cup Uploads \cup Deletions]
  BY <1>2, <1>3 DEF Typed
<1>6. AccountsAside
  <2>1. CASE UNCHANGED request
    BY <1>4, <2>1 DEF AccountsAside
  <2>2. CASE request' = [request EXCEPT ![t] = r]
    BY <1>2, <1>4, <2>2, KindsDiffer, AsideByOne
  <2>3. QED
    BY <1>3, <2>1, <2>2
<1>7. QED
  BY <1>1, <1>4, <1>5, <1>6 DEF Typed

LEMMA TypedDelete ==
  ASSUME Typed, NEW t \in Threads, NEW c \in Callers, NEW d \in Docs, Delete(t, c, d)
  PROVE  Typed' /\ AccountsAside
<1> DEFINE r == [stage |-> "delete", doc |-> d, left |-> {}]
<1>1. r \in Deletions
  BY DEF Deletions
<1>2. request' = [request EXCEPT ![t] = r] /\ request[t] = None
      /\ UNCHANGED <<users, userFile, cookie, folder, running, told, crossed>>
  BY DEF Delete
<1> HIDE DEF r
<1>3. AccountsAside
  BY <1>1, <1>2, KindsDiffer, AsideByOne
<1>4. made' \in [signups : Nat, uploads : Nat, compiles : Nat, removals : Nat, crashes : Nat]
  BY CountTyped DEF Delete
<1>5. QED
  BY <1>1, <1>2, <1>3, <1>4 DEF Typed

LEMMA TypedCreate ==
  ASSUME Typed, NEW t \in Threads, Create(t)
  PROVE  Typed' /\ AccountsAside
<1> DEFINE d == request[t].doc
<1>1. request[t] \in Uploads /\ request[t].stage = "body" /\ d \in Docs
  BY StageTellsKind DEF Create, Uploads
<1>2. UNCHANGED <<users, userFile, cookie, running, told, crossed, made>>
  BY DEF Create
<1>3. \/ Answered(t) /\ UNCHANGED folder
      \/ Goes(t, "pdf") /\ folder' = [folder EXCEPT ![d] = IF @ = None THEN NewFolder ELSE @]
  BY DEF Create, Order
<1>4. CASE Answered(t) /\ UNCHANGED folder
  <2>1. AccountsAside
    BY <1>1, <1>2, <1>4, KindsDiffer, AsideByOne DEF Answered
  <2>2. QED
    BY <1>2, <1>4, <2>1 DEF Answered, Typed
<1>5. CASE Goes(t, "pdf") /\ folder' = [folder EXCEPT ![d] = IF @ = None THEN NewFolder ELSE @]
  <2>1. /\ request' \in [Threads -> {None} \cup SignUps \cup Uploads \cup Deletions]
        /\ request' = [request EXCEPT ![t] = [request[t] EXCEPT !.stage = "pdf"]]
    BY <1>1, <1>5, StageTyped
  <2>2. [request[t] EXCEPT !.stage = "pdf"] \in Uploads
    BY <1>1 DEF Uploads
  <2>3. AccountsAside
    BY <1>1, <1>2, <2>1, <2>2, KindsDiffer, AsideByOne
  <2>4. folder' \in [Docs -> {None} \cup Folders]
    BY <1>1, <1>5, NewFolderTyped DEF Typed
  <2>5. QED
    BY <1>2, <2>1, <2>3, <2>4 DEF Typed
<1>6. QED
  BY <1>3, <1>4, <1>5

LEMMA TypedLay ==
  ASSUME Typed, NEW t \in Threads, LayPdf(t) \/ LayMeta(t)
  PROVE  Typed' /\ AccountsAside
<1>1. request[t] \in Uploads /\ request[t].doc \in Docs /\ request[t].owner \in Nat
  BY StageTellsKind DEF LayPdf, LayMeta, Lay, Uploads
<1>2. UNCHANGED <<users, userFile, cookie, running, told, crossed, made>>
  BY DEF LayPdf, LayMeta, Lay
<1>3. folder' \in [Docs -> {None} \cup Folders]
  <2>1. ASSUME folder[request[t].doc] # None
        PROVE  /\ [folder[request[t].doc] EXCEPT !["pdf"] = "whole"] \in Folders
               /\ [folder[request[t].doc] EXCEPT !["meta"] = request[t].owner] \in Folders
    <3>1. folder[request[t].doc] \in Folders
      BY <1>1, <2>1 DEF Typed
    <3>2. QED
      BY <1>1, <3>1 DEF Folders
  <2>2. CASE LayPdf(t)
    BY <1>1, <2>1, <2>2, LayMoves DEF LayPdf, Typed
  <2>3. CASE LayMeta(t)
    BY <1>1, <2>1, <2>3, LayMoves DEF LayMeta, Typed
  <2>4. QED
    BY <2>2, <2>3
<1>4. Answered(t) \/ Goes(t, "meta")
  BY LayMoves DEF LayPdf, LayMeta
<1>5. CASE Answered(t)
  <2>1. AccountsAside
    BY <1>1, <1>2, <1>5, KindsDiffer, AsideByOne DEF Answered
  <2>2. QED
    BY <1>2, <1>3, <1>5, <2>1 DEF Answered, Typed
<1>6. CASE Goes(t, "meta")
  <2>1. /\ request' \in [Threads -> {None} \cup SignUps \cup Uploads \cup Deletions]
        /\ request' = [request EXCEPT ![t] = [request[t] EXCEPT !.stage = "meta"]]
    BY <1>1, <1>6, StageTyped
  <2>2. [request[t] EXCEPT !.stage = "meta"] \in Uploads
    BY <1>1 DEF Uploads
  <2>3. AccountsAside
    BY <1>1, <1>2, <2>1, <2>2, KindsDiffer, AsideByOne
  <2>4. QED
    BY <1>2, <1>3, <2>1, <2>3 DEF Typed
<1>7. QED
  BY <1>4, <1>5, <1>6

\* A folder with one file less is a folder.
LEMMA LessIsAFolder ==
  ASSUME NEW f \in Folders, NEW file \in Files
  PROVE  LET g == [f EXCEPT ![file] = IF file = "rules" THEN FALSE ELSE None]
         IN  /\ g \in Folders
             /\ g.meta \in {None, f.meta} /\ g.pdf \in {None, f.pdf}
BY DEF Folders, Files

LEMMA TypedRemoving ==
  ASSUME Typed, NEW t \in Threads, Removing(t)
  PROVE  Typed' /\ AccountsAside
<1>1. request[t] \in Deletions /\ request[t].doc \in Docs
  BY StageTellsKind DEF Removing, Scan, Unlink, Remove, RemoveFails, Deletions
<1>2. UNCHANGED <<users, userFile, cookie, running, told, crossed, made>>
  BY DEF Removing, Scan, Unlink, Remove, RemoveFails
<1>3. \E r \in {None} \cup Deletions : request' = [request EXCEPT ![t] = r]
  <2>1. CASE Answered(t)
    BY <2>1 DEF Answered
  <2>2. ASSUME NEW left \in SUBSET Files
        PROVE  [request[t] EXCEPT !.stage = "unlink", !.left = left] \in Deletions
    BY <1>1 DEF Deletions
  <2>3. CASE Scan(t) /\ ~Answered(t)
    <3>1. request' = [request EXCEPT ![t] =
             [request[t] EXCEPT !.stage = "unlink", !.left = Present(request[t].doc)]]
      BY <2>3 DEF Scan, Typed
    <3>2. Present(request[t].doc) \in SUBSET Files
      BY DEF Present, Files
    <3>3. QED
      BY <2>2, <3>1, <3>2
  <2>4. ASSUME NEW file \in Files, Unlink(t, file)
        PROVE  \E r \in Deletions : request' = [request EXCEPT ![t] = r]
    <3>1. request' = [request EXCEPT ![t] = [request[t] EXCEPT !.left = request[t].left \ {file}]]
      BY <2>4 DEF Unlink, Typed
    <3>2. [request[t] EXCEPT !.left = request[t].left \ {file}] \in Deletions
      BY <1>1 DEF Deletions
    <3>3. QED
      BY <3>1, <3>2
  <2>5. QED
    BY <2>1, <2>3, <2>4 DEF Removing, Remove, RemoveFails
<1>4. PICK r \in {None} \cup Deletions : request' = [request EXCEPT ![t] = r]
  BY <1>3
<1>5. AccountsAside
  BY <1>1, <1>2, <1>4, KindsDiffer, AsideByOne
<1>6. folder' \in [Docs -> {None} \cup Folders]
  <2>1. CASE UNCHANGED folder
    BY <2>1 DEF Typed
  <2>2. CASE Remove(t)
    BY <1>1, <2>2 DEF Remove, Typed
  <2>3. ASSUME NEW file \in Files, Unlink(t, file)
        PROVE  folder' \in [Docs -> {None} \cup Folders]
    <3>1. PICK d \in Docs : d = request[t].doc
      BY <1>1
    <3>2. folder[d] \in Folders
      BY <2>3, <3>1 DEF Unlink, Typed
    <3>3. folder' = [folder EXCEPT ![d] =
             [folder[d] EXCEPT ![file] = IF file = "rules" THEN FALSE ELSE None]]
      BY <2>3, <3>1 DEF Unlink, Typed
    <3>4. QED
      BY <3>2, <3>3, LessIsAFolder DEF Typed
  <2>4. QED
    BY <2>1, <2>2, <2>3 DEF Removing, Scan, RemoveFails
<1>7. request' \in [Threads -> {None} \cup SignUps \cup Uploads \cup Deletions]
  BY <1>4, RequestTyped
<1>8. QED
  BY <1>2, <1>5, <1>6, <1>7 DEF Typed

LEMMA TypedCompiles ==
  ASSUME Typed, NEW d \in Docs, Compiled(d) \/ Stopped(d) \/ (\E c \in Callers : Compile(c, d))
  PROVE  Typed' /\ AccountsAside
<1>1. UNCHANGED <<users, userFile, request, told, crossed>>
      /\ running' \subseteq Docs
  BY DEF Compiled, Stopped, Compile, Typed
<1>2. made' \in [signups : Nat, uploads : Nat, compiles : Nat, removals : Nat, crashes : Nat]
  BY CountTyped DEF Compiled, Stopped, Compile, Typed
<1>3. folder' \in [Docs -> {None} \cup Folders]
  <2>1. ASSUME NEW f \in Folders PROVE [f EXCEPT !.rules = TRUE] \in Folders
    BY DEF Folders
  <2>2. CASE Compiled(d)
    <3>1. (IF folder[d] = None THEN NewFolder ELSE folder[d]) \in Folders
      BY NewFolderTyped DEF Typed
    <3>2. folder' = [folder EXCEPT ![d] =
            [(IF folder[d] = None THEN NewFolder ELSE folder[d]) EXCEPT !.rules = TRUE]]
      BY <2>2 DEF Compiled, Typed
    <3>3. QED
      BY <2>1, <3>1, <3>2 DEF Typed
  <2>3. QED
    BY <2>2 DEF Stopped, Compile, Typed
<1>4. QED
  BY <1>1, <1>2, <1>3 DEF Typed, AccountsAside

LEMMA TypedCrash ==
  ASSUME Typed, Crash
  PROVE  Typed'
<1>1. made' \in [signups : Nat, uploads : Nat, compiles : Nat, removals : Nat, crashes : Nat]
  BY CountTyped DEF Crash
<1>2. users' \in Seq(Account)
  BY DEF Crash, UsersIn, Typed
<1>3. folder' \in [Docs -> {None} \cup Folders]
  <2>1. ASSUME NEW t \in Threads, NEW file \in {"pdf", "meta"}, folder' \in CutShort(t, file)
        PROVE  folder' \in [Docs -> {None} \cup Folders]
    <3>1. Serving(t, file) /\ folder[request[t].doc] # None
          /\ folder' = [folder EXCEPT ![request[t].doc][file] = Torn]
      BY <2>1 DEF CutShort
    <3>2. request[t].doc \in Docs
      BY <3>1, StageTellsKind DEF Uploads
    <3>3. folder[request[t].doc] \in Folders
      BY <3>1, <3>2 DEF Typed
    <3>4. [folder[request[t].doc] EXCEPT ![file] = Torn] \in Folders
      BY <3>3 DEF Folders
    <3>5. QED
      BY <3>1, <3>2, <3>4 DEF Typed
  <2>2. QED
    BY <2>1 DEF Crash, Typed
<1>4. QED
  BY <1>1, <1>2, <1>3 DEF Crash, Typed

LEMMA TypedStep == Typed /\ [Next]_vars => Typed'
<1>1. SUFFICES ASSUME Typed, [Next]_vars PROVE Typed'
  OBVIOUS
<1>2. CASE UNCHANGED vars
  BY <1>1, <1>2 DEF vars, Typed
<1>3. CASE Tick /\ UNCHANGED <<users, userFile, cookie, folder, running, request, told, crossed, overtaken, removed, made>>
  BY <1>1, <1>3 DEF Typed
<1>4. ASSUME NEW t \in Threads, NEW c \in Callers,
             SignUp(t, c) \/ \E d \in Docs : Upload(t, c, d) \/ Delete(t, c, d)
      PROVE  Typed'
  BY <1>1, <1>4, TypedSignUp, TypedUpload, TypedDelete
<1>5. ASSUME NEW t \in Threads, Insert(t) \/ Dump(t) \/ Open(t) \/ SignedUp(t)
      PROVE  Typed'
  BY <1>1, <1>5, TypedAccounts
<1>6. ASSUME NEW t \in Threads, Create(t) \/ LayPdf(t) \/ LayMeta(t) \/ Removing(t)
      PROVE  Typed'
  BY <1>1, <1>6, TypedCreate, TypedLay, TypedRemoving
<1>7. ASSUME NEW c \in Callers, SignIn(c)
      PROVE  Typed'
  BY <1>1, <1>7 DEF SignIn, Typed
<1>8. ASSUME NEW d \in Docs, Compiled(d) \/ Stopped(d) \/ \E c \in Callers : Compile(c, d)
      PROVE  Typed'
  BY <1>1, <1>8, TypedCompiles
<1>9. CASE Crash
  BY <1>1, <1>9, TypedCrash
<1>10. QED
  BY <1>1, <1>2, <1>3, <1>4, <1>5, <1>6, <1>7, <1>8, <1>9 DEF Next, Removing

-----------------------------------------------------------------------------
(* Accounts: as long as sign-ups do not overlap, what stands between users *)
(* and users.json is the one sign-up under way.                            *)

SigningUp(t) == request[t] \in SignUps
Held(a) == \E i \in DOMAIN users : users[i] = a

SignUpSound(t) ==
  /\ request[t].stage = "hash" => ByEmail(request[t].who) = {} /\ users = UsersIn(userFile)
  /\ request[t].stage # "hash" => Held(NewAccount(t))
  /\ request[t].stage \in {"open", "write"} => request[t].dump = users

OneAtATime == \A t, u \in Threads : SigningUp(t) /\ SigningUp(u) => t = u
OneAccountEach == \A i, j \in DOMAIN users : users[i].email = users[j].email => i = j
Saved == (\A t \in Threads : ~SigningUp(t)) => users = UsersIn(userFile)
ToldAreHeld == \A a \in told : Held(a)
SignUpsSound == \A t \in Threads : SigningUp(t) => SignUpSound(t)

AccountsInv == ~crossed => OneAtATime /\ OneAccountEach /\ Saved /\ ToldAreHeld /\ SignUpsSound

LEMMA AccountsInit == Init => AccountsInv
<1>1. SUFFICES ASSUME Init PROVE AccountsInv
  OBVIOUS
<1>2. users = <<>> /\ UsersIn(userFile) = <<>> /\ told = {} /\ \A t \in Threads : ~SigningUp(t)
  BY <1>1, KindsDiffer DEF Init, UsersIn, SigningUp
<1>3. QED
  BY <1>2 DEF AccountsInv, OneAtATime, OneAccountEach, Saved, ToldAreHeld, SignUpsSound

LEMMA AccountsStayAside ==
  ASSUME AccountsInv, AccountsAside
  PROVE  AccountsInv'
<1>1. SUFFICES ASSUME ~crossed' PROVE (OneAtATime /\ OneAccountEach /\ Saved /\ ToldAreHeld /\ SignUpsSound)'
  BY DEF AccountsInv
<1>2. OneAtATime /\ OneAccountEach /\ Saved /\ ToldAreHeld /\ SignUpsSound
      /\ UNCHANGED <<users, userFile, told>>
  BY <1>1 DEF AccountsInv, AccountsAside
<1>3. ASSUME NEW t \in Threads
      PROVE  /\ SigningUp(t)' <=> SigningUp(t)
             /\ SigningUp(t) => request'[t] = request[t]
  BY DEF AccountsAside, SigningUp
<1>4. OneAtATime' /\ OneAccountEach' /\ Saved' /\ ToldAreHeld'
  <2>1. OneAtATime'
    BY <1>2, <1>3 DEF OneAtATime
  <2>2. OneAccountEach' /\ ToldAreHeld'
    BY <1>2 DEF OneAccountEach, ToldAreHeld, Held
  <2>3. Saved'
    BY <1>2, <1>3 DEF Saved, UsersIn
  <2>4. QED
    BY <2>1, <2>2, <2>3
<1>5. SignUpsSound'
  <2>1. SUFFICES ASSUME NEW t \in Threads, SigningUp(t)' PROVE SignUpSound(t)'
    BY DEF SignUpsSound
  <2>2. SignUpSound(t) /\ request'[t] = request[t]
    BY <1>2, <1>3, <2>1 DEF SignUpsSound
  <2>3. QED
    BY <1>2, <2>2 DEF SignUpSound, ByEmail, UsersIn, Held, NewAccount
<1>6. QED
  BY <1>4, <1>5

LEMMA AccountsSignUp ==
  ASSUME Typed, AccountsInv, NEW t \in Threads, NEW c \in Callers, SignUp(t, c)
  PROVE  AccountsInv'
<1>1. UNCHANGED <<users, userFile, told>> /\ request[t] = None /\ made.signups \in Nat
      /\ (~crossed' => ~crossed)
  BY DEF SignUp, Typed
<1>2. CASE ByEmail(c) # {}
  <2>1. AccountsAside
    BY <1>1, <1>2 DEF SignUp, AccountsAside
  <2>2. QED
    BY <2>1, AccountsStayAside
<1>3. CASE ByEmail(c) = {}
  <2> DEFINE r == [stage |-> "hash", who |-> c, id |-> made.signups + 1, dump |-> <<>>]
  <2>1. request' = [request EXCEPT ![t] = r] /\ r \in SignUps /\ r.stage = "hash" /\ r.who = c
    BY <1>1, <1>3 DEF SignUp, SignUps
  <2> HIDE DEF r
  <2>2. request'[t] = r /\ \A u \in Threads \ {t} : request'[u] = request[u]
    BY <2>1 DEF Typed
  <2>3. SUFFICES ASSUME ~crossed' PROVE (OneAtATime /\ OneAccountEach /\ Saved /\ ToldAreHeld /\ SignUpsSound)'
    BY DEF AccountsInv
  <2>4. OneAtATime /\ OneAccountEach /\ Saved /\ ToldAreHeld /\ SignUpsSound
    BY <1>1, <2>3 DEF AccountsInv
  <2>5. \A u \in Threads \ {t} : ~SigningUp(u)
    <3>1. SUFFICES ASSUME NEW u \in Threads \ {t}, SigningUp(u) PROVE FALSE
      OBVIOUS
    <3>2. request[u] # None /\ request[u].stage \in {"hash", "dump", "open", "write"}
      BY <3>1, KindsDiffer DEF SigningUp, SignUps
    <3>3. \E s \in {"hash", "dump", "open", "write"} : Serving(u, s)
      BY <3>2 DEF Serving
    <3>4. QED
      BY <2>3, <3>1, <3>3 DEF SignUp
  <2>6. ~SigningUp(t)
    BY <1>1, KindsDiffer DEF SigningUp
  <2>7. users = UsersIn(userFile)
    BY <2>4, <2>5, <2>6 DEF Saved
  <2>8. \A u \in Threads : SigningUp(u)' <=> u = t
    BY <2>1, <2>2, <2>5 DEF SigningUp
  <2>9. (OneAtATime /\ OneAccountEach /\ Saved /\ ToldAreHeld)'
    BY <1>1, <2>4, <2>8 DEF OneAtATime, OneAccountEach, Saved, ToldAreHeld, Held
  <2>10. SignUpSound(t)'
    BY <1>1, <1>3, <2>1, <2>2, <2>7 DEF SignUpSound, ByEmail, UsersIn
  <2>11. QED
    BY <2>8, <2>9, <2>10 DEF SignUpsSound
<1>4. QED
  BY <1>2, <1>3

\* What the steps of the one sign-up under way share.
LEMMA SoleSignUp ==
  ASSUME Typed, AccountsInv, NEW t \in Threads, NEW s \in {"hash", "dump", "open", "write"}, Serving(t, s),
         ~crossed
  PROVE  /\ OneAtATime /\ OneAccountEach /\ Saved /\ ToldAreHeld /\ SignUpSound(t)
         /\ request[t] \in SignUps /\ request[t].stage = s
         /\ \A u \in Threads \ {t} : ~SigningUp(u)
<1>1. request[t] \in SignUps /\ request[t].stage = s
  BY StageTellsKind
<1>2. OneAtATime /\ OneAccountEach /\ Saved /\ ToldAreHeld /\ SignUpsSound
  BY DEF AccountsInv
<1>3. QED
  BY <1>1, <1>2 DEF OneAtATime, SignUpsSound, SigningUp

\* A sign-up that goes on to another stage stays the only one.
LEMMA SoleStays ==
  ASSUME Typed, NEW t \in Threads, NEW r, r \in SignUps, request' = [request EXCEPT ![t] = r],
         \A u \in Threads \ {t} : ~SigningUp(u)
  PROVE  /\ request'[t] = r
         /\ \A u \in Threads : SigningUp(u)' <=> u = t
         /\ OneAtATime' /\ Saved'
<1>1. request'[t] = r /\ \A u \in Threads \ {t} : request'[u] = request[u]
  BY DEF Typed
<1>2. \A u \in Threads : SigningUp(u)' <=> u = t
  BY <1>1 DEF SigningUp
<1>3. QED
  BY <1>1, <1>2 DEF OneAtATime, Saved

LEMMA AccountsInsert ==
  ASSUME Typed, AccountsInv, NEW t \in Threads, Insert(t)
  PROVE  AccountsInv'
<1> DEFINE r == [request[t] EXCEPT !.stage = "dump"]
<1>1. SUFFICES ASSUME ~crossed' PROVE (OneAtATime /\ OneAccountEach /\ Saved /\ ToldAreHeld /\ SignUpsSound)'
  BY DEF AccountsInv
<1>2. ~crossed /\ Serving(t, "hash") /\ Goes(t, "dump") /\ UNCHANGED told
      /\ users' = Append(users, NewAccount(t))
  BY <1>1 DEF Insert, NewAccount
<1>3. /\ OneAccountEach /\ ToldAreHeld /\ SignUpSound(t)
      /\ request[t] \in SignUps /\ request[t].stage = "hash"
      /\ \A u \in Threads \ {t} : ~SigningUp(u)
  BY <1>2, SoleSignUp
<1>4. request' = [request EXCEPT ![t] = r]
  BY <1>2, <1>3, StageTyped
<1>5. r \in SignUps /\ r.stage = "dump" /\ r.id = request[t].id /\ r.who = request[t].who
  BY <1>3 DEF SignUps
<1> HIDE DEF r
<1>6. request'[t] = r /\ (\A u \in Threads : SigningUp(u)' <=> u = t) /\ OneAtATime' /\ Saved'
  BY <1>3, <1>4, <1>5, SoleStays
<1>7. /\ users \in Seq(Account) /\ DOMAIN users = 1..Len(users) /\ Len(users) \in Nat
      /\ DOMAIN users' = 1..(Len(users) + 1) /\ users'[Len(users) + 1] = NewAccount(t)
      /\ \A i \in DOMAIN users : users'[i] = users[i]
  BY <1>2 DEF Typed
<1>8. OneAccountEach'
  <2>1. \A i \in DOMAIN users : users[i].email # request[t].who
    BY <1>3 DEF SignUpSound, ByEmail
  <2>2. NewAccount(t).email = request[t].who
    BY DEF NewAccount
  <2>3. SUFFICES ASSUME NEW i \in DOMAIN users', NEW j \in DOMAIN users', users'[i].email = users'[j].email
                 PROVE  i = j
    BY DEF OneAccountEach
  <2>4. CASE i \in DOMAIN users /\ j \in DOMAIN users
    BY <1>3, <1>7, <2>3, <2>4 DEF OneAccountEach
  <2>5. i \notin DOMAIN users => i = Len(users) + 1
    BY <1>7
  <2>6. j \notin DOMAIN users => j = Len(users) + 1
    BY <1>7
  <2>7. QED
    BY <1>7, <2>1, <2>2, <2>3, <2>4, <2>5, <2>6
<1>9. \A a : Held(a) => Held(a)'
  BY <1>7 DEF Held
<1>10. ToldAreHeld'
  BY <1>2, <1>3, <1>9 DEF ToldAreHeld
<1>11. NewAccount(t)' = NewAccount(t)
  BY <1>5, <1>6 DEF NewAccount
<1>12. \E i \in DOMAIN users' : users'[i] = NewAccount(t)
  <2>1. Len(users) + 1 \in DOMAIN users'
    BY <1>7
  <2>2. QED
    BY <1>7, <2>1
<1>13. SignUpSound(t)'
  <2>1. Held(NewAccount(t))'
    BY <1>11, <1>12 DEF Held
  <2>2. QED
    BY <1>5, <1>6, <2>1 DEF SignUpSound
<1>14. QED
  BY <1>6, <1>8, <1>10, <1>13 DEF SignUpsSound

LEMMA AccountsSaving ==
  ASSUME Typed, AccountsInv, NEW t \in Threads, Dump(t) \/ Open(t)
  PROVE  AccountsInv'
<1>1. SUFFICES ASSUME ~crossed' PROVE (OneAtATime /\ OneAccountEach /\ Saved /\ ToldAreHeld /\ SignUpsSound)'
  BY DEF AccountsInv
<1>2. ~crossed /\ UNCHANGED <<users, told>>
  BY <1>1 DEF Dump, Open
<1>3. PICK s \in {"dump", "open"} : Serving(t, s)
  BY DEF Dump, Open
<1>4. /\ OneAccountEach /\ ToldAreHeld /\ SignUpSound(t)
      /\ request[t] \in SignUps /\ request[t].stage = s
      /\ \A u \in Threads \ {t} : ~SigningUp(u)
  BY <1>2, <1>3, SoleSignUp
<1>5. PICK r \in SignUps :
        /\ request' = [request EXCEPT ![t] = r] /\ r.stage \in {"open", "write"} /\ r.dump = users
        /\ r.id = request[t].id /\ r.who = request[t].who
  <2>1. CASE Dump(t)
    <3> DEFINE n == [request[t] EXCEPT !.stage = "open", !.dump = users]
    <3>1. request' = [request EXCEPT ![t] = n]
      BY <2>1 DEF Dump, Typed
    <3>2. n \in SignUps /\ n.stage = "open" /\ n.dump = users
          /\ n.id = request[t].id /\ n.who = request[t].who
      BY <1>4 DEF SignUps, Typed
    <3>3. QED
      BY <3>1, <3>2
  <2>2. CASE Open(t)
    <3> DEFINE n == [request[t] EXCEPT !.stage = "write"]
    <3>1. request' = [request EXCEPT ![t] = n]
      BY <2>2, <1>4, StageTyped DEF Open
    <3>2. request[t].stage = "open"
      BY <2>2, StageTellsKind DEF Open
    <3>3. request[t].dump = users
      BY <1>4, <3>2 DEF SignUpSound
    <3>4. n \in SignUps /\ n.stage = "write" /\ n.dump = users
          /\ n.id = request[t].id /\ n.who = request[t].who
      BY <1>4, <3>3 DEF SignUps
    <3>5. QED
      BY <3>1, <3>4
  <2>3. QED
    BY <2>1, <2>2
<1>6. request'[t] = r /\ (\A u \in Threads : SigningUp(u)' <=> u = t) /\ OneAtATime' /\ Saved'
  BY <1>4, <1>5, SoleStays
<1>7. OneAccountEach' /\ ToldAreHeld'
  BY <1>2, <1>4 DEF OneAccountEach, ToldAreHeld, Held
<1>8. Held(NewAccount(t))
  BY <1>3, <1>4 DEF SignUpSound
<1>9. SignUpSound(t)'
  BY <1>2, <1>5, <1>6, <1>8 DEF SignUpSound, NewAccount, Held
<1>10. QED
  BY <1>6, <1>7, <1>9 DEF SignUpsSound

LEMMA AccountsSignedUp ==
  ASSUME Typed, AccountsInv, NEW t \in Threads, SignedUp(t)
  PROVE  AccountsInv'
<1>1. SUFFICES ASSUME ~crossed' PROVE (OneAtATime /\ OneAccountEach /\ Saved /\ ToldAreHeld /\ SignUpsSound)'
  BY DEF AccountsInv
<1>2. ~crossed /\ UNCHANGED users /\ Serving(t, "write") /\ userFile' = request[t].dump
      /\ told' = told \cup {NewAccount(t)} /\ request' = [request EXCEPT ![t] = None]
  BY <1>1 DEF SignedUp, Answered, NewAccount
<1>3. /\ OneAccountEach /\ ToldAreHeld /\ SignUpSound(t) /\ request[t].stage = "write"
      /\ \A u \in Threads \ {t} : ~SigningUp(u)
  BY <1>2, SoleSignUp
<1>4. \A u \in Threads : ~SigningUp(u)'
  BY <1>2, <1>3, KindsDiffer DEF SigningUp, Typed
<1>5. userFile' = users /\ users \in Seq(Account) /\ Held(NewAccount(t))
  BY <1>2, <1>3 DEF SignUpSound, Typed
<1>6. UsersIn(userFile') = users
  BY <1>5, DocumentsAssumption DEF DocumentsAssumption, UsersIn
<1>7. Saved' /\ OneAtATime' /\ SignUpsSound'
  BY <1>2, <1>4, <1>6 DEF Saved, OneAtATime, SignUpsSound, UsersIn
<1>8. OneAccountEach' /\ ToldAreHeld'
  BY <1>2, <1>3, <1>5 DEF OneAccountEach, ToldAreHeld, Held
<1>9. QED
  BY <1>7, <1>8

LEMMA AccountsCrash ==
  ASSUME Typed, AccountsInv, Crash
  PROVE  AccountsInv'
<1>1. SUFFICES ASSUME ~crossed' PROVE (OneAtATime /\ OneAccountEach /\ Saved /\ ToldAreHeld /\ SignUpsSound)'
  BY DEF AccountsInv
<1>2. ~crossed /\ users' = users /\ users = UsersIn(userFile) /\ UNCHANGED <<userFile, told>>
  BY <1>1 DEF Crash
<1>3. OneAccountEach /\ ToldAreHeld
  BY <1>2 DEF AccountsInv
<1>4. \A u \in Threads : ~SigningUp(u)'
  BY KindsDiffer DEF Crash, SigningUp
<1>5. QED
  BY <1>2, <1>3, <1>4 DEF OneAtATime, OneAccountEach, Saved, ToldAreHeld, SignUpsSound, Held, UsersIn

LEMMA AccountsStep == Typed /\ AccountsInv /\ [Next]_vars => AccountsInv'
<1>1. SUFFICES ASSUME Typed, AccountsInv, [Next]_vars PROVE AccountsInv'
  OBVIOUS
<1>2. CASE UNCHANGED vars
  BY <1>1, <1>2, AccountsStayAside DEF vars, AccountsAside
<1>3. CASE Tick /\ UNCHANGED <<users, userFile, cookie, folder, running, request, told, crossed, overtaken, removed, made>>
  BY <1>1, <1>3, AccountsStayAside DEF AccountsAside
<1>4. ASSUME NEW t \in Threads, NEW c \in Callers,
             SignUp(t, c) \/ \E d \in Docs : Upload(t, c, d) \/ Delete(t, c, d)
      PROVE  AccountsInv'
  BY <1>1, <1>4, AccountsSignUp, TypedUpload, TypedDelete, AccountsStayAside
<1>5. ASSUME NEW t \in Threads, Insert(t) \/ Dump(t) \/ Open(t) \/ SignedUp(t)
      PROVE  AccountsInv'
  BY <1>1, <1>5, AccountsInsert, AccountsSaving, AccountsSignedUp
<1>6. ASSUME NEW t \in Threads, Create(t) \/ LayPdf(t) \/ LayMeta(t) \/ Removing(t)
      PROVE  AccountsInv'
  BY <1>1, <1>6, TypedCreate, TypedLay, TypedRemoving, AccountsStayAside
<1>7. ASSUME NEW c \in Callers, SignIn(c)
      PROVE  AccountsInv'
  <2>1. AccountsAside
    BY <1>7 DEF SignIn, AccountsAside
  <2>2. QED
    BY <1>1, <2>1, AccountsStayAside
<1>8. ASSUME NEW d \in Docs, Compiled(d) \/ Stopped(d) \/ \E c \in Callers : Compile(c, d)
      PROVE  AccountsInv'
  BY <1>1, <1>8, TypedCompiles, AccountsStayAside
<1>9. CASE Crash
  BY <1>1, <1>9, AccountsCrash
<1>10. QED
  BY <1>1, <1>2, <1>3, <1>4, <1>5, <1>6, <1>7, <1>8, <1>9 DEF Next, Removing

LEMMA AlwaysTyped == Spec => []Typed
BY TypedInit, TypedStep, PTL DEF Spec

\* Whoever signs up and whenever the server dies: an account that was acknowledged
\* stays, one address has one account, and users.json has what memory has when no
\* save is under way, unless two sign-ups overlapped or one was cut short.
THEOREM AccountsAlwaysKept == Spec => []AccountsAreKept
<1>1. Typed /\ AccountsInv => AccountsAreKept
  <2>1. SUFFICES ASSUME Typed, AccountsInv, ~crossed
                 PROVE  /\ \A i, j \in DOMAIN users : users[i].email = users[j].email => i = j
                        /\ \A a \in told : \E i \in DOMAIN users : users[i] = a
                        /\ (\A t \in Threads : \A s \in {"dump", "open", "write"} : ~Serving(t, s))
                             => users = UsersIn(userFile)
    BY DEF AccountsAreKept
  <2>2. OneAccountEach /\ Saved /\ ToldAreHeld /\ SignUpsSound
    BY <2>1 DEF AccountsInv
  <2>3. ASSUME \A t \in Threads : \A s \in {"dump", "open", "write"} : ~Serving(t, s)
        PROVE  users = UsersIn(userFile)
    <3>1. CASE \A t \in Threads : ~SigningUp(t)
      BY <2>2, <3>1 DEF Saved
    <3>2. ASSUME NEW t \in Threads, SigningUp(t) PROVE users = UsersIn(userFile)
      <4>1. request[t] # None /\ request[t].stage \in {"hash", "dump", "open", "write"}
        BY <3>2, KindsDiffer DEF SigningUp, SignUps
      <4>2. request[t].stage = "hash"
        BY <2>3, <4>1 DEF Serving
      <4>3. QED
        BY <2>2, <3>2, <4>2 DEF SignUpsSound, SignUpSound
    <3>3. QED
      BY <3>1, <3>2
  <2>4. QED
    BY <2>2, <2>3 DEF OneAccountEach, ToldAreHeld, Held
<1>2. QED
  BY <1>1, AccountsInit, AccountsStep, AlwaysTyped, PTL DEF Spec

-----------------------------------------------------------------------------
(* How much there is in the folders.                                       *)

LEMMA BytesAreFinite ==
  ASSUME NEW ds \in SUBSET Docs
  PROVE  IsFiniteSet(BytesOf(ds)) /\ Cardinality(BytesOf(ds)) \in Nat
<1> DEFINE f == [d \in ds |-> {d} \X (1..Size[d])]
           T == {{d} \X (1..Size[d]) : d \in ds}
<1>1. IsFiniteSet(ds)
  BY DocumentsAssumption, FS_Subset DEF DocumentsAssumption
<1>2. f \in Surjection(ds, T)
  BY DEF Surjection
<1>3. IsFiniteSet(T)
  <2> HIDE DEF f, T
  <2> QED BY <1>1, <1>2, FS_Surjection
<1>4. ASSUME NEW B \in T PROVE IsFiniteSet(B)
  <2>1. PICK d \in ds : B = {d} \X (1..Size[d])
    OBVIOUS
  <2>2. Size[d] \in Int
    BY DocumentsAssumption DEF DocumentsAssumption
  <2>3. IsFiniteSet({d}) /\ IsFiniteSet(1..Size[d])
    <3>1. IsFiniteSet(1..Size[d])
      BY <2>2, FS_Interval
    <3>2. QED
      BY <3>1, FS_Singleton
  <2>4. QED
    BY <2>1, <2>3, FS_Product
<1>5. IsFiniteSet(BytesOf(ds))
  BY <1>3, <1>4, FS_UNION DEF BytesOf
<1>6. QED
  BY <1>5, FS_CardinalityType

LEMMA BytesGrow ==
  ASSUME NEW ds \in SUBSET Docs, NEW cs \in SUBSET ds
  PROVE  Cardinality(BytesOf(cs)) <= Cardinality(BytesOf(ds))
<1>1. BytesOf(cs) \subseteq BytesOf(ds)
  BY DEF BytesOf
<1>2. QED
  BY <1>1, BytesAreFinite, FS_Subset

LEMMA BytesOfOneMore ==
  ASSUME NEW ds \in SUBSET Docs, NEW d \in Docs
  PROVE  Cardinality(BytesOf(ds \cup {d})) <= Cardinality(BytesOf(ds)) + Size[d]
<1> DEFINE B == {d} \X (1..Size[d])
<1>1. Size[d] \in Nat \ {0}
  BY DocumentsAssumption DEF DocumentsAssumption
<1>2. IsFiniteSet({d}) /\ Cardinality({d}) = 1
  BY FS_Singleton
<1>3. IsFiniteSet(1..Size[d]) /\ Cardinality(1..Size[d]) = Size[d]
  <2>1. PICK s : s = Size[d]
    OBVIOUS
  <2>2. s \in Nat \ {0} /\ 1 \in Int /\ s \in Int
    BY <1>1, <2>1
  <2>3. IsFiniteSet(1..s) /\ Cardinality(1..s) = s
    BY <2>2, FS_Interval
  <2> QED BY <2>1, <2>3
<1>4. IsFiniteSet(B) /\ Cardinality(B) = 1 * Size[d]
  BY <1>2, <1>3, FS_Product
<1>5. BytesOf(ds \cup {d}) = BytesOf(ds) \cup B
  BY DEF BytesOf
<1> HIDE DEF B
<1>6. IsFiniteSet(BytesOf(ds)) /\ Cardinality(BytesOf(ds)) \in Nat
  BY BytesAreFinite
<1>7. Cardinality(BytesOf(ds) \cup B)
        = Cardinality(BytesOf(ds)) + Cardinality(B) - Cardinality(BytesOf(ds) \cap B)
  BY <1>4, <1>6, FS_Union
<1>8. Cardinality(BytesOf(ds) \cap B) \in Nat
  BY <1>6, FS_Intersection, FS_CardinalityType
<1>9. Cardinality(B) = Size[d]
  BY <1>1, <1>4
<1>10. Cardinality(BytesOf(ds) \cup B) <= Cardinality(BytesOf(ds)) + Size[d]
  BY <1>1, <1>6, <1>7, <1>8, <1>9
<1>11. QED
  BY <1>5, <1>10

LEMMA StoredAreDocs == Stored \in SUBSET Docs /\ PdfBytes \in Nat
<1>1. Stored \in SUBSET Docs
  BY DEF Stored
<1>2. QED
  BY <1>1, BytesAreFinite DEF PdfBytes

\* What create checks is enough for the document it lays down then.
LEMMA FittingStays ==
  ASSUME NEW d \in Docs, Fits(d)
  PROVE  Cardinality(BytesOf(Stored \cup {d})) <= Quota
<1> DEFINE R == {e \in Docs : folder[e] # None /\ folder[e].rules}
<1>1. Cardinality(R) \in Nat
  <2>1. R \subseteq Docs
    OBVIOUS
  <2> HIDE DEF R
  <2>2. QED
    BY <2>1, DocumentsAssumption, FS_Subset, FS_CardinalityType DEF DocumentsAssumption
<1>2. PdfBytes + Cardinality(R) + Size[d] <= Quota
  BY DEF Fits, BytesOnDisk
<1> HIDE DEF R
<1>3. Cardinality(BytesOf(Stored \cup {d})) <= PdfBytes + Size[d]
  BY StoredAreDocs, BytesOfOneMore DEF PdfBytes
<1>4. Cardinality(BytesOf(Stored \cup {d})) \in Nat
  <2>1. Stored \cup {d} \in SUBSET Docs
    BY StoredAreDocs
  <2>2. QED
    BY <2>1, BytesAreFinite
<1>5. Size[d] \in Nat /\ Quota \in Nat /\ PdfBytes \in Nat
  BY StoredAreDocs, DocumentsAssumption DEF DocumentsAssumption
<1>6. QED
  BY <1>1, <1>2, <1>3, <1>4, <1>5

-----------------------------------------------------------------------------
(* Folders: one document is laid down at a time, it is not in the list     *)
(* until its meta file is written, and room was made for it before.        *)

Laying(t) == Serving(t, "pdf") \/ Serving(t, "meta")
LaidSound(t) ==
  LET d == request[t].doc
  IN  /\ ~Listed(d)
      /\ Serving(t, "pdf") => Cardinality(BytesOf(Stored \cup {d})) <= Quota
      /\ (Serving(t, "meta") /\ folder[d] # None /\ d \notin overtaken \cup removed)
              => folder[d].pdf = "whole"
OneLaid == \A t, u \in Threads : Laying(t) /\ Laying(u) => t = u
GoneIsOvertaken == \A d \in running : folder[d] = None => d \in overtaken
LaysSound == \A t \in Threads : Laying(t) => LaidSound(t)

TakenAreRemoved == \A t \in Threads : Serving(t, "unlink") => request[t].doc \in removed

FoldersInv ==
  OneLaid /\ ListedIsWhole /\ WithinQuota /\ GoneIsOvertaken /\ LaysSound /\ TakenAreRemoved

\* What the other steps leave of the folders.
FoldersAside ==
  /\ UNCHANGED <<folder, overtaken, removed>>
  /\ \A d \in running' : d \in running \/ folder[d] # None
  /\ \A u \in Threads :
       (Laying(u) \/ Laying(u)' \/ Serving(u, "unlink")') => request'[u] = request[u]

LEMMA FoldersStayAside ==
  ASSUME FoldersInv, FoldersAside
  PROVE  FoldersInv'
<1>1. UNCHANGED <<folder, overtaken, removed>> /\ Stored' = Stored
  BY DEF FoldersAside, Stored
<1>2. ListedIsWhole' /\ WithinQuota'
  <2>1. ListedIsWhole'
    BY <1>1 DEF FoldersInv, ListedIsWhole, Listed
  <2>2. WithinQuota'
    BY <1>1 DEF FoldersInv, WithinQuota, PdfBytes, BytesOf
  <2>3. QED
    BY <2>1, <2>2
<1>3. ASSUME NEW u \in Threads, Laying(u)' PROVE Laying(u) /\ LaidSound(u)'
  <2>1. request'[u] = request[u]
    BY <1>3 DEF FoldersAside
  <2>2. Laying(u)
    BY <1>3, <2>1 DEF Laying, Serving
  <2>3. LaidSound(u)
    BY <2>2 DEF FoldersInv, LaysSound
  <2>4. QED
    BY <1>1, <2>1, <2>2, <2>3 DEF LaidSound, Serving, Listed, BytesOf
<1>4. OneLaid' /\ LaysSound'
  BY <1>3 DEF FoldersInv, OneLaid, LaysSound
<1>5. GoneIsOvertaken'
  BY <1>1 DEF FoldersAside, FoldersInv, GoneIsOvertaken
<1>6. TakenAreRemoved'
  BY <1>1 DEF FoldersAside, FoldersInv, TakenAreRemoved, Serving
<1>7. QED
  BY <1>2, <1>4, <1>5, <1>6 DEF FoldersInv

LEMMA FoldersInit == Init => FoldersInv
<1>1. SUFFICES ASSUME Init PROVE FoldersInv
  OBVIOUS
<1>2. (\A d \in Docs : folder[d] = None) /\ running = {} /\ \A t \in Threads : request[t] = None
  BY <1>1 DEF Init
<1>3. OneLaid /\ LaysSound /\ GoneIsOvertaken /\ ListedIsWhole /\ TakenAreRemoved
  BY <1>2 DEF OneLaid, LaysSound, GoneIsOvertaken, ListedIsWhole, TakenAreRemoved, Laying, Serving, Listed
<1>4. BytesOf(Stored) = {}
  BY <1>2 DEF Stored, BytesOf
<1>5. WithinQuota
  BY <1>4, FS_EmptySet, DocumentsAssumption DEF WithinQuota, PdfBytes, DocumentsAssumption
<1>6. QED
  BY <1>3, <1>5 DEF FoldersInv

LEMMA FoldersAsideByOne ==
  ASSUME Typed, NEW t \in Threads, NEW r, request' = [request EXCEPT ![t] = r],
         ~Laying(t), r = None \/ r.stage \notin {"pdf", "meta", "unlink"},
         UNCHANGED <<folder, overtaken, removed, running>>
  PROVE  FoldersAside
<1>1. request'[t] = r /\ \A u \in Threads \ {t} : request'[u] = request[u]
  BY DEF Typed
<1>2. ~Laying(t)' /\ ~Serving(t, "unlink")'
  BY <1>1 DEF Laying, Serving
<1>3. QED
  BY <1>1, <1>2 DEF FoldersAside

LEMMA AccountsLeaveFolders ==
  ASSUME Typed, NEW t \in Threads,
         Insert(t) \/ Dump(t) \/ Open(t) \/ SignedUp(t) \/ \E c \in Callers : SignUp(t, c)
  PROVE  FoldersAside
<1>1. UNCHANGED <<folder, overtaken, removed, running>> /\ ~Laying(t)
  BY DEF Insert, Dump, Open, SignedUp, SignUp, Laying, Serving
<1>2. ASSUME NEW c \in Callers, SignUp(t, c) PROVE FoldersAside
  <2> DEFINE r == [stage |-> "hash", who |-> c, id |-> made.signups + 1, dump |-> <<>>]
  <2>1. UNCHANGED request \/ request' = [request EXCEPT ![t] = r]
    BY <1>2 DEF SignUp
  <2>2. r.stage \notin {"pdf", "meta", "unlink"}
    OBVIOUS
  <2> HIDE DEF r
  <2>3. UNCHANGED request => FoldersAside
    BY <1>1 DEF FoldersAside
  <2>4. QED
    BY <1>1, <2>1, <2>2, <2>3, FoldersAsideByOne
<1>3. CASE Insert(t) \/ Dump(t) \/ Open(t)
  <2>1. PICK s \in {"hash", "dump", "open"} : Serving(t, s)
    BY <1>3 DEF Insert, Dump, Open
  <2>2. request[t] \in SignUps
    BY <2>1, StageTellsKind
  <2>3. PICK r \in SignUps : request' = [request EXCEPT ![t] = r]
    <3>1. CASE Insert(t)
      <4>1. [request[t] EXCEPT !.stage = "dump"] \in SignUps
        BY <2>2 DEF SignUps
      <4>2. QED
        BY <2>2, <3>1, <4>1, StageTyped DEF Insert
    <3>2. CASE Open(t)
      <4>1. [request[t] EXCEPT !.stage = "write"] \in SignUps
        BY <2>2 DEF SignUps
      <4>2. QED
        BY <2>2, <3>2, <4>1, StageTyped DEF Open
    <3>3. CASE Dump(t)
      <4>1. [request[t] EXCEPT !.stage = "open", !.dump = users] \in SignUps
        BY <2>2 DEF SignUps, Typed
      <4>2. QED
        BY <3>3, <4>1 DEF Dump, Typed
    <3>4. QED
      BY <1>3, <3>1, <3>2, <3>3
  <2>4. r.stage \notin {"pdf", "meta", "unlink"}
    BY DEF SignUps
  <2>5. QED
    BY <1>1, <2>3, <2>4, FoldersAsideByOne
<1>4. CASE SignedUp(t)
  BY <1>1, <1>4, FoldersAsideByOne DEF SignedUp, Answered
<1>5. QED
  BY <1>2, <1>3, <1>4

LEMMA UploadLeavesFolders ==
  ASSUME Typed, NEW t \in Threads, NEW c \in Callers, NEW d \in Docs, Upload(t, c, d) \/ Delete(t, c, d)
  PROVE  FoldersAside
<1>1. UNCHANGED <<folder, overtaken, removed, running>> /\ ~Laying(t)
  BY DEF Upload, Delete, Laying, Serving
<1>2. UNCHANGED request \/ \E r : r.stage \notin {"pdf", "meta", "unlink"} /\ request' = [request EXCEPT ![t] = r]
  <2>1. CASE Upload(t, c, d)
    <3> DEFINE r == [stage |-> "body", who |-> c, owner |-> UserOf(c), doc |-> d]
    <3>1. UNCHANGED request \/ request' = [request EXCEPT ![t] = r]
      BY <2>1 DEF Upload
    <3>2. r.stage \notin {"pdf", "meta", "unlink"}
      OBVIOUS
    <3> HIDE DEF r
    <3>3. QED
      BY <3>1, <3>2
  <2>2. CASE Delete(t, c, d)
    <3> DEFINE r == [stage |-> "delete", doc |-> d, left |-> {}]
    <3>1. request' = [request EXCEPT ![t] = r]
      BY <2>2 DEF Delete
    <3>2. r.stage \notin {"pdf", "meta", "unlink"}
      OBVIOUS
    <3> HIDE DEF r
    <3>3. QED
      BY <3>1, <3>2
  <2>3. QED
    BY <2>1, <2>2
<1>3. CASE UNCHANGED request
  BY <1>1, <1>3 DEF FoldersAside
<1>4. QED
  BY <1>1, <1>2, <1>3, FoldersAsideByOne

LEMMA CompileLeavesFolders ==
  ASSUME NEW d \in Docs, Stopped(d) \/ \E c \in Callers : Compile(c, d)
  PROVE  FoldersAside
BY DEF Stopped, Compile, Listed, FoldersAside

-----------------------------------------------------------------------------
(* The steps that do change the folders.                                   *)

\* What an upload under way relies on, when a step of another changes the folders
\* elsewhere, or takes its folder away.
LEMMA LaidStaysSound ==
  ASSUME NEW u \in Threads, LaidSound(u), request'[u] = request[u],
         NEW d \in Docs, request[u].doc = d,
         Listed(d)' => Listed(d), Stored' \subseteq Stored, Stored \subseteq Docs,
         (folder'[d] # None /\ d \notin overtaken' \cup removed') =>
            (folder[d] # None /\ d \notin overtaken \cup removed /\ folder'[d].pdf = folder[d].pdf)
  PROVE  LaidSound(u)'
<1>1. ~Listed(d)'
  BY DEF LaidSound
<1>2. Serving(u, "pdf") => Cardinality(BytesOf(Stored' \cup {d})) <= Quota
  <2>1. SUFFICES ASSUME Serving(u, "pdf") PROVE Cardinality(BytesOf(Stored' \cup {d})) <= Quota
    OBVIOUS
  <2>2. Cardinality(BytesOf(Stored \cup {d})) <= Quota
    BY <2>1 DEF LaidSound
  <2> DEFINE ds == Stored \cup {d}
             cs == Stored' \cup {d}
  <2>3. ds \in SUBSET Docs /\ cs \in SUBSET ds
    OBVIOUS
  <2> HIDE DEF ds, cs
  <2>4. Cardinality(BytesOf(cs)) <= Cardinality(BytesOf(ds))
        /\ Cardinality(BytesOf(cs)) \in Nat /\ Cardinality(BytesOf(ds)) \in Nat
    <3>1. cs \in SUBSET Docs
      BY <2>3
    <3>2. QED
      BY <2>3, <3>1, BytesGrow, BytesAreFinite
  <2>5. Cardinality(BytesOf(cs)) <= Quota
    BY <2>2, <2>4, DocumentsAssumption DEF DocumentsAssumption, ds
  <2>6. QED
    BY <2>5 DEF cs
<1>3. (Serving(u, "meta") /\ folder'[d] # None /\ d \notin overtaken' \cup removed')
         => folder'[d].pdf = "whole"
  BY DEF LaidSound
<1>4. request'[u].doc = d /\ (Serving(u, "pdf")' <=> Serving(u, "pdf"))
      /\ (Serving(u, "meta")' <=> Serving(u, "meta"))
  BY DEF Serving
<1>5. QED
  BY <1>1, <1>2, <1>3, <1>4 DEF LaidSound, BytesOf

LEMMA QuotaStays ==
  ASSUME NEW ds \in SUBSET Docs, Stored' \subseteq ds, Cardinality(BytesOf(ds)) <= Quota
  PROVE  WithinQuota'
<1> DEFINE cs == Stored'
<1>1. cs \in SUBSET ds /\ cs \in SUBSET Docs
  OBVIOUS
<1>2. WithinQuota' <=> Cardinality(BytesOf(cs)) <= Quota
  BY DEF WithinQuota, PdfBytes, BytesOf
<1> HIDE DEF cs
<1>3. Cardinality(BytesOf(cs)) <= Cardinality(BytesOf(ds))
      /\ Cardinality(BytesOf(cs)) \in Nat /\ Cardinality(BytesOf(ds)) \in Nat
  BY <1>1, BytesGrow, BytesAreFinite
<1>4. QED
  BY <1>2, <1>3, DocumentsAssumption DEF DocumentsAssumption

\* What UploadKeepsWork says of a step.
KeepsWork ==
  \A d \in Docs : (Listed(d) /\ d \notin removed) =>
    folder'[d] # None /\ folder'[d].meta = folder[d].meta /\ (folder[d].rules => folder'[d].rules)

\* A step that changes a document that is not listed, or is being deleted.
LEMMA UnlistedKeepsWork ==
  ASSUME NEW d, ~Listed(d) \/ d \in removed, \A e \in Docs \ {d} : folder'[e] = folder[e]
  PROVE  KeepsWork
BY DEF KeepsWork, Listed

\* Of a deletion that ends, or is laid over, the other deletions notice nothing.
LEMMA GoneLeavesOthers ==
  ASSUME TakenAreRemoved, NEW t \in Threads, NEW d, removed' = Gone(t, d),
         ~Serving(t, "unlink")', \A u \in Threads \ {t} : request'[u] = request[u]
  PROVE  TakenAreRemoved' /\ \A e : e # d => (e \in removed' <=> e \in removed)
<1>1. removed' = removed \/ removed' = removed \ {d}
  BY DEF Gone
<1>2. ASSUME NEW u \in Threads, Serving(u, "unlink")'
      PROVE  request'[u].doc \in removed'
  <2>1. u # t /\ Serving(u, "unlink") /\ request'[u] = request[u]
    BY <1>2 DEF Serving
  <2>2. request[u].doc \in removed
    BY <2>1 DEF TakenAreRemoved
  <2>3. request[u].doc = d => removed' = removed
    BY <2>1 DEF Gone, Taking
  <2>4. QED
    BY <1>1, <2>1, <2>2, <2>3
<1>3. QED
  BY <1>1, <1>2 DEF TakenAreRemoved

LEMMA FoldersCreate ==
  ASSUME Typed, FoldersInv, NEW t \in Threads, Create(t)
  PROVE  FoldersInv' /\ KeepsWork
<1>0. PICK d \in Docs : d = request[t].doc
  BY StageTellsKind DEF Create, Uploads
<1>1. request[t] \in Uploads /\ request[t].stage = "body" /\ request[t].doc = d /\ d \in Docs
  BY <1>0, StageTellsKind DEF Create, Uploads
<1>2. UNCHANGED <<running, overtaken>> /\ Idle /\ ~Laying(t)
  BY <1>1 DEF Create, Laying, Serving
<1>3. CASE Answered(t) /\ UNCHANGED <<folder, removed>>
  <2>1. FoldersAside
    BY <1>2, <1>3, FoldersAsideByOne DEF Answered
  <2>2. QED
    BY <1>3, <2>1, FoldersStayAside DEF KeepsWork, Listed
<1>4. CASE /\ Fits(d) /\ ~Listed(d) /\ Goes(t, "pdf")
           /\ folder' = [folder EXCEPT ![d] = IF @ = None THEN NewFolder ELSE @]
           /\ removed' = Gone(t, d)
  <2>1. /\ request' = [request EXCEPT ![t] = [request[t] EXCEPT !.stage = "pdf"]]
    BY <1>1, <1>4, StageTyped
  <2>2. [request[t] EXCEPT !.stage = "pdf"].stage = "pdf" /\ [request[t] EXCEPT !.stage = "pdf"].doc = d
        /\ [request[t] EXCEPT !.stage = "pdf"] \in Uploads
    BY <1>1 DEF Uploads
  <2>3. Serving(t, "pdf")' /\ ~Serving(t, "meta")' /\ ~Serving(t, "unlink")' /\ request'[t].doc = d
        /\ \A u \in Threads \ {t} : request'[u] = request[u]
    BY <2>1, <2>2, KindsDiffer DEF Serving, Typed
  <2>4. \A u \in Threads : Laying(u)' <=> u = t
    BY <1>2, <2>3 DEF Idle, Laying, Serving
  <2>5. (\A e \in Docs \ {d} : folder'[e] = folder[e])
        /\ folder'[d] = IF folder[d] = None THEN NewFolder ELSE folder[d]
    BY <1>1, <1>4 DEF Typed
  <2>6. NewFolder # None /\ NewFolder.meta = None /\ NewFolder.pdf = None
    BY NewFolderTyped, KindsDiffer DEF NewFolder
  <2>7. Stored' = Stored
    BY <1>1, <2>5, <2>6 DEF Stored
  <2>8. ~Listed(d)' /\ \A e \in Docs \ {d} : Listed(e)' <=> Listed(e)
    BY <1>4, <2>5, <2>6 DEF Listed
  <2>9. Cardinality(BytesOf(Stored \cup {d})) <= Quota
    BY <1>1, <1>4, FittingStays
  <2>10. LaidSound(t)'
    BY <2>3, <2>7, <2>8, <2>9 DEF LaidSound, BytesOf
  <2>11. TakenAreRemoved' /\ \A e : e # d => (e \in removed' <=> e \in removed)
    BY <1>4, <2>3, GoneLeavesOthers DEF FoldersInv
  <2>12. ListedIsWhole' /\ GoneIsOvertaken'
    <3>1. ListedIsWhole'
      BY <1>2, <2>5, <2>8, <2>11 DEF FoldersInv, ListedIsWhole
    <3>2. GoneIsOvertaken'
      BY <1>1, <1>2, <2>5, <2>6 DEF FoldersInv, GoneIsOvertaken, Typed
    <3>3. QED
      BY <3>1, <3>2
  <2>13. WithinQuota'
    <3>1. WithinQuota /\ Stored \in SUBSET Docs
      BY StoredAreDocs DEF FoldersInv
    <3>2. Cardinality(BytesOf(Stored)) <= Quota
      BY <3>1 DEF WithinQuota, PdfBytes
    <3>3. QED
      BY <2>7, <3>1, <3>2, QuotaStays
  <2>14. OneLaid' /\ LaysSound'
    BY <2>4, <2>10 DEF OneLaid, LaysSound
  <2>15. KeepsWork
    BY <1>4, <2>5, UnlistedKeepsWork
  <2>16. QED
    BY <2>12, <2>13, <2>14, <2>15, <2>11 DEF FoldersInv
<1>5. QED
  BY <1>1, <1>3, <1>4 DEF Create, Order, Known

LEMMA FoldersLay ==
  ASSUME Typed, FoldersInv, NEW t \in Threads, NEW file \in {"pdf", "meta"}, NEW content, Lay(t, file, content),
         file = "pdf" => content = "whole", file = "meta" => content \in Nat
  PROVE  FoldersInv' /\ KeepsWork
<1>0. PICK d \in Docs : d = request[t].doc
  BY StageTellsKind DEF Lay, Uploads
<1>1. request[t] \in Uploads /\ request[t].stage = file /\ request[t].doc = d /\ d \in Docs
      /\ Serving(t, file)
  BY <1>0, StageTellsKind DEF Lay, Uploads
<1>2. UNCHANGED <<running, overtaken, removed>> /\ Laying(t)
  BY <1>1 DEF Lay, Laying
<1>3. LaidSound(t) /\ \A u \in Threads \ {t} : ~Laying(u)
  BY <1>2 DEF FoldersInv, LaysSound, OneLaid
<1>4. ~Listed(d)
  BY <1>1, <1>3 DEF LaidSound
<1>5. Answered(t) => \A u \in Threads : ~Laying(u)'
  BY <1>3 DEF Answered, Laying, Serving, Typed
<1>6. TakenAreRemoved'
  <2>1. ~Serving(t, "unlink") /\ request[t] \in Uploads
    BY <1>1 DEF Serving
  <2>2. Answered(t) \/ Goes(t, "meta")
    BY LayMoves
  <2>3. request'[t] = None \/ request'[t] = [request[t] EXCEPT !.stage = "meta"]
    BY <1>1, <2>2, StageTyped DEF Answered, Typed
  <2>4. ~Serving(t, "unlink")'
    BY <2>1, <2>3 DEF Serving, Uploads
  <2>5. \A u \in Threads \ {t} : request'[u] = request[u]
    BY <2>2 DEF Answered, Goes, Typed
  <2>6. QED
    BY <1>2, <2>4, <2>5 DEF FoldersInv, TakenAreRemoved, Serving
<1>7. CASE folder[d] = None /\ Answered(t) /\ UNCHANGED folder
  <2>1. ListedIsWhole' /\ GoneIsOvertaken'
    BY <1>2, <1>7 DEF FoldersInv, ListedIsWhole, GoneIsOvertaken, Listed
  <2>2. OneLaid' /\ LaysSound'
    BY <1>5, <1>7 DEF OneLaid, LaysSound
  <2>3. Stored' = Stored
    BY <1>7 DEF Stored
  <2>4. WithinQuota'
    <3>1. Cardinality(BytesOf(Stored)) <= Quota /\ Stored \in SUBSET Docs
      BY StoredAreDocs DEF FoldersInv, WithinQuota, PdfBytes
    <3>2. QED
      BY <2>3, <3>1, QuotaStays
  <2>5. QED
    BY <1>7, <1>6, <2>1, <2>2, <2>4 DEF FoldersInv, KeepsWork, Listed
<1>8. CASE folder[d] # None /\ folder' = [folder EXCEPT ![d][file] = content]
  <2>1. folder[d] \in Folders /\ folder' = [folder EXCEPT ![d] = [folder[d] EXCEPT ![file] = content]]
    BY <1>1, <1>8 DEF Typed
  <2>2. \A e \in Docs \ {d} : folder'[e] = folder[e]
    BY <1>8 DEF Typed
  <2>3. KeepsWork
    BY <1>4, <2>2, UnlistedKeepsWork
  <2>4. \A e \in Docs \ {d} : Listed(e)' <=> Listed(e)
    BY <2>2 DEF Listed
  <2>5. GoneIsOvertaken'
    <3>1. [folder[d] EXCEPT ![file] = content] \in Folders
      BY <2>1 DEF Folders
    <3>2. folder'[d] # None
      BY <2>1, <3>1, KindsDiffer DEF Typed
    <3>3. QED
      BY <1>2, <2>2, <3>2 DEF FoldersInv, GoneIsOvertaken, Typed
  <2>6. CASE file = "pdf"
    <3>1. folder'[d].pdf = "whole" /\ folder'[d].meta = folder[d].meta
      BY <1>1, <2>1, <2>6 DEF Folders, Typed
    <3>2. ~Listed(d)'
      BY <1>4, <1>8, <3>1 DEF Listed
    <3>3. ListedIsWhole'
      BY <1>2, <2>2, <2>4, <3>2 DEF FoldersInv, ListedIsWhole
    <3>4. Stored' \subseteq Stored \cup {d}
      BY <2>2 DEF Stored
    <3>5. WithinQuota'
      <4>1. Cardinality(BytesOf(Stored \cup {d})) <= Quota
        BY <1>1, <1>3, <2>6 DEF LaidSound
      <4>2. Stored \cup {d} \in SUBSET Docs
        BY <1>1, StoredAreDocs
      <4>3. QED
        BY <3>4, <4>1, <4>2, QuotaStays
    <3>6. Goes(t, "meta")
      BY <1>1, <1>8, <2>6, LayMoves
    <3>7. request'[t].stage = "meta" /\ request'[t].doc = d
          /\ \A u \in Threads \ {t} : request'[u] = request[u]
      <4>1. request' = [request EXCEPT ![t] = [request[t] EXCEPT !.stage = "meta"]]
        BY <1>1, <3>6, StageTyped
      <4>2. [request[t] EXCEPT !.stage = "meta"].stage = "meta" /\ [request[t] EXCEPT !.stage = "meta"].doc = d
        BY <1>1 DEF Uploads
      <4>3. QED
        BY <4>1, <4>2 DEF Typed
    <3>8. LaidSound(t)'
      BY <3>1, <3>2, <3>7 DEF LaidSound, Serving
    <3>9. \A u \in Threads : Laying(u)' => u = t
      BY <1>3, <3>7 DEF Laying, Serving
    <3>10. OneLaid' /\ LaysSound'
      BY <3>8, <3>9 DEF OneLaid, LaysSound
    <3>11. QED
      BY <1>6, <2>3, <2>5, <3>3, <3>5, <3>10 DEF FoldersInv
  <2>7. CASE file = "meta"
    <3>1. folder'[d].pdf = folder[d].pdf /\ folder[d] # None
      BY <1>1, <1>8, <2>1, <2>7 DEF Folders, Typed
    <3>2. ListedIsWhole'
      <4>1. SUFFICES ASSUME NEW e \in Docs, Listed(e)', e \notin overtaken \cup removed PROVE folder'[e].pdf = "whole"
        BY <1>2 DEF ListedIsWhole
      <4>2. CASE e = d
        BY <1>1, <1>3, <2>7, <3>1, <4>1, <4>2 DEF LaidSound
      <4>3. CASE e # d
        BY <2>2, <2>4, <4>1, <4>3 DEF FoldersInv, ListedIsWhole
      <4>4. QED
        BY <4>2, <4>3
    <3>3. Stored' \subseteq Stored
      BY <2>2, <3>1 DEF Stored
    <3>4. WithinQuota'
      <4>1. Cardinality(BytesOf(Stored)) <= Quota /\ Stored \in SUBSET Docs
        BY StoredAreDocs DEF FoldersInv, WithinQuota, PdfBytes
      <4>2. QED
        BY <3>3, <4>1, QuotaStays
    <3>5. Answered(t)
      BY <1>1, <1>8, <2>7, LayMoves
    <3>6. OneLaid' /\ LaysSound'
      BY <1>5, <3>5 DEF OneLaid, LaysSound
    <3>7. QED
      BY <1>6, <2>3, <2>5, <3>2, <3>4, <3>6 DEF FoldersInv
  <2>8. QED
    BY <2>6, <2>7
<1>9. QED
  <2>1. (folder[d] = None /\ Answered(t) /\ UNCHANGED folder)
        \/ (folder[d] # None /\ folder' = [folder EXCEPT ![d][file] = content])
    <3>1. (folder[request[t].doc] = None /\ Answered(t) /\ UNCHANGED folder)
          \/ (folder[request[t].doc] # None /\ folder' = [folder EXCEPT ![request[t].doc][file] = content])
      BY DEF Lay
    <3>2. QED
      BY <1>0, <3>1, Zenon
  <2>2. QED
    BY <1>7, <1>8, <2>1

\* What a step of a deletion of d leaves is sound, if it only takes from d, and
\* takes only while d counts as removed.
LEMMA TakingIsSound ==
  ASSUME Typed, FoldersInv, NEW t \in Threads, NEW d \in Docs,
         ~Laying(t), ~Laying(t)', \A u \in Threads \ {t} : request'[u] = request[u],
         \A e \in Docs \ {d} : folder'[e] = folder[e],
         \A e : e # d => /\ e \in removed' <=> e \in removed
                         /\ e \in overtaken' <=> e \in overtaken,
         Listed(d)' => Listed(d), Stored' \subseteq Stored,
         (folder'[d] # None /\ d \notin overtaken' \cup removed') =>
            (d \notin overtaken \cup removed /\ folder'[d] = folder[d]),
         GoneIsOvertaken', TakenAreRemoved'
  PROVE  FoldersInv'
<1>1. \A e \in Docs \ {d} : Listed(e)' <=> Listed(e)
  BY DEF Listed
<1>2. ListedIsWhole'
  <2>1. SUFFICES ASSUME NEW e \in Docs, Listed(e)', e \notin overtaken' \cup removed'
                 PROVE  folder'[e].pdf = "whole"
    BY DEF ListedIsWhole
  <2>2. CASE e = d
    BY <2>1, <2>2 DEF FoldersInv, ListedIsWhole, Listed
  <2>3. CASE e # d
    BY <1>1, <2>1, <2>3 DEF FoldersInv, ListedIsWhole
  <2>4. QED
    BY <2>2, <2>3
<1>3. Stored \in SUBSET Docs /\ Cardinality(BytesOf(Stored)) <= Quota
  BY StoredAreDocs DEF FoldersInv, WithinQuota, PdfBytes
<1>4. WithinQuota'
  BY <1>3, QuotaStays
<1>5. ASSUME NEW u \in Threads, Laying(u)' PROVE Laying(u) /\ LaidSound(u)'
  <2>1. u # t /\ request'[u] = request[u] /\ Laying(u)
    BY <1>5 DEF Laying, Serving
  <2>2. LaidSound(u)
    BY <2>1 DEF FoldersInv, LaysSound
  <2>3. PICK e \in Docs : e = request[u].doc
    BY <2>1, StageTellsKind DEF Laying, Uploads
  <2>4. Listed(e)' => Listed(e)
    BY <1>1
  <2>5. (folder'[e] # None /\ e \notin overtaken' \cup removed') =>
          (folder[e] # None /\ e \notin overtaken \cup removed /\ folder'[e].pdf = folder[e].pdf)
    <3>1. CASE e = d
      BY <3>1
    <3>2. CASE e # d
      BY <3>2
    <3>3. QED
      BY <3>1, <3>2
  <2>6. QED
    BY <1>3, <2>1, <2>2, <2>3, <2>4, <2>5, LaidStaysSound
<1>6. OneLaid' /\ LaysSound'
  BY <1>5 DEF FoldersInv, OneLaid, LaysSound
<1>7. QED
  BY <1>2, <1>4, <1>6 DEF FoldersInv

LEMMA FoldersScan ==
  ASSUME Typed, FoldersInv, NEW t \in Threads, Scan(t)
  PROVE  FoldersInv' /\ KeepsWork
<1>0. PICK d \in Docs : d = request[t].doc
  BY StageTellsKind DEF Scan, Deletions
<1>1. /\ request[t] \in Deletions /\ ~Laying(t)
      /\ UNCHANGED <<folder, overtaken, running>>
  BY StageTellsKind DEF Scan, Laying, Serving
<1>2. KeepsWork /\ Stored' = Stored /\ (Listed(d)' <=> Listed(d))
  BY <1>1 DEF KeepsWork, Stored, Listed
<1>3. GoneIsOvertaken'
  BY <1>1 DEF FoldersInv, GoneIsOvertaken
<1>4. CASE Answered(t) /\ UNCHANGED removed
  <2>1. request' = [request EXCEPT ![t] = None]
    BY <1>4 DEF Answered
  <2>2. FoldersAside
    BY <1>1, <1>4, <2>1, FoldersAsideByOne
  <2>3. QED
    BY <1>2, <2>2, FoldersStayAside
<1>5. CASE /\ request' = [request EXCEPT ![t].stage = "unlink", ![t].left = Present(d)]
           /\ removed' = removed \cup {d}
  <2>1. request'[t] = [request[t] EXCEPT !.stage = "unlink", !.left = Present(d)]
        /\ \A u \in Threads \ {t} : request'[u] = request[u]
    BY <1>5 DEF Typed
  <2>2. request'[t].stage = "unlink" /\ request'[t].doc = d
    BY <1>0, <1>1, <2>1 DEF Deletions
  <2>3. ~Laying(t)'
    BY <2>2 DEF Laying, Serving
  <2>4. TakenAreRemoved'
    <3>1. ASSUME NEW u \in Threads \ {t}, request'[u] # None, request'[u].stage = "unlink"
          PROVE  request'[u].doc \in removed'
      <4>1. request'[u] = request[u]
        BY <2>1
      <4>2. Serving(u, "unlink")
        BY <3>1, <4>1 DEF Serving
      <4>3. request[u].doc \in removed
        BY <4>2 DEF FoldersInv, TakenAreRemoved
      <4>4. QED
        BY <1>5, <4>1, <4>3
    <3>2. request'[t].doc \in removed'
      BY <1>5, <2>2
    <3>3. QED
      BY <3>1, <3>2 DEF TakenAreRemoved, Serving
  <2>5. QED
    BY <1>1, <1>2, <1>3, <1>5, <2>1, <2>3, <2>4, TakingIsSound
<1>6. QED
  BY <1>0, <1>4, <1>5 DEF Scan

LEMMA FoldersUnlink ==
  ASSUME Typed, FoldersInv, NEW t \in Threads, NEW file \in Files, Unlink(t, file)
  PROVE  FoldersInv' /\ KeepsWork
<1>0. PICK d \in Docs : d = request[t].doc
  BY StageTellsKind DEF Unlink, Deletions
<1> DEFINE less == [folder[d] EXCEPT ![file] = IF file = "rules" THEN FALSE ELSE None]
<1>1. /\ request[t] \in Deletions /\ request[t].stage = "unlink" /\ ~Laying(t)
      /\ folder[d] \in Folders
      /\ folder' = [folder EXCEPT ![d] = less]
      /\ request' = [request EXCEPT ![t] = [request[t] EXCEPT !.left = request[t].left \ {file}]]
      /\ UNCHANGED <<overtaken, removed, running>>
  BY <1>0, StageTellsKind DEF Unlink, Laying, Serving, Typed
<1>2. less \in Folders /\ less.meta \in {None, folder[d].meta} /\ less.pdf \in {None, folder[d].pdf}
  BY <1>1, LessIsAFolder
<1> HIDE DEF less
<1>3. folder'[d] = less /\ \A e \in Docs \ {d} : folder'[e] = folder[e]
  BY <1>1 DEF Typed
<1>4. less # None /\ folder[d] # None
  BY <1>1, <1>2, KindsDiffer
<1>5. request'[t].stage = "unlink" /\ request'[t].doc = d
      /\ \A u \in Threads \ {t} : request'[u] = request[u]
  BY <1>0, <1>1 DEF Deletions, Typed
<1>6. d \in removed
  BY <1>0, <1>1, KindsDiffer DEF FoldersInv, TakenAreRemoved, Serving
<1>7. ~Laying(t)'
  BY <1>5 DEF Laying, Serving
<1>8. Listed(d)' => Listed(d)
  BY <1>2, <1>3, <1>4 DEF Listed
<1>9. Stored' \subseteq Stored
  BY <1>2, <1>3, <1>4 DEF Stored
<1>10. GoneIsOvertaken'
  BY <1>1, <1>3, <1>4 DEF FoldersInv, GoneIsOvertaken, Typed
<1>11. TakenAreRemoved'
  BY <1>1, <1>5, <1>6 DEF FoldersInv, TakenAreRemoved, Serving
<1>12. KeepsWork
  BY <1>3, <1>6, UnlistedKeepsWork
<1>13. FoldersInv'
  BY <1>1, <1>3, <1>5, <1>6, <1>7, <1>8, <1>9, <1>10, <1>11, TakingIsSound
<1>14. QED
  BY <1>12, <1>13

LEMMA FoldersRemove ==
  ASSUME Typed, FoldersInv, NEW t \in Threads, Remove(t)
  PROVE  FoldersInv' /\ KeepsWork
<1>0. PICK d \in Docs : d = request[t].doc
  BY StageTellsKind DEF Remove, Deletions
<1>1. /\ folder' = [folder EXCEPT ![d] = None] /\ overtaken' = overtaken \cup ({d} \cap running)
      /\ removed' = Gone(t, d) /\ UNCHANGED running
      /\ request' = [request EXCEPT ![t] = None]
      /\ Serving(t, "unlink") /\ ~Laying(t)
  BY <1>0 DEF Remove, Answered, Laying, Serving
<1>2. folder'[d] = None /\ \A e \in Docs \ {d} : folder'[e] = folder[e]
  BY <1>1 DEF Typed
<1>3. request'[t] = None /\ \A u \in Threads \ {t} : request'[u] = request[u]
  BY <1>1 DEF Typed
<1>4. ~Laying(t)' /\ ~Serving(t, "unlink")'
  BY <1>3 DEF Laying, Serving
<1>5. TakenAreRemoved' /\ \A e : e # d => (e \in removed' <=> e \in removed)
  BY <1>1, <1>3, <1>4, GoneLeavesOthers DEF FoldersInv
<1>6. ~Listed(d)'
  BY <1>2 DEF Listed
<1>7. GoneIsOvertaken'
  BY <1>1, <1>2 DEF FoldersInv, GoneIsOvertaken, Typed
<1>8. Stored' \subseteq Stored
  BY <1>2 DEF Stored
<1>9. d \in removed
  BY <1>0, <1>1 DEF FoldersInv, TakenAreRemoved
<1>10. KeepsWork
  BY <1>2, <1>9, UnlistedKeepsWork
<1>11. \A e : e # d => (e \in overtaken' <=> e \in overtaken)
  BY <1>1
<1>12. FoldersInv'
  BY <1>1, <1>2, <1>3, <1>4, <1>5, <1>6, <1>7, <1>8, <1>11, TakingIsSound
<1>13. QED
  BY <1>10, <1>12

LEMMA FoldersRemoving ==
  ASSUME Typed, FoldersInv, NEW t \in Threads, Removing(t)
  PROVE  FoldersInv' /\ KeepsWork
<1>1. CASE RemoveFails(t)
  <2>1. /\ request' = [request EXCEPT ![t] = None] /\ ~Laying(t)
        /\ UNCHANGED <<folder, overtaken, removed, running>>
    BY <1>1 DEF RemoveFails, Answered, Laying, Serving
  <2>2. FoldersAside
    BY <2>1, FoldersAsideByOne
  <2>3. QED
    BY <2>1, <2>2, FoldersStayAside DEF KeepsWork, Listed
<1>2. QED
  BY <1>1, FoldersScan, FoldersUnlink, FoldersRemove DEF Removing

LEMMA FoldersCompiled ==
  ASSUME Typed, FoldersInv, NEW d \in Docs, Compiled(d)
  PROVE  FoldersInv' /\ KeepsWork
<1> DEFINE was == IF folder[d] = None THEN NewFolder ELSE folder[d]
<1>1. d \in running /\ running' = running \ {d} /\ UNCHANGED <<request, overtaken, removed>>
      /\ folder' = [folder EXCEPT ![d] = [was EXCEPT !.rules = TRUE]]
  BY DEF Compiled, Typed
<1>2. was \in Folders /\ (folder[d] = None => was.meta = None /\ was.pdf = None)
      /\ (folder[d] # None => was = folder[d])
  BY NewFolderTyped DEF Typed, NewFolder
<1> HIDE DEF was
<1>3. folder'[d] \in Folders /\ folder'[d].meta = was.meta /\ folder'[d].pdf = was.pdf /\ folder'[d].rules
  BY <1>1, <1>2 DEF Folders, Typed
<1>4. \A e \in Docs \ {d} : folder'[e] = folder[e]
  BY <1>1 DEF Typed
<1>5. folder'[d] # None
  BY <1>3, KindsDiffer
<1>6. \A e \in Docs : Listed(e)' => Listed(e)
  BY <1>2, <1>3, <1>4, <1>5 DEF Listed
<1>7. ListedIsWhole'
  <2>1. SUFFICES ASSUME NEW e \in Docs, Listed(e)', e \notin overtaken \cup removed PROVE folder'[e].pdf = "whole"
    BY <1>1 DEF ListedIsWhole
  <2>2. Listed(e) /\ folder[e].pdf = "whole" /\ folder[e] # None
    BY <1>6, <2>1 DEF FoldersInv, ListedIsWhole, Listed
  <2>3. QED
    BY <1>2, <1>3, <1>4, <2>2
<1>8. GoneIsOvertaken'
  BY <1>1, <1>4, <1>5 DEF FoldersInv, GoneIsOvertaken, Typed
<1>9. Stored' \subseteq Stored /\ Stored \in SUBSET Docs
  BY <1>2, <1>3, <1>4, StoredAreDocs DEF Stored
<1>10. WithinQuota'
  <2>1. Cardinality(BytesOf(Stored)) <= Quota
    BY DEF FoldersInv, WithinQuota, PdfBytes
  <2>2. QED
    BY <1>9, <2>1, QuotaStays
<1>11. ASSUME NEW u \in Threads, Laying(u)' PROVE Laying(u) /\ LaidSound(u)'
  <2>1. request'[u] = request[u] /\ Laying(u)
    BY <1>1, <1>11 DEF Laying, Serving
  <2>2. LaidSound(u)
    BY <2>1 DEF FoldersInv, LaysSound
  <2>3. PICK e \in Docs : e = request[u].doc
    BY <2>1, StageTellsKind DEF Laying, Uploads
  <2>4. Listed(e)' => Listed(e)
    BY <1>6
  <2>5. (folder'[e] # None /\ e \notin overtaken' \cup removed') =>
          (folder[e] # None /\ e \notin overtaken \cup removed /\ folder'[e].pdf = folder[e].pdf)
    BY <1>1, <1>2, <1>3, <1>4 DEF FoldersInv, GoneIsOvertaken
  <2>6. QED
    BY <1>9, <2>1, <2>2, <2>3, <2>4, <2>5, LaidStaysSound
<1>12. OneLaid' /\ LaysSound'
  BY <1>11 DEF FoldersInv, OneLaid, LaysSound
<1>13. KeepsWork
  <2>1. SUFFICES ASSUME NEW e \in Docs, Listed(e)
                 PROVE  /\ folder'[e] # None /\ folder'[e].meta = folder[e].meta
                        /\ folder[e].rules => folder'[e].rules
    BY DEF KeepsWork
  <2>2. QED
    BY <1>2, <1>3, <1>4, <1>5, <2>1 DEF Listed
<1>14. TakenAreRemoved'
  BY <1>1 DEF FoldersInv, TakenAreRemoved, Serving
<1>15. QED
  BY <1>7, <1>8, <1>10, <1>12, <1>13, <1>14 DEF FoldersInv

LEMMA FoldersCrash ==
  ASSUME Typed, FoldersInv, Crash
  PROVE  FoldersInv' /\ KeepsWork
<1>1. (\A u \in Threads : ~Laying(u)') /\ running' = {} /\ UNCHANGED <<overtaken, removed>>
      /\ (\A u \in Threads : ~Serving(u, "unlink")')
  BY DEF Crash, Laying, Serving
<1>2. OneLaid' /\ LaysSound' /\ GoneIsOvertaken' /\ TakenAreRemoved'
  BY <1>1 DEF OneLaid, LaysSound, GoneIsOvertaken, TakenAreRemoved
<1>3. CASE folder' = folder
  <2>1. Stored' \subseteq Stored /\ Stored \in SUBSET Docs /\ Cardinality(BytesOf(Stored)) <= Quota
    BY <1>3, StoredAreDocs DEF Stored, FoldersInv, WithinQuota, PdfBytes
  <2>2. WithinQuota'
    BY <2>1, QuotaStays
  <2>3. ListedIsWhole' /\ KeepsWork
    BY <1>1, <1>3 DEF FoldersInv, ListedIsWhole, Listed, KeepsWork
  <2>4. QED
    BY <1>2, <2>2, <2>3 DEF FoldersInv
<1>4. ASSUME NEW t \in Threads, NEW file \in {"pdf", "meta"}, folder' \in CutShort(t, file)
      PROVE  FoldersInv' /\ KeepsWork
  <2>1. PICK d \in Docs : d = request[t].doc
    BY <1>4, StageTellsKind DEF CutShort, Uploads
  <2>2. Serving(t, file) /\ folder[d] # None /\ folder' = [folder EXCEPT ![d][file] = Torn] /\ Laying(t)
    BY <1>4, <2>1 DEF CutShort, Laying
  <2>3. folder[d] \in Folders /\ (\A e \in Docs \ {d} : folder'[e] = folder[e])
        /\ folder'[d] = [folder[d] EXCEPT ![file] = Torn]
    BY <2>2 DEF Typed
  <2>4. LaidSound(t)
    BY <2>2 DEF FoldersInv, LaysSound
  <2>5. ~Listed(d)
    BY <2>1, <2>4 DEF LaidSound
  <2>6. file = "pdf" => folder'[d].meta = folder[d].meta
    BY <2>3 DEF Folders
  <2>7. file = "meta" => folder'[d].meta = Torn /\ folder'[d].pdf = folder[d].pdf
    BY <2>3 DEF Folders
  <2>8. ~Listed(d)' /\ \A e \in Docs \ {d} : Listed(e)' <=> Listed(e)
    BY <2>2, <2>3, <2>5, <2>6, <2>7 DEF Listed
  <2>9. ListedIsWhole' /\ KeepsWork
    <3>1. ListedIsWhole'
      BY <1>1, <2>3, <2>8 DEF FoldersInv, ListedIsWhole
    <3>2. KeepsWork
      BY <2>3, <2>5, UnlistedKeepsWork
    <3>3. QED
      BY <3>1, <3>2
  <2>10. WithinQuota'
    <3>1. CASE file = "pdf"
      <4>1. Stored' \subseteq Stored \cup {d} /\ Stored \cup {d} \in SUBSET Docs
        BY <2>3, StoredAreDocs DEF Stored
      <4>2. Cardinality(BytesOf(Stored \cup {d})) <= Quota
        BY <2>1, <2>2, <2>4, <3>1 DEF LaidSound
      <4>3. QED
        BY <4>1, <4>2, QuotaStays
    <3>2. CASE file = "meta"
      <4>1. Stored' \subseteq Stored /\ Stored \in SUBSET Docs
        BY <2>2, <2>3, <2>7, <3>2, StoredAreDocs DEF Stored
      <4>2. Cardinality(BytesOf(Stored)) <= Quota
        BY DEF FoldersInv, WithinQuota, PdfBytes
      <4>3. QED
        BY <4>1, <4>2, QuotaStays
    <3>3. QED
      BY <3>1, <3>2
  <2>11. QED
    BY <1>2, <2>9, <2>10 DEF FoldersInv
<1>5. QED
  BY <1>3, <1>4 DEF Crash

LEMMA FoldersStep == Typed /\ FoldersInv /\ [Next]_vars => FoldersInv' /\ KeepsWork
<1>1. SUFFICES ASSUME Typed, FoldersInv, [Next]_vars PROVE FoldersInv' /\ KeepsWork
  OBVIOUS
<1>2. FoldersAside => FoldersInv' /\ KeepsWork
  BY <1>1, FoldersStayAside DEF FoldersAside, KeepsWork, Listed
<1>3. CASE UNCHANGED vars
  BY <1>2, <1>3 DEF vars, FoldersAside
<1>4. CASE Tick /\ UNCHANGED <<users, userFile, cookie, folder, running, request, told, crossed, overtaken, removed, made>>
  BY <1>2, <1>4 DEF FoldersAside
<1>5. ASSUME NEW t \in Threads, NEW c \in Callers,
             SignUp(t, c) \/ \E d \in Docs : Upload(t, c, d) \/ Delete(t, c, d)
      PROVE  FoldersInv' /\ KeepsWork
  <2>1. CASE SignUp(t, c)
    BY <1>1, <1>2, <2>1, AccountsLeaveFolders
  <2>2. ASSUME NEW d \in Docs, Upload(t, c, d) \/ Delete(t, c, d) PROVE FoldersInv' /\ KeepsWork
    BY <1>1, <1>2, <2>2, UploadLeavesFolders
  <2>3. QED
    BY <1>5, <2>1, <2>2
<1>6. ASSUME NEW t \in Threads, Insert(t) \/ Dump(t) \/ Open(t) \/ SignedUp(t)
      PROVE  FoldersInv' /\ KeepsWork
  BY <1>1, <1>2, <1>6, AccountsLeaveFolders
<1>7. ASSUME NEW t \in Threads, LayPdf(t) \/ LayMeta(t)
      PROVE  FoldersInv' /\ KeepsWork
  <2>1. CASE LayPdf(t)
    BY <1>1, <2>1, FoldersLay DEF LayPdf
  <2>2. CASE LayMeta(t)
    <3>1. request[t].owner \in Nat
      BY <1>1, <2>2, StageTellsKind DEF LayMeta, Lay, Uploads
    <3>2. QED
      BY <1>1, <2>2, <3>1, FoldersLay DEF LayMeta
  <2>3. QED
    BY <1>7, <2>1, <2>2
<1>8. ASSUME NEW t \in Threads, Create(t) \/ Removing(t)
      PROVE  FoldersInv' /\ KeepsWork
  BY <1>1, <1>8, FoldersCreate, FoldersRemoving
<1>9. ASSUME NEW c \in Callers, SignIn(c)
      PROVE  FoldersInv' /\ KeepsWork
  BY <1>2, <1>9 DEF SignIn, FoldersAside
<1>10. ASSUME NEW d \in Docs, Stopped(d) \/ \E c \in Callers : Compile(c, d)
      PROVE  FoldersInv' /\ KeepsWork
  BY <1>2, <1>10, CompileLeavesFolders
<1>11. ASSUME NEW d \in Docs, Compiled(d)
       PROVE  FoldersInv' /\ KeepsWork
  BY <1>1, <1>11, FoldersCompiled
<1>12. CASE Crash
  BY <1>1, <1>12, FoldersCrash
<1>13. QED
  BY <1>1, <1>3, <1>4, <1>5, <1>6, <1>7, <1>8, <1>9, <1>10, <1>11, <1>12 DEF Next, Removing

\* Wherever create or a deletion is cut short and whatever is compiled meanwhile, what
\* is listed, and is neither being deleted nor left so, has its whole document, and all
\* that was laid down fits the quota (workspace.py, create and delete).
THEOREM FoldersAlwaysSound == Spec => []FoldersAreSound
<1>1. FoldersInv => FoldersAreSound
  BY DEF FoldersInv, FoldersAreSound
<1>2. QED
  BY <1>1, FoldersInit, FoldersStep, AlwaysTyped, PTL DEF Spec

\* Whoever uploads the same bytes, a document in the list keeps its owner and its
\* rulebook until its deletion begins (workspace.py, create).
THEOREM UploadAlwaysKeepsWork == Spec => UploadKeepsWork
<1>1. Typed /\ FoldersInv /\ [Next]_vars =>
        [\A d \in Docs : (Listed(d) /\ d \notin removed) =>
          /\ folder'[d] # None
          /\ folder'[d].meta = folder[d].meta
          /\ folder[d].rules => folder'[d].rules]_vars
  BY FoldersStep DEF KeepsWork
<1>2. Spec => []FoldersInv
  BY FoldersInit, FoldersStep, AlwaysTyped, PTL DEF Spec
<1>3. QED
  BY <1>1, <1>2, AlwaysTyped, PTL DEF Spec, UploadKeepsWork
=============================================================================
