------------------------ MODULE RulebookStoreProofs ------------------------
(* Proofs about RulebookStore, for any officers, jobs, clerks, Workbenches, *)
(* rules and number of crashes.                                            *)
EXTENDS RulebookStore, FiniteSetTheorems, SequenceTheorems, TLAPS

\* The legal histories: what a registry, in a file or in memory, may hold.
LegalLogs == {log \in Seq(Act) : LegalHistory(log)}

LogsInv ==
  /\ disk \in LegalLogs
  /\ bench \in [Benches -> LegalLogs]
  /\ own \in [Writers -> LegalLogs]
  /\ payload \in [Writers -> LegalLogs]

\* An officer who looks at a Workbench has one.
PlacesInv ==
  /\ pc \in [Writers -> Places]
  /\ held \in [Writers -> Benches \cup {None}]
  /\ cached \in Benches \cup {None}
  /\ left \in [Jobs -> SUBSET Rules]
  /\ acts \in Nat
  /\ \A o \in Officers : pc[o] \in {"open", "acted"} => held[o] \in Benches

StoreInv == LogsInv /\ PlacesInv /\ OneWriter

-----------------------------------------------------------------------------
(* Histories.                                                              *)

LEMMA NoHistoryIsLegal == <<>> \in LegalLogs
BY DEF LegalLogs, LegalHistory

\* The status of a rule depends on the entries before, and an append keeps those.
LEMMA PrefixOfAppend ==
  ASSUME NEW log \in Seq(Act), NEW act \in Act, NEW i \in 1..Len(log) + 1
  PROVE  SubSeq(Append(log, act), 1, i - 1) = SubSeq(log, 1, i - 1)
<1>1. /\ Append(log, act) \in Seq(Act)
      /\ \A k \in 1..i - 1 : log[k] \in Act /\ Append(log, act)[k] = log[k]
  OBVIOUS
<1>2. i - 1 \in Int /\ 1 \in Int
  OBVIOUS
<1>3. /\ SubSeq(log, 1, i - 1) \in Seq(Act)
      /\ Len(SubSeq(log, 1, i - 1)) = i - 1
      /\ \A k \in 1..i - 1 : SubSeq(log, 1, i - 1)[k] = log[k]
  BY <1>1, <1>2
<1>4. /\ SubSeq(Append(log, act), 1, i - 1) \in Seq(Act)
      /\ Len(SubSeq(Append(log, act), 1, i - 1)) = i - 1
      /\ \A k \in 1..i - 1 : SubSeq(Append(log, act), 1, i - 1)[k] = Append(log, act)[k]
  BY <1>1, <1>2
<1> QED BY <1>1, <1>3, <1>4, SeqEqual

\* A legal act makes a legal history of a legal history.
LEMMA ActIsLegal ==
  ASSUME NEW log \in LegalLogs, NEW act \in Act, Legal(Status(log, act.rule), act.move)
  PROVE  Append(log, act) \in LegalLogs
<1>1. log \in Seq(Act) /\ LegalHistory(log)
  BY DEF LegalLogs
<1>2. ASSUME NEW i \in DOMAIN Append(log, act)
      PROVE  Legal(Status(SubSeq(Append(log, act), 1, i - 1), Append(log, act)[i].rule),
                   Append(log, act)[i].move)
  <2>1. i \in 1..Len(log) + 1
    BY <1>1
  <2>2. SubSeq(Append(log, act), 1, i - 1) = SubSeq(log, 1, i - 1)
    BY <1>1, <2>1, PrefixOfAppend
  <2>3. CASE i = Len(log) + 1
    <3>1. SubSeq(log, 1, i - 1) = log
      BY <1>1, <2>3, SubSeqFull
    <3>2. Append(log, act)[i] = act
      BY <1>1, <2>3
    <3> QED BY <2>2, <3>1, <3>2
  <2>4. CASE i \in 1..Len(log)
    <3>1. Append(log, act)[i] = log[i] /\ i \in DOMAIN log
      BY <1>1, <2>4
    <3> QED BY <1>1, <2>2, <3>1 DEF LegalHistory
  <2> QED BY <1>1, <2>1, <2>3, <2>4
<1>3. Append(log, act) \in Seq(Act)
  BY <1>1
<1>4. LegalHistory(Append(log, act))
  BY <1>2, Zenon DEF LegalHistory
<1> QED BY <1>3, <1>4, Zenon DEF LegalLogs

\* Nobody has touched a rule that no entry is about.
LEMMA UntouchedStatus ==
  ASSUME NEW log, NEW r, \A i \in DOMAIN log : log[i].rule # r
  PROVE  Status(log, r) = "NONE"
BY DEF Status

\* The rulebook of a compile: no rule is proposed twice.
LEMMA CompiledIsLegal == Compiled \in LegalLogs
<1> DEFINE n == Cardinality(Rules)
           s == SetToSeq(Rules)
<1>1. n \in Nat /\ ExistsBijection(1..n, Rules)
  BY FS_CardinalityType, StoreAssumption
<1>2. \E f \in [1..n -> Rules] : IsInjective(f)
  BY <1>1 DEF ExistsBijection, Bijection, Injection, IsInjective
<1>3. s \in [1..n -> Rules] /\ IsInjective(s)
  BY <1>2 DEF SetToSeq
<1>4. /\ Compiled \in Seq(Act) /\ Len(Compiled) = n
      /\ \A i \in 1..n : Compiled[i].rule = s[i] /\ Compiled[i].move = "PROPOSED"
  <2>1. \A i \in 1..n :
          [rule |-> s[i], move |-> "PROPOSED", by |-> None, nr |-> 0] \in Act
    BY <1>3 DEF Act, Moves
  <2>2. Compiled = [i \in 1..n |->
          [rule |-> s[i], move |-> "PROPOSED", by |-> None, nr |-> 0]]
    BY DEF Compiled
  <2> HIDE DEF n, s
  <2>3. Compiled \in [1..n -> Act]
    BY <2>1, <2>2
  <2>4. Compiled \in Seq(Act) /\ DOMAIN Compiled = 1..n
    BY <1>1, <2>3
  <2>5. Len(Compiled) = n
    BY <1>1, <2>4
  <2> QED BY <2>2, <2>4, <2>5
<1> HIDE DEF n, s
<1>5. ASSUME NEW i \in 1..n
      PROVE  Legal(Status(SubSeq(Compiled, 1, i - 1), Compiled[i].rule), Compiled[i].move)
  <2> DEFINE before == SubSeq(Compiled, 1, i - 1)
  <2>1. DOMAIN before = 1..i - 1 /\ \A k \in 1..i - 1 : before[k] = Compiled[k]
    <3>1. \A k \in 1..i - 1 : Compiled[k] \in Act
      BY <1>1, <1>4
    <3>2. i - 1 \in Int /\ 1 \in Int
      BY <1>1
    <3>3. before \in Seq(Act) /\ Len(before) = i - 1
          /\ \A k \in 1..i - 1 : before[k] = Compiled[k]
      BY <1>1, <3>1, <3>2, <1>4
    <3> QED BY <3>3, <1>1
  <2>2. \A k \in 1..i - 1 : k \in 1..n /\ k # i
    BY <1>1
  <2>3. \A k \in 1..i - 1 : s[k] # s[i]
    BY <1>3, <2>2 DEF IsInjective
  <2>4. \A k \in DOMAIN before : before[k].rule # Compiled[i].rule
    BY <1>4, <2>1, <2>2, <2>3
  <2>5. Status(before, Compiled[i].rule) = "NONE"
    BY <2>4, UntouchedStatus
  <2> QED BY <1>4, <2>5 DEF Legal
<1> QED BY <1>1, <1>4, <1>5 DEF LegalLogs, LegalHistory

-----------------------------------------------------------------------------
(* The steps.                                                              *)

LEMMA StoreInitInv == Init => StoreInv
<1> SUFFICES ASSUME Init PROVE StoreInv
  OBVIOUS
<1> USE StoreAssumption DEF Init
<1>1. LogsInv
  BY NoHistoryIsLegal, CompiledIsLegal DEF LogsInv
<1>2. PlacesInv
  BY DEF PlacesInv, Places, Writers
<1>3. OneWriter
  BY DEF OneWriter
<1> QED BY <1>1, <1>2, <1>3 DEF StoreInv

\* A step of a writer between places outside the lock leaves one writer.
LEMMA OutsideLock ==
  ASSUME PlacesInv, OneWriter, NEW w \in Writers, NEW from, NEW to, Goes(w, from, to),
         from \notin {"write", "unlock"}, to \notin {"write", "unlock"}, lock' = lock
  PROVE  OneWriter'
BY DEF PlacesInv, OneWriter, Goes

LEMMA OfficerStep ==
  ASSUME StoreInv, NEW o \in Officers,
         \/ Open(o) \/ Load(o) \/ CloseBench(o) \/ Collect(o)
         \/ \E r \in Rules, move \in Moves \ {"PROPOSED"} : Decide(o, r, move)
         \/ \E j \in Jobs : Start(o, j)
  PROVE  StoreInv'
<1> USE DEF StoreInv
<1>0. o \in Writers /\ None \notin Benches
  BY StoreAssumption DEF Writers
<1>1. CASE Open(o)
  <2>1. LogsInv'
    BY <1>1 DEF Open, LogsInv, fileVars, webVars
  <2>2. PlacesInv'
    <3>1. UNCHANGED <<cached, left, acts>>
      BY <1>1 DEF Open, webVars, jobVars, counters
    <3>2. CASE cached # None
      <4>1. Goes(o, "idle", "open") /\ held' = [held EXCEPT ![o] = cached]
        BY <1>1, <3>2 DEF Open
      <4> QED BY <1>0, <3>1, <3>2, <4>1 DEF Goes, PlacesInv, Places
    <3>3. CASE cached = None
      <4>1. Goes(o, "idle", "loading") /\ held' = held
        BY <1>1, <3>3 DEF Open
      <4> QED BY <1>0, <3>1, <4>1 DEF Goes, PlacesInv, Places
    <3> QED BY <3>2, <3>3
  <2>3. OneWriter'
    BY <1>0, <1>1, OutsideLock DEF Open, fileVars, webVars
  <2> QED BY <2>1, <2>2, <2>3
<1>2. CASE Load(o)
  <2>1. PICK b \in Benches : /\ Goes(o, "loading", "open")
                             /\ bench' = [bench EXCEPT ![b] = disk]
                             /\ cached' = b
                             /\ held' = [held EXCEPT ![o] = b]
                             /\ UNCHANGED <<fileVars, own, payload, acted, jobVars, counters>>
    BY <1>2 DEF Load
  <2>2. LogsInv'
    BY <2>1 DEF LogsInv, fileVars
  <2>3. PlacesInv'
    BY <1>0, <2>1 DEF Goes, PlacesInv, Places, fileVars, jobVars, counters
  <2>4. OneWriter'
    BY <1>0, <2>1, OutsideLock DEF fileVars
  <2> QED BY <2>2, <2>3, <2>4
<1>3. CASE CloseBench(o)
  <2>1. LogsInv'
    BY <1>3 DEF CloseBench, LogsInv, fileVars, webVars
  <2>2. PlacesInv'
    BY <1>0, <1>3 DEF CloseBench, Goes, PlacesInv, Places, fileVars, webVars, jobVars, counters
  <2>3. OneWriter'
    BY <1>0, <1>3, OutsideLock DEF CloseBench, fileVars
  <2> QED BY <2>1, <2>2, <2>3
<1>4. CASE Collect(o)
  <2>1. bench[held[o]] \in LegalLogs
    BY <1>0, <1>4 DEF Collect, Goes, PlacesInv, LogsInv
  <2>2. LogsInv'
    BY <1>4, <2>1 DEF Collect, LogsInv, fileVars, webVars
  <2>3. PlacesInv'
    BY <1>0, <1>4 DEF Collect, Goes, PlacesInv, Places, fileVars, webVars, jobVars, counters
  <2>4. OneWriter'
    BY <1>0, <1>4, OutsideLock DEF Collect, fileVars
  <2> QED BY <2>2, <2>3, <2>4
<1>5. ASSUME NEW r \in Rules, NEW move \in Moves \ {"PROPOSED"}, Decide(o, r, move)
      PROVE  StoreInv'
  <2> DEFINE act == [rule |-> r, move |-> move, by |-> o, nr |-> acts + 1]
             log == bench[held[o]]
  <2>1. act \in Act
    BY <1>0 DEF Act, PlacesInv
  <2>2. log \in LegalLogs
    BY <1>0, <1>5 DEF Decide, Goes, PlacesInv, LogsInv
  <2>3. Legal(Status(log, act.rule), act.move)
    BY <1>5, Zenon DEF Decide
  <2>4. bench' = [bench EXCEPT ![held[o]] = Append(log, act)]
    BY <1>5 DEF Decide
  <2> HIDE DEF act, log
  <2>5. Append(log, act) \in LegalLogs
    BY <2>1, <2>2, <2>3, ActIsLegal
  <2>6. LogsInv'
    BY <1>5, <2>4, <2>5 DEF Decide, LogsInv, fileVars
  <2>7. PlacesInv'
    BY <1>0, <1>5 DEF Decide, Goes, PlacesInv, Places, jobVars
  <2>8. OneWriter'
    BY <1>0, <1>5, OutsideLock DEF Decide, fileVars
  <2> QED BY <2>6, <2>7, <2>8
<1>6. ASSUME NEW j \in Jobs, Start(o, j) PROVE StoreInv'
  <2>1. LogsInv'
    BY <1>6 DEF Start, LogsInv, fileVars, webVars
  <2>2. j \in Writers /\ j \notin Officers
    BY StoreAssumption DEF Writers
  <2>3. /\ held' \in [Writers -> Benches \cup {None}]
        /\ \A x \in Officers : pc'[x] \in {"open", "acted"} => held'[x] \in Benches
    BY <1>0, <1>6, <2>2 DEF Start, Goes, PlacesInv, Writers
  <2>4. PlacesInv'
    BY <1>0, <1>6, <2>3 DEF Start, Goes, PlacesInv, Places, webVars, counters
  <2>5. OneWriter'
    BY <1>0, <1>6, OutsideLock DEF Start, fileVars
  <2> QED BY <2>1, <2>4, <2>5
<1> QED BY <1>1, <1>2, <1>3, <1>4, <1>5, <1>6

\* A job that ends from a place outside the lock.
LEMMA EndsStep ==
  ASSUME StoreInv, NEW j \in Jobs, NEW from, NEW how, Ends(j, from, how),
         from \notin {"write", "unlock"}, UNCHANGED <<disk, lock, webVars, left, acts>>
  PROVE  StoreInv'
<1> USE DEF StoreInv, Ends
<1>0. j \in Writers /\ j \notin Officers
  BY StoreAssumption DEF Writers
<1>1. LogsInv'
  BY NoHistoryIsLegal DEF LogsInv, webVars
<1>2. PlacesInv'
  BY <1>0 DEF Goes, PlacesInv, Places, webVars
<1>3. OneWriter'
  BY <1>0, OutsideLock
<1> QED BY <1>1, <1>2, <1>3

LEMMA JobStep ==
  ASSUME StoreInv, NEW j \in Jobs,
         \/ Cancel(j) \/ JobLoad(j) \/ Extract(j) \/ Cancelled(j) \/ JobFails(j)
         \/ JobCollect(j) \/ Reload(j)
  PROVE  StoreInv'
<1> USE DEF StoreInv
<1>0. j \in Writers /\ j \notin Officers
  BY StoreAssumption DEF Writers
<1>1. CASE Cancel(j)
  BY <1>1 DEF Cancel, LogsInv, PlacesInv, OneWriter, fileVars, webVars, counters
<1>2. CASE JobLoad(j)
  <2>1. LogsInv'
    BY <1>2 DEF JobLoad, LogsInv, fileVars, webVars
  <2>2. PlacesInv'
    BY <1>0, <1>2 DEF JobLoad, Goes, PlacesInv, Places, webVars, counters
  <2>3. OneWriter'
    BY <1>0, <1>2, OutsideLock DEF JobLoad, fileVars
  <2> QED BY <2>1, <2>2, <2>3
<1>3. CASE Extract(j)
  <2>1. PICK r \in left[j] :
          /\ left' = [left EXCEPT ![j] = @ \ {r}]
          /\ \/ UNCHANGED own
             \/ /\ Legal(Status(own[j], r), "PROPOSED")
                /\ own' = [own EXCEPT ![j] = Append(own[j],
                     [rule |-> r, move |-> "PROPOSED", by |-> j, nr |-> 0])]
    BY <1>3 DEF Extract
  <2>2. UNCHANGED <<fileVars, webVars, held, payload, pc, counters>>
    BY <1>3 DEF Extract
  <2>3. own' \in [Writers -> LegalLogs]
    <3>1. CASE UNCHANGED own
      BY <3>1 DEF LogsInv
    <3>2. CASE /\ Legal(Status(own[j], r), "PROPOSED")
               /\ own' = [own EXCEPT ![j] = Append(own[j],
                    [rule |-> r, move |-> "PROPOSED", by |-> j, nr |-> 0])]
      <4> DEFINE act == [rule |-> r, move |-> "PROPOSED", by |-> j, nr |-> 0]
      <4>1. r \in Rules
        BY <2>1 DEF PlacesInv
      <4>2. act \in Act
        BY <1>0, <4>1 DEF Act, Moves
      <4>3. Legal(Status(own[j], act.rule), act.move)
        BY <3>2, Zenon
      <4>4. own[j] \in LegalLogs
        BY <1>0 DEF LogsInv
      <4>5. own' = [own EXCEPT ![j] = Append(own[j], act)]
        BY <3>2
      <4> HIDE DEF act
      <4>6. Append(own[j], act) \in LegalLogs
        BY <4>2, <4>3, <4>4, ActIsLegal
      <4> QED BY <4>5, <4>6 DEF LogsInv
    <3> QED BY <2>1, <3>1, <3>2
  <2>4. LogsInv'
    BY <2>2, <2>3 DEF LogsInv, fileVars, webVars
  <2>5. left' \in [Jobs -> SUBSET Rules]
    BY <2>1 DEF PlacesInv
  <2>6. PlacesInv' /\ OneWriter'
    BY <2>2, <2>5 DEF PlacesInv, OneWriter, fileVars, webVars, counters
  <2> QED BY <2>4, <2>6
<1>4. CASE Cancelled(j)
  BY <1>4, EndsStep DEF Cancelled, fileVars, counters
<1>5. CASE JobFails(j)
  BY <1>5, EndsStep DEF JobFails, fileVars, counters
<1>6. CASE JobCollect(j)
  <2>1. LogsInv'
    BY <1>0, <1>6 DEF JobCollect, LogsInv, fileVars, webVars
  <2>2. PlacesInv'
    BY <1>0, <1>6 DEF JobCollect, Goes, PlacesInv, Places, webVars, jobVars, counters
  <2>3. OneWriter'
    BY <1>0, <1>6, OutsideLock DEF JobCollect, fileVars
  <2> QED BY <2>1, <2>2, <2>3
<1>7. CASE Reload(j)
  <2>1. LogsInv'
    BY <1>7 DEF Reload, LogsInv, fileVars
  <2>2. PlacesInv'
    BY <1>0, <1>7 DEF Reload, Goes, PlacesInv, Places, jobVars, counters
  <2>3. OneWriter'
    BY <1>0, <1>7, OutsideLock DEF Reload, fileVars
  <2> QED BY <2>1, <2>2, <2>3
<1> QED BY <1>1, <1>2, <1>3, <1>4, <1>5, <1>6, <1>7

LEMMA ClerkStep ==
  ASSUME StoreInv, NEW c \in Clerks,
         ClerkLoad(c) \/ \E r \in Rules : ClerkCertify(c, r)
  PROVE  StoreInv'
<1> USE DEF StoreInv
<1>0. c \in Writers /\ c \notin Officers
  BY StoreAssumption DEF Writers
<1>1. CASE ClerkLoad(c)
  <2>1. LogsInv'
    BY <1>1 DEF ClerkLoad, LogsInv, fileVars, webVars
  <2>2. PlacesInv'
    BY <1>0, <1>1 DEF ClerkLoad, Goes, PlacesInv, Places, webVars, jobVars, counters
  <2>3. OneWriter'
    BY <1>0, <1>1, OutsideLock DEF ClerkLoad, fileVars
  <2> QED BY <2>1, <2>2, <2>3
<1>2. ASSUME NEW r \in Rules, ClerkCertify(c, r) PROVE StoreInv'
  <2> DEFINE act == [rule |-> r, move |-> "CERTIFIED", by |-> c, nr |-> acts + 1]
  <2>1. act \in Act
    BY <1>0 DEF Act, Moves, PlacesInv
  <2>2. own[c] \in LegalLogs
    BY <1>0 DEF LogsInv
  <2>3. Legal(Status(own[c], act.rule), act.move)
    BY <1>2, Zenon DEF ClerkCertify
  <2>4. payload' = [payload EXCEPT ![c] = Append(own[c], act)]
    BY <1>2 DEF ClerkCertify
  <2> HIDE DEF act
  <2>5. Append(own[c], act) \in LegalLogs
    BY <2>1, <2>2, <2>3, ActIsLegal
  <2>6. LogsInv'
    BY <1>2, <2>4, <2>5, NoHistoryIsLegal, ZenonT(40) DEF ClerkCertify, LogsInv, fileVars, webVars
  <2>7. PlacesInv'
    BY <1>0, <1>2 DEF ClerkCertify, Goes, PlacesInv, Places, webVars, jobVars
  <2>8. OneWriter'
    BY <1>0, <1>2, OutsideLock DEF ClerkCertify, fileVars
  <2> QED BY <2>6, <2>7, <2>8
<1> QED BY <1>1, <1>2

\* _save_registry under its lock.
LEMMA SavingStep ==
  ASSUME StoreInv, NEW w \in Writers, Saving(w) PROVE StoreInv'
<1> USE DEF StoreInv
<1>0. None \notin Writers /\ Jobs \subseteq Writers /\ \A j \in Jobs : j \notin Officers
  BY StoreAssumption DEF Writers
<1>1. CASE Acquire(w)
  <2>1. LogsInv'
    BY <1>1 DEF Acquire, LogsInv, webVars
  <2>2. PlacesInv'
    BY <1>1 DEF Acquire, Goes, PlacesInv, Places, webVars, jobVars, counters
  <2>3. OneWriter'
    BY <1>0, <1>1 DEF Acquire, Goes, PlacesInv, OneWriter
  <2> QED BY <2>1, <2>2, <2>3
<1>2. ASSUME NEW from, Raises(w, from) PROVE LogsInv' /\ PlacesInv'
  <2>1. CASE w \in Jobs
    <3>1. Ends(w, from, "failed") /\ UNCHANGED <<disk, webVars, left, acts>>
      BY <1>2, <2>1 DEF Raises, counters
    <3>2. LogsInv'
      BY <3>1, NoHistoryIsLegal DEF Ends, LogsInv, webVars
    <3> QED BY <1>0, <2>1, <3>1, <3>2 DEF Ends, Goes, PlacesInv, Places, webVars
  <2>2. CASE w \notin Jobs
    <3>1. /\ Goes(w, from, "idle")
          /\ held' = [held EXCEPT ![w] = None]
          /\ payload' = [payload EXCEPT ![w] = <<>>]
          /\ UNCHANGED <<own, disk, webVars, left, acts>>
      BY <1>2, <2>2 DEF Raises, counters
    <3>2. LogsInv'
      BY <3>1, NoHistoryIsLegal DEF LogsInv, webVars
    <3> QED BY <3>1, <3>2 DEF Goes, PlacesInv, Places, webVars
  <2> QED BY <2>1, <2>2
<1>3. ASSUME NEW from, Raises(w, from)
      PROVE  pc[w] = from /\ \E to \in {"idle", "gone"} : pc' = [pc EXCEPT ![w] = to]
  BY <1>3 DEF Raises, Ends, Goes
<1>4. CASE Busy(w)
  <2>1. Raises(w, "lock") /\ lock' = lock
    BY <1>4 DEF Busy
  <2>2. OneWriter'
    BY <1>3, <2>1 DEF PlacesInv, OneWriter
  <2> QED BY <1>2, <2>1, <2>2
<1>5. CASE WriteFails(w)
  <2>1. Raises(w, "write") /\ lock' = None
    BY <1>5 DEF WriteFails
  <2>2. OneWriter'
    BY <1>0, <1>3, <2>1 DEF PlacesInv, OneWriter
  <2> QED BY <1>2, <2>1, <2>2
<1>6. CASE Write(w)
  <2>1. LogsInv'
    BY <1>6, NoHistoryIsLegal DEF Write, LogsInv, webVars
  <2>2. PlacesInv'
    BY <1>6 DEF Write, Goes, PlacesInv, Places, webVars, jobVars, counters
  <2>3. OneWriter'
    BY <1>6 DEF Write, Goes, PlacesInv, OneWriter
  <2> QED BY <2>1, <2>2, <2>3
<1>7. CASE Release(w)
  <2>1. LogsInv'
    BY <1>7, NoHistoryIsLegal DEF Release, LogsInv, webVars
  <2>2. /\ \E to \in {"reload", "idle"} : Goes(w, "unlock", to)
        /\ held' \in {held, [held EXCEPT ![w] = None]}
        /\ lock' = None /\ UNCHANGED <<webVars, left, acts>>
    BY <1>7 DEF Release
  <2>3. PlacesInv'
    <3>1. pc' \in [Writers -> Places] /\ held' \in [Writers -> Benches \cup {None}]
      BY <2>2 DEF Goes, PlacesInv, Places
    <3>2. ASSUME NEW o \in Officers, pc'[o] \in {"open", "acted"}
          PROVE  held'[o] \in Benches
      <4>1. o \in Writers /\ o # w /\ pc'[o] = pc[o] /\ held'[o] = held[o]
        BY <2>2, <3>2 DEF Goes, PlacesInv, Writers
      <4> QED BY <3>2, <4>1 DEF PlacesInv
    <3> QED BY <2>2, <3>1, <3>2 DEF PlacesInv, webVars
  <2>4. OneWriter'
    BY <1>0, <2>2 DEF Goes, PlacesInv, OneWriter
  <2> QED BY <2>1, <2>3, <2>4
<1> QED BY <1>1, <1>4, <1>5, <1>6, <1>7 DEF Saving

\* A death takes what was in memory and leaves the file.
LEMMA DiesStep ==
  ASSUME StoreInv, NEW ws \in SUBSET Writers, Dies(ws),
         cached' \in {cached, None}, UNCHANGED <<bench, left>>
  PROVE  StoreInv'
<1> USE DEF StoreInv, Dies
<1>0. None \notin Writers /\ Orphaned \notin Writers /\ Orphaned # None
  BY StoreAssumption
<1>1. LogsInv'
  BY NoHistoryIsLegal DEF LogsInv
<1>3. PlacesInv'
  <2>1. pc' \in [Writers -> Places] /\ held' \in [Writers -> Benches \cup {None}]
    BY DEF PlacesInv, Places
  <2>2. ASSUME NEW o \in Officers, pc'[o] \in {"open", "acted"}
        PROVE  held'[o] \in Benches
    <3>1. o \in Writers
      BY DEF Writers
    <3>2. o \notin ws
      BY <2>2, <3>1
    <3> QED BY <2>2, <3>1, <3>2 DEF PlacesInv
  <2> QED BY <2>1, <2>2 DEF PlacesInv
<1>4. OneWriter'
  <2>1. \A w \in ws : pc'[w] \notin {"write", "unlock"} /\ lock' # w
    BY <1>0
  <2>2. \A w \in Writers \ ws : pc'[w] = pc[w] /\ (lock' = w <=> lock = w)
    BY <1>0
  <2> QED BY <2>1, <2>2 DEF OneWriter
<1> QED BY <1>1, <1>3, <1>4

LEMMA StoreStep == StoreInv /\ [Next]_vars => StoreInv'
<1> SUFFICES ASSUME StoreInv, [Next]_vars PROVE StoreInv'
  OBVIOUS
<1> USE DEF StoreInv
<1>0. Officers \subseteq Writers /\ Jobs \subseteq Writers /\ Clerks \subseteq Writers
  BY DEF Writers
<1>1. CASE UNCHANGED vars
  BY <1>1 DEF vars, fileVars, webVars, jobVars, counters, LogsInv, PlacesInv, OneWriter
<1>2. CASE Evict
  BY <1>2 DEF Evict, fileVars, jobVars, counters, LogsInv, PlacesInv, OneWriter
<1>3. CASE DeleteLock
  <2>1. LogsInv' /\ PlacesInv'
    BY <1>3 DEF DeleteLock, webVars, jobVars, counters, LogsInv, PlacesInv
  <2>2. OneWriter'
    BY <1>3, StoreAssumption DEF DeleteLock, OneWriter
  <2> QED BY <2>1, <2>2
<1>4. CASE WebDies
  BY <1>0, <1>4, DiesStep DEF WebDies
<1>5. ASSUME NEW c \in Clerks, ClerkDies(c) PROVE StoreInv'
  BY <1>0, <1>5, DiesStep DEF ClerkDies, webVars, jobVars
<1> QED BY <1>0, <1>1, <1>2, <1>3, <1>4, <1>5, OfficerStep, JobStep, ClerkStep, SavingStep
        DEF Next, Working

\* However officers, compile jobs and clerks write over one another, time out, fail
\* and die, one writer at a time is at the file and the file holds one legal history
\* of every rule: what store_lock and the whole-file save give.
THEOREM StoreAlwaysSound == Spec => []StoreIsSound
<1>1. StoreInv => StoreIsSound
  BY DEF StoreInv, LogsInv, LegalLogs, StoreIsSound, StoreIsLegal
<1> QED BY <1>1, StoreInitInv, StoreStep, PTL DEF Spec

-----------------------------------------------------------------------------
(* Jobs, and whose proposals are where.                                    *)

JobsInv ==
  /\ state \in [Jobs -> {"none", "running", "finished", "failed", "cancelled", "lost"}]
  /\ \A j \in Jobs : state[j] = "none" => pc[j] = "idle"
  /\ \A j \in Jobs :
       pc[j] \in {"extracting", "lock", "write", "unlock"} => state[j] = "running"

\* The jobs that have written.
Done == {j \in Jobs : state[j] \in {"finished", "lost"} \/ pc[j] = "unlock"}

\* The jobs that have proposed something of what log holds are among js.
Vetted(log, js) == \A i \in DOMAIN log : log[i].by \in Jobs => log[i].by \in js

\* Others' proposals get into a registry through the file alone.
AuthorsInv ==
  /\ Vetted(disk, Done)
  /\ \A b \in Benches : Vetted(bench[b], Done)
  /\ \A w \in Writers : Vetted(own[w], Done \cup {w}) /\ Vetted(payload[w], Done \cup {w})

\* What a step may do to a job: who has written has written.
JobsMove ==
  /\ JobsInv'
  /\ \A j \in Done : j \in Done'
  /\ \A j \in Jobs : state'[j] = "none" => state[j] = "none"

LEMMA JobsStay ==
  ASSUME JobsInv, state' = state, \A j \in Jobs : pc'[j] = pc[j]
  PROVE  JobsMove
BY DEF JobsMove, JobsInv, Done

LEMMA OthersStay ==
  ASSUME PlacesInv, JobsInv, NEW w \in Writers \ Jobs, NEW from, NEW to, Goes(w, from, to),
         state' = state
  PROVE  JobsMove
<1>1. \A j \in Jobs : pc'[j] = pc[j]
  BY DEF Goes, PlacesInv, Writers
<1> QED BY <1>1, JobsStay

LEMMA JobMoves ==
  ASSUME PlacesInv, JobsInv, NEW j \in Jobs, NEW from, NEW to, Goes(j, from, to),
         state' = state, state[j] = "running",
         from = "unlock" => FALSE
  PROVE  JobsMove
BY DEF Goes, PlacesInv, Writers, JobsMove, JobsInv, Done

LEMMA JobEndsMoves ==
  ASSUME PlacesInv, JobsInv, NEW j \in Jobs, NEW from, NEW how \in {"failed", "cancelled"},
         Ends(j, from, how), state[j] = "running", from # "unlock"
  PROVE  JobsMove
BY DEF Ends, Goes, PlacesInv, Writers, JobsMove, JobsInv, Done

LEMMA OfficerJobs ==
  ASSUME PlacesInv, JobsInv, NEW o \in Officers,
         \/ Open(o) \/ Load(o) \/ CloseBench(o) \/ Collect(o)
         \/ \E r \in Rules, move \in Moves \ {"PROPOSED"} : Decide(o, r, move)
         \/ \E j \in Jobs : Start(o, j)
  PROVE  JobsMove
<1>0. o \in Writers \ Jobs
  BY StoreAssumption DEF Writers
<1>1. CASE Open(o)
  <2>1. state' = state /\ \E to : Goes(o, "idle", to)
    BY <1>1 DEF Open, jobVars
  <2> QED BY <1>0, <2>1, OthersStay
<1>2. CASE Load(o)
  BY <1>0, <1>2, OthersStay DEF Load, jobVars
<1>3. CASE CloseBench(o)
  BY <1>0, <1>3, OthersStay DEF CloseBench, jobVars
<1>4. CASE Collect(o)
  BY <1>0, <1>4, OthersStay DEF Collect, jobVars
<1>5. ASSUME NEW r \in Rules, NEW move \in Moves \ {"PROPOSED"}, Decide(o, r, move)
      PROVE  JobsMove
  BY <1>0, <1>5, OthersStay DEF Decide, jobVars
<1>6. ASSUME NEW j \in Jobs, Start(o, j) PROVE JobsMove
  <2>1. \A k \in Jobs : pc'[k] = pc[k]
    BY <1>0, <1>6 DEF Start, Goes, PlacesInv, Writers
  <2>2. state[j] = "none" /\ state' = [state EXCEPT ![j] = "running"]
    BY <1>6 DEF Start
  <2> QED BY <2>1, <2>2 DEF JobsMove, JobsInv, Done
<1> QED BY <1>1, <1>2, <1>3, <1>4, <1>5, <1>6

LEMMA JobJobs ==
  ASSUME PlacesInv, JobsInv, NEW j \in Jobs,
         \/ Cancel(j) \/ JobLoad(j) \/ Extract(j) \/ Cancelled(j) \/ JobFails(j)
         \/ JobCollect(j) \/ Reload(j)
  PROVE  JobsMove
<1>1. CASE Cancel(j)
  BY <1>1, JobsStay DEF Cancel
<1>2. CASE JobLoad(j)
  BY <1>2, JobMoves DEF JobLoad
<1>3. CASE Extract(j)
  BY <1>3, JobsStay DEF Extract
<1>4. CASE Cancelled(j)
  <2>1. Ends(j, "extracting", "cancelled") /\ state[j] = "running"
    BY <1>4 DEF Cancelled, Ends, Goes, JobsInv
  <2> QED BY <2>1, JobEndsMoves
<1>5. CASE JobFails(j)
  BY <1>5, JobEndsMoves DEF JobFails
<1>6. CASE JobCollect(j)
  <2>1. Goes(j, "extracting", "lock") /\ state' = state /\ state[j] = "running"
    BY <1>6 DEF JobCollect, Goes, JobsInv, jobVars
  <2> QED BY <2>1, JobMoves
<1>7. CASE Reload(j)
  BY <1>7 DEF Reload, jobVars, Goes, PlacesInv, Writers, JobsMove, JobsInv, Done
<1> QED BY <1>1, <1>2, <1>3, <1>4, <1>5, <1>6, <1>7

LEMMA ClerkJobs ==
  ASSUME PlacesInv, JobsInv, NEW c \in Clerks,
         ClerkLoad(c) \/ \E r \in Rules : ClerkCertify(c, r)
  PROVE  JobsMove
<1>0. c \in Writers \ Jobs
  BY StoreAssumption DEF Writers
<1>1. CASE ClerkLoad(c)
  BY <1>0, <1>1, OthersStay DEF ClerkLoad, jobVars
<1>2. ASSUME NEW r \in Rules, ClerkCertify(c, r) PROVE JobsMove
  BY <1>0, <1>2, OthersStay DEF ClerkCertify, jobVars
<1> QED BY <1>1, <1>2

LEMMA SavingJobs ==
  ASSUME PlacesInv, JobsInv, NEW w \in Writers, Saving(w)
  PROVE  JobsMove
<1>1. CASE w \in Jobs
  <2>1. CASE Acquire(w)
    <3>1. Goes(w, "lock", "write") /\ state' = state /\ state[w] = "running"
      BY <1>1, <2>1 DEF Acquire, Goes, JobsInv, jobVars
    <3> QED BY <1>1, <3>1, JobMoves
  <2>2. ASSUME NEW from \in {"lock", "write"}, Raises(w, from) PROVE JobsMove
    <3>1. Ends(w, from, "failed") /\ state[w] = "running"
      BY <1>1, <2>2 DEF Raises, Ends, Goes, JobsInv
    <3> QED BY <1>1, <3>1, JobEndsMoves
  <2>3. CASE Write(w)
    <3>1. Goes(w, "write", "unlock") /\ state' = state /\ state[w] = "running"
      BY <1>1, <2>3 DEF Write, Goes, JobsInv, jobVars
    <3> QED BY <1>1, <3>1, JobMoves
  <2>4. CASE Release(w)
    <3>1. Goes(w, "unlock", "reload") /\ state' = [state EXCEPT ![w] = "finished"]
      BY <1>1, <2>4 DEF Release
    <3> QED BY <1>1, <3>1 DEF Goes, PlacesInv, Writers, JobsMove, JobsInv, Done
  <2> QED BY <2>1, <2>2, <2>3, <2>4 DEF Saving, Busy, WriteFails
<1>2. CASE w \notin Jobs
  <2>1. state' = state /\ \E from, to : Goes(w, from, to)
    BY <1>2 DEF Saving, Acquire, Busy, Write, WriteFails, Release, Raises, jobVars
  <2> QED BY <1>2, <2>1, OthersStay
<1> QED BY <1>1, <1>2

LEMMA JobsStep ==
  ASSUME PlacesInv, JobsInv, [Next]_vars PROVE JobsMove
<1>0. Officers \subseteq Writers /\ Jobs \subseteq Writers /\ Clerks \subseteq Writers
      /\ Jobs \cap Clerks = {}
  BY StoreAssumption DEF Writers
<1>1. CASE UNCHANGED vars
  BY <1>1, JobsStay DEF vars, jobVars
<1>2. CASE Evict \/ DeleteLock
  BY <1>2, JobsStay DEF Evict, DeleteLock, jobVars
<1>3. CASE WebDies
  <2>1. /\ state' = [j \in Jobs |-> IF state[j] = "running" THEN "lost" ELSE state[j]]
        /\ \A j \in Jobs : pc'[j] = IF pc[j] # "idle" THEN "gone" ELSE "idle"
    BY <1>0, <1>3 DEF WebDies, Dies
  <2> QED BY <2>1 DEF JobsMove, JobsInv, Done
<1>4. ASSUME NEW c \in Clerks, ClerkDies(c) PROVE JobsMove
  <2>1. state' = state /\ \A j \in Jobs : pc'[j] = pc[j]
    BY <1>0, <1>4 DEF ClerkDies, Dies, jobVars
  <2> QED BY <2>1, JobsStay
<1> QED BY <1>0, <1>1, <1>2, <1>3, <1>4, OfficerJobs, JobJobs, ClerkJobs, SavingJobs
        DEF Next, Working

\* Where what a file, a Workbench or a writer holds may have come from.
DiskMoves ==
  \/ disk' = disk
  \/ \E w \in Writers : disk' = payload[w] /\ (w \in Jobs => pc'[w] = "unlock")

BenchMoves(b) ==
  \/ bench'[b] \in {bench[b], disk}
  \/ \E act \in Act : act.by \notin Jobs /\ bench'[b] = Append(bench[b], act)

OwnMoves(w) ==
  \/ own'[w] \in {own[w], disk, <<>>}
  \/ \E act \in Act : act.by = w /\ own'[w] = Append(own[w], act)

PayloadMoves(w) ==
  \/ payload'[w] \in {payload[w], own[w], <<>>}
  \/ \E b \in Benches : payload'[w] = bench[b]
  \/ \E act \in Act : act.by = w /\ payload'[w] = Append(own[w], act)

LogsMove ==
  /\ DiskMoves
  /\ \A b \in Benches : BenchMoves(b)
  /\ \A w \in Writers : OwnMoves(w) /\ PayloadMoves(w)

LEMMA VettedAppend ==
  ASSUME NEW log \in Seq(Act), NEW act \in Act, NEW js, Vetted(log, js),
         act.by \in Jobs => act.by \in js
  PROVE  Vetted(Append(log, act), js)
<1>1. /\ DOMAIN Append(log, act) = 1..Len(log) + 1 /\ DOMAIN log = 1..Len(log)
      /\ Len(log) \in Nat
      /\ \A i \in 1..Len(log) : Append(log, act)[i] = log[i]
      /\ Append(log, act)[Len(log) + 1] = act
  OBVIOUS
<1> QED BY <1>1 DEF Vetted

LEMMA VettedMore ==
  ASSUME NEW log, NEW js, NEW more, Vetted(log, js), js \subseteq more
  PROVE  Vetted(log, more)
BY DEF Vetted

LEMMA NothingVetted == ASSUME NEW js PROVE Vetted(<<>>, js)
BY DEF Vetted

LEMMA AuthorsKept ==
  ASSUME LogsInv, AuthorsInv, JobsMove, LogsMove
  PROVE  AuthorsInv'
<1>0. /\ Done \subseteq Done'
      /\ \A l \in LegalLogs : l \in Seq(Act)
  BY DEF JobsMove, LegalLogs
<1>1. Vetted(disk', Done')
  <2>1. CASE disk' = disk
    BY <1>0, <2>1, VettedMore DEF AuthorsInv
  <2>2. ASSUME NEW w \in Writers, disk' = payload[w], w \in Jobs => pc'[w] = "unlock"
        PROVE  Vetted(disk', Done')
    <3>1. Vetted(payload[w], Done \cup {w})
      BY DEF AuthorsInv
    <3>2. w \in Jobs => w \in Done'
      BY <2>2 DEF Done
    <3> QED BY <1>0, <2>2, <3>1, <3>2 DEF Vetted
  <2> QED BY <2>1, <2>2 DEF LogsMove, DiskMoves
<1>2. ASSUME NEW b \in Benches PROVE Vetted(bench'[b], Done')
  <2>1. Vetted(bench[b], Done') /\ Vetted(disk, Done') /\ bench[b] \in Seq(Act)
    BY <1>0, VettedMore DEF AuthorsInv, LogsInv
  <2>2. CASE bench'[b] \in {bench[b], disk}
    BY <2>1, <2>2
  <2>3. ASSUME NEW act \in Act, act.by \notin Jobs, bench'[b] = Append(bench[b], act)
        PROVE  Vetted(bench'[b], Done')
    BY <2>1, <2>3, VettedAppend
  <2> QED BY <2>2, <2>3 DEF LogsMove, BenchMoves
<1>3. ASSUME NEW w \in Writers
      PROVE  Vetted(own'[w], Done' \cup {w}) /\ Vetted(payload'[w], Done' \cup {w})
  <2> DEFINE js == Done' \cup {w}
  <2>0. Done \subseteq js /\ Done \cup {w} \subseteq js /\ w \in js
    BY <1>0
  <2> HIDE DEF js
  <2>1. /\ Vetted(own[w], js) /\ Vetted(payload[w], js) /\ Vetted(disk, js)
        /\ \A b \in Benches : Vetted(bench[b], js)
    BY <2>0, VettedMore DEF AuthorsInv
  <2>2. own[w] \in Seq(Act)
    BY <1>0 DEF LogsInv
  <2>3. \A act \in Act : act.by = w => Vetted(Append(own[w], act), js)
    BY <2>0, <2>1, <2>2, VettedAppend
  <2>4. Vetted(own'[w], js)
    BY <2>1, <2>3, NothingVetted DEF LogsMove, OwnMoves
  <2>5. Vetted(payload'[w], js)
    BY <2>1, <2>3, NothingVetted DEF LogsMove, PayloadMoves
  <2> QED BY <2>4, <2>5 DEF js
<1> QED BY <1>1, <1>2, <1>3 DEF AuthorsInv

LEMMA LogsStay ==
  ASSUME UNCHANGED <<disk, bench, own, payload>> PROVE LogsMove
BY DEF LogsMove, DiskMoves, BenchMoves, OwnMoves, PayloadMoves

LEMMA OfficerLogs ==
  ASSUME LogsInv, PlacesInv, NEW o \in Officers,
         \/ Open(o) \/ Load(o) \/ CloseBench(o) \/ Collect(o)
         \/ \E r \in Rules, move \in Moves \ {"PROPOSED"} : Decide(o, r, move)
         \/ \E j \in Jobs : Start(o, j)
  PROVE  LogsMove
<1>0. o \in Writers /\ o \notin Jobs
  BY StoreAssumption DEF Writers
<1>1. CASE Open(o) \/ CloseBench(o) \/ \E j \in Jobs : Start(o, j)
  BY <1>1, LogsStay DEF Open, CloseBench, Start, fileVars, webVars
<1>2. CASE Load(o)
  <2>1. PICK b \in Benches : bench' = [bench EXCEPT ![b] = disk]
    BY <1>2 DEF Load
  <2>2. UNCHANGED <<disk, own, payload>>
    BY <1>2 DEF Load, fileVars
  <2> QED BY <2>1, <2>2
          DEF LogsMove, DiskMoves, BenchMoves, OwnMoves, PayloadMoves, LogsInv
<1>3. CASE Collect(o)
  <2>1. /\ payload' = [payload EXCEPT ![o] = bench[held[o]]] /\ held[o] \in Benches
        /\ UNCHANGED <<disk, bench, own>>
    BY <1>0, <1>3 DEF Collect, Goes, PlacesInv, fileVars, webVars
  <2> QED BY <1>0, <2>1
          DEF LogsMove, DiskMoves, BenchMoves, OwnMoves, PayloadMoves, LogsInv
<1>4. ASSUME NEW r \in Rules, NEW move \in Moves \ {"PROPOSED"}, Decide(o, r, move)
      PROVE  LogsMove
  <2> DEFINE act == [rule |-> r, move |-> move, by |-> o, nr |-> acts + 1]
  <2>1. act \in Act /\ act.by \notin Jobs
    BY <1>0 DEF Act, PlacesInv
  <2>2. /\ bench' = [bench EXCEPT ![held[o]] = Append(bench[held[o]], act)]
        /\ UNCHANGED <<disk, own, payload>>
    BY <1>4 DEF Decide, fileVars
  <2> HIDE DEF act
  <2> QED BY <2>1, <2>2
          DEF LogsMove, DiskMoves, BenchMoves, OwnMoves, PayloadMoves, LogsInv
<1> QED BY <1>1, <1>2, <1>3, <1>4

LEMMA EndsLogs ==
  ASSUME LogsInv, NEW j, NEW from, NEW how, Ends(j, from, how), UNCHANGED <<disk, bench>>
  PROVE  LogsMove
BY DEF Ends, LogsMove, DiskMoves, BenchMoves, OwnMoves, PayloadMoves, LogsInv

LEMMA JobLogs ==
  ASSUME LogsInv, PlacesInv, NEW j \in Jobs,
         \/ Cancel(j) \/ JobLoad(j) \/ Extract(j) \/ Cancelled(j) \/ JobFails(j)
         \/ JobCollect(j) \/ Reload(j)
  PROVE  LogsMove
<1>0. j \in Writers
  BY DEF Writers
<1>1. CASE Cancel(j)
  BY <1>1, LogsStay DEF Cancel, fileVars, webVars
<1>2. CASE JobLoad(j)
  <2>1. own' = [own EXCEPT ![j] = disk] /\ UNCHANGED <<disk, bench, payload>>
    BY <1>2 DEF JobLoad, fileVars, webVars
  <2> QED BY <2>1 DEF LogsMove, DiskMoves, BenchMoves, OwnMoves, PayloadMoves, LogsInv
<1>3. CASE Extract(j)
  <2>1. PICK r \in left[j] :
           \/ UNCHANGED own
           \/ own' = [own EXCEPT ![j] = Append(own[j],
                 [rule |-> r, move |-> "PROPOSED", by |-> j, nr |-> 0])]
    BY <1>3 DEF Extract
  <2> DEFINE act == [rule |-> r, move |-> "PROPOSED", by |-> j, nr |-> 0]
  <2>2. act \in Act /\ act.by = j
    BY <1>0 DEF PlacesInv, Act, Moves
  <2>3. own' = own \/ own' = [own EXCEPT ![j] = Append(own[j], act)]
    BY <2>1
  <2>4. UNCHANGED <<disk, bench, payload>>
    BY <1>3 DEF Extract, fileVars, webVars
  <2> HIDE DEF act
  <2> QED BY <2>2, <2>3, <2>4
          DEF LogsMove, DiskMoves, BenchMoves, OwnMoves, PayloadMoves, LogsInv
<1>4. CASE Cancelled(j) \/ JobFails(j)
  BY <1>4, EndsLogs DEF Cancelled, JobFails, fileVars, webVars
<1>5. CASE JobCollect(j)
  <2>1. payload' = [payload EXCEPT ![j] = own[j]] /\ UNCHANGED <<disk, bench, own>>
    BY <1>5 DEF JobCollect, fileVars, webVars
  <2> QED BY <2>1 DEF LogsMove, DiskMoves, BenchMoves, OwnMoves, PayloadMoves, LogsInv
<1>6. CASE Reload(j)
  <2>1. bench' = [bench EXCEPT ![held[j]] = disk] /\ UNCHANGED <<disk, own, payload>>
    BY <1>6 DEF Reload, fileVars
  <2> QED BY <2>1 DEF LogsMove, DiskMoves, BenchMoves, OwnMoves, PayloadMoves, LogsInv
<1> QED BY <1>1, <1>2, <1>3, <1>4, <1>5, <1>6

LEMMA ClerkLogs ==
  ASSUME LogsInv, PlacesInv, NEW c \in Clerks,
         ClerkLoad(c) \/ \E r \in Rules : ClerkCertify(c, r)
  PROVE  LogsMove
<1>0. c \in Writers
  BY DEF Writers
<1>1. CASE ClerkLoad(c)
  <2>1. own' = [own EXCEPT ![c] = disk] /\ UNCHANGED <<disk, bench, payload>>
    BY <1>1 DEF ClerkLoad, fileVars, webVars
  <2> QED BY <2>1 DEF LogsMove, DiskMoves, BenchMoves, OwnMoves, PayloadMoves, LogsInv
<1>2. ASSUME NEW r \in Rules, ClerkCertify(c, r) PROVE LogsMove
  <2> DEFINE act == [rule |-> r, move |-> "CERTIFIED", by |-> c, nr |-> acts + 1]
  <2>1. act \in Act /\ act.by = c
    BY <1>0 DEF Act, Moves, PlacesInv
  <2>2. /\ payload' = [payload EXCEPT ![c] = Append(own[c], act)]
        /\ own' = [own EXCEPT ![c] = <<>>] /\ UNCHANGED <<disk, bench>>
    BY <1>2 DEF ClerkCertify, fileVars, webVars
  <2> HIDE DEF act
  <2> QED BY <2>1, <2>2
          DEF LogsMove, DiskMoves, BenchMoves, OwnMoves, PayloadMoves, LogsInv
<1> QED BY <1>1, <1>2

LEMMA SavingLogs ==
  ASSUME LogsInv, PlacesInv, NEW w \in Writers, Saving(w)
  PROVE  LogsMove
<1>1. CASE Acquire(w)
  BY <1>1, LogsStay DEF Acquire, webVars
<1>2. ASSUME NEW from, Raises(w, from) PROVE LogsMove
  <2>1. UNCHANGED <<disk, bench>>
    BY <1>2 DEF Raises, webVars
  <2>2. CASE w \in Jobs
    BY <1>2, <2>1, <2>2, EndsLogs DEF Raises
  <2>3. CASE w \notin Jobs
    <3>1. payload' = [payload EXCEPT ![w] = <<>>] /\ own' = own
      BY <1>2, <2>3 DEF Raises
    <3> QED BY <2>1, <3>1 DEF LogsMove, DiskMoves, BenchMoves, OwnMoves, PayloadMoves, LogsInv
  <2> QED BY <2>2, <2>3
<1>3. CASE Write(w)
  <2>1. /\ disk' = payload[w] /\ payload' = [payload EXCEPT ![w] = <<>>]
        /\ UNCHANGED <<bench, own>> /\ pc'[w] = "unlock"
    BY <1>3 DEF Write, Goes, PlacesInv, webVars
  <2> QED BY <2>1 DEF LogsMove, DiskMoves, BenchMoves, OwnMoves, PayloadMoves, LogsInv
<1>4. CASE Release(w)
  <2>1. own' \in {own, [own EXCEPT ![w] = <<>>]} /\ UNCHANGED <<disk, bench, payload>>
    BY <1>4 DEF Release, webVars
  <2> QED BY <2>1 DEF LogsMove, DiskMoves, BenchMoves, OwnMoves, PayloadMoves, LogsInv
<1> QED BY <1>1, <1>2, <1>3, <1>4 DEF Saving, Busy, WriteFails

LEMMA LogsStep ==
  ASSUME LogsInv, PlacesInv, [Next]_vars PROVE LogsMove
<1>0. Officers \subseteq Writers /\ Jobs \subseteq Writers /\ Clerks \subseteq Writers
  BY DEF Writers
<1>1. CASE UNCHANGED vars
  BY <1>1, LogsStay DEF vars, fileVars, webVars
<1>2. CASE Evict \/ DeleteLock
  BY <1>2, LogsStay DEF Evict, DeleteLock, fileVars, webVars
<1>3. ASSUME NEW ws, Dies(ws), bench' = bench PROVE LogsMove
  BY <1>3 DEF Dies, LogsMove, DiskMoves, BenchMoves, OwnMoves, PayloadMoves
<1>4. CASE WebDies \/ \E c \in Clerks : ClerkDies(c)
  BY <1>3, <1>4 DEF WebDies, ClerkDies, webVars
<1> QED BY <1>0, <1>1, <1>2, <1>4, OfficerLogs, JobLogs, ClerkLogs, SavingLogs
        DEF Next, Working

LEMMA InitAuthors == Init => JobsInv /\ AuthorsInv
<1> SUFFICES ASSUME Init PROVE JobsInv /\ AuthorsInv
  OBVIOUS
<1> USE DEF Init
<1>1. JobsInv
  BY DEF JobsInv, Writers
<1>2. \A i \in DOMAIN Compiled : Compiled[i].by \notin Jobs
  BY StoreAssumption DEF Compiled, Writers
<1>3. Vetted(disk, Done)
  BY <1>2, NothingVetted DEF Vetted
<1>4. AuthorsInv
  BY <1>3, NothingVetted DEF AuthorsInv
<1> QED BY <1>1, <1>4

\* A compile run that was cancelled, failed or never got to its end has left nothing
\* in the rulebook, not even through an officer or another job that read the file
\* meanwhile: what jobs.py promises of it.
THEOREM OnlyFinishedJobsEverWrite == Spec => []OnlyFinishedJobsWrite
<1> DEFINE Inv == StoreInv /\ JobsInv /\ AuthorsInv
<1>1. Init => Inv
  BY StoreInitInv, InitAuthors
<1>2. Inv /\ [Next]_vars => Inv'
  <2> SUFFICES ASSUME Inv, [Next]_vars PROVE Inv'
    OBVIOUS
  <2>1. JobsMove /\ LogsMove
    BY JobsStep, LogsStep DEF StoreInv
  <2>2. StoreInv'
    BY StoreStep
  <2>3. JobsInv' /\ AuthorsInv'
    BY <2>1, AuthorsKept DEF JobsMove, StoreInv
  <2> QED BY <2>2, <2>3
<1>3. Inv => OnlyFinishedJobsWrite
  BY DEF AuthorsInv, Vetted, Done, OnlyFinishedJobsWrite
<1> HIDE DEF Inv
<1> QED BY <1>1, <1>2, <1>3, PTL DEF Spec

-----------------------------------------------------------------------------
(* One officer, working alone.  Clerks may have come and gone; each save of *)
(* theirs leaves its act, and whatever is made of that file carries it.    *)

ByClerk(as) == \E act \in as : act.by \in Clerks
Keeps(log) == acked \subseteq ToSet(log) \/ ByClerk(ToSet(log))

Lone(o) ==
  /\ Officers = {o}
  /\ \A j \in Jobs : state[j] = "none"
  /\ ~ByClerk(acked)

\* The Workbench open and the one in the cache are the same.
BenchKept(o) ==
  /\ cached # None => Keeps(bench[cached])
  /\ pc[o] \in {"open", "acted", "lock", "write", "unlock"} =>
       held[o] \in Benches /\ cached \in {None, held[o]} /\ Keeps(bench[held[o]])
  /\ pc[o] \in {"acted", "lock", "write", "unlock"} => acted[o] \subseteq ToSet(bench[held[o]])

SaveKept(o) ==
  /\ Keeps(disk)
  /\ pc[o] \in {"lock", "write"} =>
       Keeps(payload[o]) /\ acted[o] \subseteq ToSet(payload[o])
  /\ pc[o] = "unlock" => acted[o] \subseteq ToSet(disk)

ClerksShow ==
  /\ acted = [w \in Writers |-> acted[w]]
  /\ \A c \in Clerks : \A act \in acted[c] : act.by \in Clerks
  /\ \A c \in Clerks : pc[c] \in {"lock", "write"} => ByClerk(ToSet(payload[c]))

LoneInv == ClerksShow /\ \A o \in Officers : Lone(o) => BenchKept(o) /\ SaveKept(o)

LEMMA ActShows ==
  ASSUME NEW log \in LegalLogs, NEW act
  PROVE  ToSet(Append(log, act)) = ToSet(log) \cup {act}
<1>1. log \in Seq(Act \cup {act}) /\ act \in Act \cup {act}
  BY SeqMonotonic DEF LegalLogs
<1>2. /\ DOMAIN Append(log, act) = 1..Len(log) + 1 /\ DOMAIN log = 1..Len(log)
      /\ Len(log) \in Nat
      /\ \A i \in 1..Len(log) : Append(log, act)[i] = log[i]
      /\ Append(log, act)[Len(log) + 1] = act
  BY <1>1
<1>3. ToSet(Append(log, act)) \subseteq ToSet(log) \cup {act}
  BY <1>2 DEF ToSet
<1>4. ToSet(log) \subseteq ToSet(Append(log, act)) /\ act \in ToSet(Append(log, act))
  BY <1>2 DEF ToSet
<1> QED BY <1>3, <1>4

\* Nobody was told of a clerk's act before, and jobs cannot be unstarted.
LEMMA LoneBefore ==
  ASSUME JobsMove, acked \subseteq acked', NEW o, Lone(o)'
  PROVE  Lone(o)
BY DEF Lone, JobsMove, ByClerk

LEMMA AckedGrows == ASSUME [Next]_vars PROVE acked \subseteq acked'
<1>1. \A w : Saving(w) => acked \subseteq acked'
  BY DEF Saving, Acquire, Busy, Write, WriteFails, Raises, Release, counters
<1>2. \A j : Working(j) => acked \subseteq acked'
  BY <1>1 DEF Working, JobLoad, Extract, Cancelled, JobFails, JobCollect, Reload, counters
<1>3. \A o : Open(o) \/ Load(o) \/ CloseBench(o) \/ Collect(o) => acked \subseteq acked'
  BY DEF Open, Load, CloseBench, Collect, counters
<1>4. \A o, r, move : Decide(o, r, move) => acked \subseteq acked'
  BY DEF Decide
<1>5. \A o, j : Start(o, j) \/ Cancel(j) => acked \subseteq acked'
  BY DEF Start, Cancel, counters
<1>6. \A c, r : ClerkLoad(c) \/ ClerkDies(c) \/ ClerkCertify(c, r) => acked \subseteq acked'
  BY DEF ClerkLoad, ClerkDies, Dies, ClerkCertify, counters
<1>7. Evict \/ WebDies \/ DeleteLock \/ UNCHANGED vars => acked \subseteq acked'
  BY DEF Evict, WebDies, Dies, DeleteLock, vars, counters
<1> QED BY <1>1, <1>2, <1>3, <1>4, <1>5, <1>6, <1>7 DEF Next

\* No job does anything as long as none was started.
LEMMA NoJobWorks ==
  ASSUME JobsInv, NEW j \in Jobs, state[j] = "none", Cancel(j) \/ Working(j)
  PROVE  FALSE
<1>1. pc[j] = "idle"
  BY DEF JobsInv
<1> QED BY <1>1
     DEF Cancel, Working, JobLoad, Extract, Cancelled, JobFails, Ends, JobCollect, Reload,
         Saving, Acquire, Busy, Write, WriteFails, Raises, Release, Goes

\* What is seen of a step by an officer who works alone and does not take it.
LEMMA OfficerAside ==
  ASSUME NEW o, BenchKept(o), SaveKept(o), acked' = acked, cached' \in {cached, None},
         UNCHANGED <<bench, disk>>, pc'[o] = pc[o], held'[o] = held[o],
         acted'[o] = acted[o], payload'[o] = payload[o]
  PROVE  BenchKept(o)' /\ SaveKept(o)'
<1>1. \A log : Keeps(log) => (acked' \subseteq ToSet(log) \/ ByClerk(ToSet(log)))
  BY DEF Keeps
<1>2. BenchKept(o)'
  BY <1>1 DEF BenchKept, Keeps
<1>3. SaveKept(o)'
  BY <1>1 DEF SaveKept, Keeps
<1> QED BY <1>2, <1>3

LEMMA LoneOfficerStep ==
  ASSUME StoreInv, NEW o \in Officers, BenchKept(o), SaveKept(o),
         acted = [w \in Writers |-> acted[w]],
         \/ Open(o) \/ Load(o) \/ CloseBench(o) \/ Collect(o)
         \/ \E r \in Rules, move \in Moves \ {"PROPOSED"} : Decide(o, r, move)
  PROVE  BenchKept(o)' /\ SaveKept(o)'
<1>0. /\ o \in Writers /\ None \notin Benches
      /\ pc \in [Writers -> Places] /\ held \in [Writers -> Benches \cup {None}]
      /\ bench \in [Benches -> LegalLogs] /\ payload \in [Writers -> LegalLogs]
      /\ cached \in Benches \cup {None}
  BY StoreAssumption DEF Writers, StoreInv, PlacesInv, LogsInv
<1>1. CASE Open(o)
  <2>1. UNCHANGED <<disk, lock, cached, bench, payload, acted, acked>>
    BY <1>1 DEF Open, fileVars, webVars, counters
  <2>2. \/ cached # None /\ pc'[o] = "open" /\ held'[o] = cached
        \/ pc'[o] = "loading"
    BY <1>0, <1>1 DEF Open, Goes
  <2> QED BY <1>0, <2>1, <2>2 DEF BenchKept, SaveKept, Keeps
<1>2. CASE Load(o)
  <2>1. PICK b \in Benches : /\ bench' = [bench EXCEPT ![b] = disk] /\ cached' = b
                             /\ held' = [held EXCEPT ![o] = b] /\ Goes(o, "loading", "open")
    BY <1>2 DEF Load
  <2>2. UNCHANGED <<disk, payload, acted, acked>>
    BY <1>2 DEF Load, fileVars, counters
  <2>3. pc'[o] = "open" /\ held'[o] = b /\ bench'[b] = disk
    BY <1>0, <2>1 DEF Goes
  <2> QED BY <1>0, <2>1, <2>2, <2>3 DEF BenchKept, SaveKept, Keeps
<1>3. CASE CloseBench(o)
  <2>1. UNCHANGED <<disk, cached, bench, payload, acted, acked>> /\ pc'[o] = "idle"
    BY <1>0, <1>3 DEF CloseBench, Goes, fileVars, webVars, counters
  <2> QED BY <2>1 DEF BenchKept, SaveKept, Keeps
<1>4. CASE Collect(o)
  <2>1. /\ UNCHANGED <<disk, cached, bench, held, acted, acked>>
        /\ pc[o] = "acted" /\ pc'[o] = "lock" /\ payload'[o] = bench[held[o]]
    BY <1>0, <1>4 DEF Collect, Goes, fileVars, webVars, counters
  <2> QED BY <2>1 DEF BenchKept, SaveKept, Keeps
<1>5. ASSUME NEW r \in Rules, NEW move \in Moves \ {"PROPOSED"}, Decide(o, r, move)
      PROVE  BenchKept(o)' /\ SaveKept(o)'
  <2> DEFINE act == [rule |-> r, move |-> move, by |-> o, nr |-> acts + 1]
             h == held[o]
  <2>1. pc[o] = "open" /\ pc'[o] = "acted" /\ h \in Benches /\ cached \in {None, h}
    BY <1>0, <1>5 DEF Decide, Goes, BenchKept
  <2>2. /\ bench' = [bench EXCEPT ![h] = Append(bench[h], act)]
        /\ acted' = [acted EXCEPT ![o] = {act}]
        /\ UNCHANGED <<disk, cached, held, payload, acked>>
    BY <1>5 DEF Decide, fileVars
  <2> HIDE DEF act
  <2>3. bench'[h] = Append(bench[h], act) /\ acted'[o] = {act}
    BY <1>0, <2>1, <2>2
  <2>4. ToSet(bench'[h]) = ToSet(bench[h]) \cup {act}
    BY <1>0, <2>1, <2>3, ActShows
  <2>5. Keeps(bench[h])
    BY <2>1 DEF BenchKept
  <2>6. acked' \subseteq ToSet(bench'[h]) \/ ByClerk(ToSet(bench'[h]))
    BY <2>2, <2>4, <2>5 DEF Keeps, ByClerk
  <2>7. BenchKept(o)'
    BY <2>1, <2>2, <2>3, <2>4, <2>6 DEF BenchKept, Keeps
  <2>8. SaveKept(o)'
    BY <2>1, <2>2 DEF SaveKept, Keeps
  <2> QED BY <2>7, <2>8
<1> QED BY <1>1, <1>2, <1>3, <1>4, <1>5

LEMMA LoneSavingStep ==
  ASSUME StoreInv, NEW o \in Officers, BenchKept(o), SaveKept(o),
         acted = [w \in Writers |-> acted[w]], Saving(o)
  PROVE  BenchKept(o)' /\ SaveKept(o)'
<1>0. /\ o \in Writers /\ o \notin Jobs
      /\ pc \in [Writers -> Places] /\ payload \in [Writers -> LegalLogs]
  BY StoreAssumption DEF Writers, StoreInv, PlacesInv, LogsInv
<1>1. CASE Acquire(o)
  <2>1. /\ UNCHANGED <<disk, cached, bench, held, payload, acted, acked>>
        /\ pc[o] = "lock" /\ pc'[o] = "write"
    BY <1>0, <1>1 DEF Acquire, Goes, webVars, counters
  <2> QED BY <2>1 DEF BenchKept, SaveKept, Keeps
<1>2. CASE Busy(o) \/ WriteFails(o)
  <2>1. UNCHANGED <<disk, cached, bench, acked>> /\ pc'[o] = "idle"
    BY <1>0, <1>2 DEF Busy, WriteFails, Raises, Goes, webVars, counters
  <2> QED BY <2>1 DEF BenchKept, SaveKept, Keeps
<1>3. CASE Write(o)
  <2>1. /\ UNCHANGED <<cached, bench, held, acted, acked>> /\ disk' = payload[o]
        /\ pc[o] = "write" /\ pc'[o] = "unlock"
    BY <1>0, <1>3 DEF Write, Goes, webVars, counters
  <2> QED BY <2>1 DEF BenchKept, SaveKept, Keeps
<1>4. CASE Release(o)
  <2>1. /\ UNCHANGED <<disk, cached, bench>> /\ acked' = acked \cup acted[o]
        /\ pc[o] = "unlock" /\ pc'[o] = "idle"
    BY <1>0, <1>4 DEF Release, Goes, webVars
  <2>2. cached # None => Keeps(bench[cached]) /\ acted[o] \subseteq ToSet(bench[cached])
    BY <2>1 DEF BenchKept
  <2>3. Keeps(disk) /\ acted[o] \subseteq ToSet(disk)
    BY <2>1 DEF SaveKept
  <2> QED BY <2>1, <2>2, <2>3 DEF BenchKept, SaveKept, Keeps
<1> QED BY <1>1, <1>2, <1>3, <1>4 DEF Saving

\* A clerk's save shows, and while the officer holds the lock there is none.
LEMMA LoneClerkStep ==
  ASSUME StoreInv, NEW o \in Officers, NEW c \in Clerks, Lone(o)', ClerksShow,
         BenchKept(o), SaveKept(o),
         \/ ClerkLoad(c) \/ Saving(c) \/ ClerkDies(c)
         \/ \E r \in Rules : ClerkCertify(c, r)
  PROVE  BenchKept(o)' /\ SaveKept(o)'
<1>0. /\ o \in Writers /\ c \in Writers /\ o # c /\ c \notin Jobs
      /\ pc \in [Writers -> Places] /\ held = [w \in Writers |-> held[w]]
      /\ payload = [w \in Writers |-> payload[w]] /\ acted = [w \in Writers |-> acted[w]]
  BY StoreAssumption DEF Writers, StoreInv, PlacesInv, LogsInv, ClerksShow
<1>1. CASE ClerkLoad(c)
  <2>1. /\ UNCHANGED <<disk, cached, bench, held, payload, acted, acked>> /\ pc'[o] = pc[o]
    BY <1>0, <1>1 DEF ClerkLoad, Goes, fileVars, webVars, counters
  <2> QED BY <2>1, OfficerAside
<1>2. ASSUME NEW r \in Rules, ClerkCertify(c, r) PROVE BenchKept(o)' /\ SaveKept(o)'
  <2>1. /\ UNCHANGED <<disk, cached, bench, acked>> /\ pc'[o] = pc[o]
        /\ held'[o] = held[o] /\ acted'[o] = acted[o] /\ payload'[o] = payload[o]
    BY <1>0, <1>2 DEF ClerkCertify, Goes, fileVars, webVars
  <2> QED BY <2>1, OfficerAside
<1>3. CASE ClerkDies(c)
  <2>1. /\ UNCHANGED <<disk, cached, bench, acked>> /\ pc'[o] = pc[o]
        /\ held'[o] = held[o] /\ acted'[o] = acted[o] /\ payload'[o] = payload[o]
    BY <1>0, <1>3 DEF ClerkDies, Dies, webVars
  <2> QED BY <2>1, OfficerAside
<1>4. CASE Acquire(c)
  <2>1. UNCHANGED <<disk, cached, bench, held, payload, acted, acked>> /\ pc'[o] = pc[o]
    BY <1>0, <1>4 DEF Acquire, Goes, webVars, counters
  <2> QED BY <2>1, OfficerAside
<1>5. CASE Busy(c) \/ WriteFails(c)
  <2>1. /\ UNCHANGED <<disk, cached, bench, acked>> /\ pc'[o] = pc[o]
        /\ held'[o] = held[o] /\ acted'[o] = acted[o] /\ payload'[o] = payload[o]
    BY <1>0, <1>5 DEF Busy, WriteFails, Raises, Goes, webVars, counters
  <2> QED BY <2>1, OfficerAside
<1>6. CASE Write(c)
  <2>1. /\ UNCHANGED <<cached, bench, held, acted, acked>> /\ disk' = payload[c]
        /\ pc[c] = "write" /\ pc'[o] = pc[o] /\ payload'[o] = payload[o]
    BY <1>0, <1>6 DEF Write, Goes, webVars, counters
  <2>2. ByClerk(ToSet(disk'))
    BY <2>1 DEF ClerksShow
  <2>3. pc[o] # "unlock"
    BY <1>0, <2>1 DEF StoreInv, OneWriter
  <2> QED BY <2>1, <2>2, <2>3 DEF BenchKept, SaveKept, Keeps
<1>7. CASE Release(c)
  <2>1. acked' = acked \cup acted[c] /\ acted[c] \subseteq acked'
    BY <1>0, <1>7 DEF Release
  <2>2. acted[c] = {}
    BY <2>1 DEF Lone, ByClerk, ClerksShow
  <2>3. /\ UNCHANGED <<disk, cached, bench, payload, acked>> /\ pc'[o] = pc[o]
        /\ held'[o] = held[o] /\ acted'[o] = acted[o]
    BY <1>0, <1>7, <2>1, <2>2 DEF Release, Goes, webVars
  <2> QED BY <2>3, OfficerAside
<1> QED BY <1>1, <1>2, <1>3, <1>4, <1>5, <1>6, <1>7 DEF Saving

LEMMA LoneStep ==
  ASSUME StoreInv, JobsInv, LoneInv, [Next]_vars, NEW o \in Officers, Lone(o)'
  PROVE  BenchKept(o)' /\ SaveKept(o)'
<1>0. Lone(o)
  BY JobsStep, AckedGrows, LoneBefore DEF StoreInv
<1>1. BenchKept(o) /\ SaveKept(o) /\ ClerksShow
  BY <1>0 DEF LoneInv
<1>2. o \in Writers /\ \A j \in Jobs : state[j] = "none" /\ state'[j] = "none"
  BY <1>0 DEF Lone, Writers
<1>3. CASE UNCHANGED vars \/ Evict \/ DeleteLock
  <2>1. /\ UNCHANGED <<disk, bench, held, payload, pc, acted, acked>>
        /\ cached' \in {cached, None}
    BY <1>3 DEF vars, fileVars, webVars, counters, Evict, DeleteLock
  <2> QED BY <1>1, <2>1, OfficerAside
<1>4. CASE WebDies
  <2>1. /\ UNCHANGED <<disk, bench, acked>> /\ cached' = None /\ pc'[o] = "idle"
    BY <1>2, StoreAssumption, <1>4 DEF WebDies, Dies
  <2> QED BY <1>1, <2>1 DEF BenchKept, SaveKept, Keeps
<1>5. ASSUME NEW j \in Jobs, Cancel(j) \/ Working(j) PROVE FALSE
  BY <1>2, <1>5, NoJobWorks
<1>6. ASSUME NEW j \in Jobs, Start(o, j) PROVE FALSE
  BY <1>2, <1>6 DEF Start, JobsInv
<1>7. \A x \in Officers : x = o
  BY <1>0 DEF Lone
<1>8. ASSUME NEW c \in Clerks,
             \/ ClerkLoad(c) \/ Saving(c) \/ ClerkDies(c)
             \/ \E r \in Rules : ClerkCertify(c, r)
      PROVE  BenchKept(o)' /\ SaveKept(o)'
  BY <1>1, <1>8, LoneClerkStep
<1>9. ASSUME \/ Open(o) \/ Load(o) \/ CloseBench(o) \/ Collect(o) \/ Saving(o)
             \/ \E r \in Rules, move \in Moves \ {"PROPOSED"} : Decide(o, r, move)
      PROVE  BenchKept(o)' /\ SaveKept(o)'
  BY <1>1, <1>9, LoneOfficerStep, LoneSavingStep DEF ClerksShow
<1> QED BY <1>3, <1>4, <1>5, <1>6, <1>7, <1>8, <1>9 DEF Next

\* What a step does to a clerk who does not take it.
ClerkAside(c) ==
  /\ pc'[c] = pc[c] \/ pc'[c] \notin {"lock", "write"}
  /\ payload'[c] = payload[c]
  /\ acted'[c] = acted[c]

LEMMA ClerksAside ==
  ASSUME ClerksShow, acted' = [w \in Writers |-> acted'[w]],
         \A c \in Clerks : ClerkAside(c)
  PROVE  ClerksShow'
BY DEF ClerksShow, ClerkAside

\* Who is not a clerk leaves clerks alone.
LEMMA OthersAside ==
  ASSUME StoreInv, ClerksShow, NEW w \in Writers \ Clerks, NEW to,
         pc' = pc \/ pc' = [pc EXCEPT ![w] = to],
         payload' = payload \/ \E x : payload' = [payload EXCEPT ![w] = x],
         acted' = acted \/ \E x : acted' = [acted EXCEPT ![w] = x]
  PROVE  ClerksShow'
<1>1. /\ pc \in [Writers -> Places] /\ payload = [x \in Writers |-> payload[x]]
      /\ acted = [x \in Writers |-> acted[x]] /\ Clerks \subseteq Writers
  BY DEF StoreInv, PlacesInv, LogsInv, ClerksShow, Writers
<1>2. \A c \in Clerks : pc'[c] = pc[c]
  BY <1>1
<1>3. \A c \in Clerks : payload'[c] = payload[c]
  BY <1>1
<1>4. \A c \in Clerks : acted'[c] = acted[c]
  BY <1>1
<1>5. acted' = [x \in Writers |-> acted'[x]]
  BY <1>1
<1> QED BY <1>2, <1>3, <1>4, <1>5, ClerksAside DEF ClerkAside

LEMMA OfficersAside ==
  ASSUME StoreInv, ClerksShow, NEW o \in Officers,
         \/ Open(o) \/ Load(o) \/ CloseBench(o) \/ Collect(o)
         \/ \E r \in Rules, move \in Moves \ {"PROPOSED"} : Decide(o, r, move)
         \/ \E j \in Jobs : Start(o, j)
  PROVE  ClerksShow'
<1>0. o \in Writers \ Clerks
  BY StoreAssumption DEF Writers
<1>1. \E to : pc' = [pc EXCEPT ![o] = to]
  BY DEF Open, Load, CloseBench, Collect, Decide, Start, Goes
<1>2. payload' = payload \/ \E x : payload' = [payload EXCEPT ![o] = x]
  BY DEF Open, Load, CloseBench, Collect, Decide, Start
<1>3. acted' = acted \/ \E x : acted' = [acted EXCEPT ![o] = x]
  BY DEF Open, Load, CloseBench, Collect, Decide, Start
<1> QED BY <1>0, <1>1, <1>2, <1>3, OthersAside

LEMMA JobsAside ==
  ASSUME StoreInv, ClerksShow, NEW j \in Jobs,
         \/ Cancel(j) \/ JobLoad(j) \/ Extract(j) \/ Cancelled(j) \/ JobFails(j)
         \/ JobCollect(j) \/ Reload(j)
  PROVE  ClerksShow'
<1>0. j \in Writers \ Clerks
  BY StoreAssumption DEF Writers
<1>1. pc' = pc \/ \E to : pc' = [pc EXCEPT ![j] = to]
  BY DEF Cancel, JobLoad, Extract, Cancelled, JobFails, JobCollect, Reload, Ends, Goes
<1>2. payload' = payload \/ \E x : payload' = [payload EXCEPT ![j] = x]
  BY DEF Cancel, JobLoad, Extract, Cancelled, JobFails, JobCollect, Reload, Ends
<1>3. acted' = acted
  BY DEF Cancel, JobLoad, Extract, Cancelled, JobFails, JobCollect, Reload
<1> QED BY <1>0, <1>1, <1>2, <1>3, OthersAside

LEMMA SavingShape ==
  ASSUME NEW w \in Writers, Saving(w)
  PROVE  /\ \E to : pc' = [pc EXCEPT ![w] = to]
         /\ payload' = payload \/ payload' = [payload EXCEPT ![w] = <<>>]
         /\ acted' = acted \/ acted' = [acted EXCEPT ![w] = {}]
<1>1. CASE Acquire(w)
  BY <1>1 DEF Acquire, Goes
<1>2. CASE Busy(w) \/ WriteFails(w)
  BY <1>2 DEF Busy, WriteFails, Raises, Ends, Goes
<1>3. CASE Write(w)
  BY <1>3 DEF Write, Goes
<1>4. CASE Release(w)
  BY <1>4 DEF Release, Goes
<1> QED BY <1>1, <1>2, <1>3, <1>4 DEF Saving

LEMMA ClerksSave ==
  ASSUME StoreInv, ClerksShow, NEW c \in Clerks, Saving(c)
  PROVE  ClerksShow'
<1>0. /\ c \in Writers /\ c \notin Jobs /\ Clerks \subseteq Writers
      /\ pc \in [Writers -> Places] /\ payload = [w \in Writers |-> payload[w]]
      /\ acted = [w \in Writers |-> acted[w]]
  BY StoreAssumption DEF Writers, StoreInv, PlacesInv, LogsInv, ClerksShow
<1>1. acted' = [w \in Writers |-> acted'[w]]
      /\ \A x \in Clerks : acted'[x] \subseteq acted[x]
  BY <1>0, SavingShape
<1>2. \A x \in Clerks \ {c} : pc'[x] = pc[x] /\ payload'[x] = payload[x]
  BY <1>0, SavingShape
<1>3. pc'[c] \in {"lock", "write"} => pc[c] \in {"lock", "write"} /\ payload'[c] = payload[c]
  BY <1>0 DEF Saving, Acquire, Busy, Write, WriteFails, Raises, Release, Goes
<1> QED BY <1>1, <1>2, <1>3 DEF ClerksShow

LEMMA ClerksWork ==
  ASSUME StoreInv, ClerksShow, NEW c \in Clerks,
         ClerkLoad(c) \/ \E r \in Rules : ClerkCertify(c, r)
  PROVE  ClerksShow'
<1>0. /\ c \in Writers /\ Clerks \subseteq Writers /\ acts \in Nat
      /\ pc \in [Writers -> Places] /\ payload = [w \in Writers |-> payload[w]]
      /\ acted = [w \in Writers |-> acted[w]] /\ own[c] \in LegalLogs
  BY DEF Writers, StoreInv, PlacesInv, LogsInv, ClerksShow
<1>1. CASE ClerkLoad(c)
  <2>1. UNCHANGED <<payload, acted>> /\ pc' = [pc EXCEPT ![c] = "open"]
    BY <1>1 DEF ClerkLoad, Goes
  <2>2. \A x \in Clerks : ClerkAside(x)
    BY <1>0, <2>1 DEF ClerkAside
  <2> QED BY <1>0, <2>1, <2>2, ClerksAside
<1>2. ASSUME NEW r \in Rules, ClerkCertify(c, r) PROVE ClerksShow'
  <2> DEFINE act == [rule |-> r, move |-> "CERTIFIED", by |-> c, nr |-> acts + 1]
  <2>1. act.by \in Clerks
    OBVIOUS
  <2>2. /\ payload' = [payload EXCEPT ![c] = Append(own[c], act)]
        /\ acted' = [acted EXCEPT ![c] = {act}]
        /\ pc' = [pc EXCEPT ![c] = "lock"]
    BY <1>2 DEF ClerkCertify, Goes
  <2> HIDE DEF act
  <2>3. ByClerk(ToSet(payload'[c]))
    BY <1>0, <2>1, <2>2, ActShows DEF ByClerk
  <2>4. \A x \in Clerks \ {c} :
          pc'[x] = pc[x] /\ payload'[x] = payload[x] /\ acted'[x] = acted[x]
    BY <1>0, <2>2
  <2>5. acted' = [w \in Writers |-> acted'[w]] /\ acted'[c] = {act}
    BY <1>0, <2>2
  <2> QED BY <2>1, <2>3, <2>4, <2>5 DEF ClerksShow
<1> QED BY <1>1, <1>2

LEMMA ClerksStep ==
  ASSUME StoreInv, ClerksShow, [Next]_vars PROVE ClerksShow'
<1>0. /\ Clerks \subseteq Writers /\ Officers \subseteq Writers \ Clerks
      /\ Jobs \subseteq Writers \ Clerks
  BY StoreAssumption DEF Writers
<1>1. CASE UNCHANGED vars \/ Evict \/ DeleteLock
  <2>1. UNCHANGED <<pc, payload, acted>>
    BY <1>1 DEF vars, Evict, DeleteLock
  <2> QED BY <2>1 DEF ClerksShow
<1>2. ASSUME NEW ws, Dies(ws) PROVE ClerksShow'
  <2>1. acted' = [w \in Writers |-> acted'[w]]
    BY <1>2 DEF Dies
  <2>2. \A c \in Clerks : acted'[c] \subseteq acted[c]
    BY <1>0, <1>2 DEF Dies
  <2>3. \A c \in Clerks : pc'[c] \in {"lock", "write"} =>
          pc[c] \in {"lock", "write"} /\ payload'[c] = payload[c]
    BY <1>0, <1>2 DEF Dies
  <2> QED BY <2>1, <2>2, <2>3 DEF ClerksShow
<1>3. CASE WebDies \/ \E c \in Clerks : ClerkDies(c)
  BY <1>2, <1>3 DEF WebDies, ClerkDies
<1>4. ASSUME NEW w \in Writers \ Clerks, Saving(w) PROVE ClerksShow'
  BY <1>4, SavingShape, OthersAside
<1> QED BY <1>0, <1>1, <1>3, <1>4, OfficersAside, JobsAside, ClerksSave, ClerksWork
        DEF Next, Working

LEMMA InitLone == Init => LoneInv
<1> SUFFICES ASSUME Init PROVE LoneInv
  OBVIOUS
<1>1. /\ pc = [w \in Writers |-> "idle"] /\ acked = {} /\ cached = None
      /\ acted = [w \in Writers |-> {}]
  BY DEF Init
<1> QED BY <1>1 DEF LoneInv, ClerksShow, BenchKept, SaveKept, Keeps, Writers

\* What one officer was told is done is in the file for good: whatever is evicted,
\* refused, timed out on or lost in a crash, as long as no job was started and no
\* clerk's act is in the file.
THEOREM AcknowledgedAlwaysStays == Spec => []AcknowledgedStays
<1> DEFINE Inv == StoreInv /\ JobsInv /\ LoneInv
<1>1. Init => Inv
  BY StoreInitInv, InitAuthors, InitLone
<1>2. Inv /\ [Next]_vars => Inv'
  <2> SUFFICES ASSUME Inv, [Next]_vars PROVE Inv'
    OBVIOUS
  <2>1. StoreInv' /\ JobsInv'
    BY StoreStep, JobsStep DEF StoreInv, JobsMove
  <2>2. ClerksShow'
    BY ClerksStep DEF LoneInv
  <2>3. ASSUME NEW o \in Officers, Lone(o)' PROVE BenchKept(o)' /\ SaveKept(o)'
    BY <2>3, LoneStep
  <2> QED BY <2>1, <2>2, <2>3 DEF LoneInv
<1>3. Inv => AcknowledgedStays
  <2> SUFFICES ASSUME Inv, NEW o \in Officers, OnlyOfficer(o) PROVE acked \subseteq ToSet(disk)
    BY DEF AcknowledgedStays
  <2>1. /\ Officers = {o} /\ \A j \in Jobs : state[j] = "none"
        /\ \A act \in acked \cup ToSet(disk) : act.by \notin Clerks
    BY StoreAssumption DEF OnlyOfficer, Writers
  <2>2. Lone(o) /\ ~ByClerk(ToSet(disk))
    BY <2>1 DEF Lone, ByClerk
  <2> QED BY <2>2 DEF LoneInv, SaveKept, Keeps
<1> HIDE DEF Inv
<1> QED BY <1>1, <1>2, <1>3, PTL DEF Spec
=============================================================================
