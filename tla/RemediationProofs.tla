------------------------- MODULE RemediationProofs -------------------------
(* Proofs about RemediationTasks: the log of the remediation file accounts *)
(* for every task, for any threads, rules and occasions, however the       *)
(* requests overtake each other and whatever the firm does meanwhile; and, *)
(* while they do not overlap, tasks are raised and closed on what the      *)
(* engine finds today.                                                     *)
EXTENDS RemediationTasks, FiniteSetTheorems, SequenceTheorems, WellFoundedInduction, TLAPS

IsSeq(s) == \E S : s \in Seq(S)

SameRule(s, r) == {id \in DOMAIN s.tasks : id[1] = r}

\* What every remediation store is, on disk or in a handler's hands.
Shaped(s) ==
  /\ s = [tasks |-> s.tasks, log |-> s.log]
  /\ IsSeq(s.log)
  /\ s.tasks \in [DOMAIN s.tasks -> Task]

\* The tasks of a rule are numbered by their count, so the next number is new.
Numbered(s) ==
  /\ IsFiniteSet(DOMAIN s.tasks)
  /\ DOMAIN s.tasks \subseteq Rules \X Nat
  /\ \A id \in DOMAIN s.tasks : id[2] <= Cardinality(SameRule(s, id[1]))

\* No entry is about a task that is not on file.
Filed(s) == \A i \in DOMAIN s.log : s.log[i].task \in DOMAIN s.tasks

Whole(s) ==
  Shaped(s) /\ Numbered(s) /\ Filed(s) /\ HistoryIsUnbroken(s) /\ ClosedByRecheck(s)

Asked(c) ==
  /\ c.what \in {"open", "assign", "attach", "recheck"}
  /\ c.what = "open" => c.gap \in Gaps
  /\ c.what = "attach" => c.evidence \subseteq Events

\* A request that has read the file works on a whole one, its task among them;
\* a re-check is judged by the engine, and not before the task names evidence.
RequestSound(t) ==
  /\ pc[t] # "idle" => Asked(call[t])
  /\ pc[t] \in {"judge", "save"} =>
       /\ Whole(copy[t])
       /\ call[t].what # "open" => call[t].task \in DOMAIN copy[t].tasks
  /\ pc[t] = "judge" => call[t].what = "recheck"
  /\ pc[t] = "save" /\ call[t].what = "recheck" =>
       /\ copy[t].tasks[call[t].task].evidence # {}
       /\ judged[t].outcome \in {"clear", "failing", "not evaluated"}
       /\ judged[t].met # None

TasksInv ==
  /\ pc \in [Threads -> {"idle", "load", "judge", "save"}]
  /\ call = [t \in Threads |-> call[t]]
  /\ copy = [t \in Threads |-> copy[t]]
  /\ judged = [t \in Threads |-> judged[t]]
  /\ Whole(disk)
  /\ \A t \in Threads : RequestSound(t)

-----------------------------------------------------------------------------
(* One more entry in a log.                                                *)

LEMMA AppendFacts ==
  ASSUME NEW s, IsSeq(s), NEW e
  PROVE  /\ IsSeq(Append(s, e))
         /\ DOMAIN s = 1..Len(s) /\ Len(s) \in Nat
         /\ DOMAIN Append(s, e) = 1..Len(s) + 1
         /\ Len(Append(s, e)) = Len(s) + 1
         /\ \A i \in 1..Len(s) : Append(s, e)[i] = s[i]
         /\ Append(s, e)[Len(s) + 1] = e
<1>1. PICK S : s \in Seq(S)
  BY DEF IsSeq
<1>2. s \in Seq(S \cup {e}) /\ e \in S \cup {e}
  BY <1>1, SeqMonotonic
<1>3. Append(s, e) \in Seq(S \cup {e})
  BY <1>2
<1> QED BY <1>2, <1>3 DEF IsSeq

\* Where the next entry goes.
Place(s) == Len(s.log) + 1

\* s2 has one entry more than s.
Gains(s, s2, e) == IsSeq(s.log) /\ s2.log = Append(s.log, e)

\* The new entry comes after all others, which are where they were.
LEMMA NewEntry ==
  ASSUME NEW s, NEW s2, NEW e, Gains(s, s2, e)
  PROVE  /\ Place(s) \in Nat /\ Place(s) > 0
         /\ DOMAIN s.log = 1..Place(s) - 1
         /\ DOMAIN s2.log = 1..Place(s)
         /\ \A i \in 1..Place(s) - 1 : s2.log[i] = s.log[i]
         /\ s2.log[Place(s)] = e
BY AppendFacts DEF Place, Gains

LEMMA OthersEntries ==
  ASSUME NEW s, NEW s2, NEW e, NEW id, Gains(s, s2, e),
         id # e.task
  PROVE  EntriesOf(s2, id) = EntriesOf(s, id)
<1> DEFINE k == Place(s)
<1>1. /\ k \in Nat /\ DOMAIN s.log = 1..k - 1 /\ DOMAIN s2.log = 1..k
      /\ \A i \in 1..k - 1 : s2.log[i] = s.log[i]
      /\ s2.log[k] = e
  BY NewEntry
<1> QED BY <1>1 DEF EntriesOf

LEMMA TaskEntries ==
  ASSUME NEW s, NEW s2, NEW e, Gains(s, s2, e)
  PROVE  EntriesOf(s2, e.task) = EntriesOf(s, e.task) \cup {Place(s)}
<1> DEFINE k == Place(s)
<1>1. /\ k \in Nat /\ k > 0 /\ DOMAIN s.log = 1..k - 1 /\ DOMAIN s2.log = 1..k
      /\ \A i \in 1..k - 1 : s2.log[i] = s.log[i]
      /\ s2.log[k] = e
  BY NewEntry
<1>2. EntriesOf(s2, e.task) \subseteq EntriesOf(s, e.task) \cup {k}
  BY <1>1 DEF EntriesOf
<1>3. EntriesOf(s, e.task) \subseteq EntriesOf(s2, e.task)
  BY <1>1 DEF EntriesOf
<1>4. k \in EntriesOf(s2, e.task)
  BY <1>1 DEF EntriesOf
<1> QED BY <1>2, <1>3, <1>4

LEMMA OldEntries ==
  ASSUME NEW s, NEW s2, NEW e, NEW id, Gains(s, s2, e),
         NEW i \in EntriesOf(s, id)
  PROVE  i \in Nat /\ i < Place(s) /\ s2.log[i] = s.log[i]
<1>1. i \in DOMAIN s.log
  BY DEF EntriesOf
<1>2. /\ Place(s) \in Nat /\ DOMAIN s.log = 1..Place(s) - 1
      /\ \A j \in 1..Place(s) - 1 : s2.log[j] = s.log[j]
  BY NewEntry
<1> QED BY <1>1, <1>2

LEMMA OldBefore ==
  ASSUME NEW s, NEW s2, NEW e, NEW id, Gains(s, s2, e),
         NEW i \in EntriesOf(s, id)
  PROVE  Before(s2, id, i) = Before(s, id, i)
<1>1. Place(s) \in Nat /\ i \in Nat /\ i < Place(s)
  BY OldEntries, NewEntry
<1>2. EntriesOf(s2, id) = EntriesOf(s, id)
      \/ EntriesOf(s2, id) = EntriesOf(s, id) \cup {Place(s)}
  BY OthersEntries, TaskEntries
<1> QED BY <1>1, <1>2 DEF Before

LEMMA NewBefore ==
  ASSUME NEW s, NEW s2, NEW e, Gains(s, s2, e)
  PROVE  Before(s2, e.task, Place(s)) = EntriesOf(s, e.task)
<1>1. Place(s) \in Nat
  BY NewEntry
<1>2. \A i \in EntriesOf(s, e.task) : i \in Nat /\ i < Place(s)
  BY OldEntries
<1> QED BY <1>1, <1>2, TaskEntries DEF Before

\* A task that nothing new is said of keeps its story.
Told(s, id) ==
  /\ \E i \in EntriesOf(s, id) :
       IsLatest(i, EntriesOf(s, id)) /\ s.log[i].to = s.tasks[id].status
  /\ \A i \in EntriesOf(s, id) :
       \/ /\ Before(s, id, i) = {}
          /\ s.log[i].what = "CREATED" /\ s.log[i].from = None
       \/ /\ s.log[i].what # "CREATED"
          /\ \E j \in Before(s, id, i) :
               IsLatest(j, Before(s, id, i)) /\ s.log[i].from = s.log[j].to

LEMMA UnbrokenIsTold ==
  ASSUME NEW s PROVE HistoryIsUnbroken(s) <=> \A id \in DOMAIN s.tasks : Told(s, id)
BY DEF HistoryIsUnbroken, Told

LEMMA OthersTold ==
  ASSUME NEW s, NEW s2, NEW e, NEW id, Gains(s, s2, e),
         id # e.task, Told(s, id), s2.tasks[id] = s.tasks[id]
  PROVE  Told(s2, id)
<1> DEFINE k == Place(s)
<1>1. /\ EntriesOf(s2, id) = EntriesOf(s, id)
      /\ \A i \in EntriesOf(s, id) :
           s2.log[i] = s.log[i] /\ Before(s2, id, i) = Before(s, id, i)
  BY NewEntry, OthersEntries, TaskEntries, OldEntries, OldBefore, NewBefore
<1>2. \A i : Before(s, id, i) \subseteq EntriesOf(s, id)
  BY DEF Before
<1>3. \E i \in EntriesOf(s2, id) :
        IsLatest(i, EntriesOf(s2, id)) /\ s2.log[i].to = s2.tasks[id].status
  BY <1>1 DEF Told
<1>4. ASSUME NEW i \in EntriesOf(s2, id)
      PROVE  \/ /\ Before(s2, id, i) = {}
                /\ s2.log[i].what = "CREATED" /\ s2.log[i].from = None
             \/ /\ s2.log[i].what # "CREATED"
                /\ \E j \in Before(s2, id, i) :
                     IsLatest(j, Before(s2, id, i)) /\ s2.log[i].from = s2.log[j].to
  BY <1>1, <1>2 DEF Told
<1> QED BY <1>3, <1>4 DEF Told

LEMMA TaskTold ==
  ASSUME NEW s, NEW s2, NEW e, Gains(s, s2, e),
         Told(s, e.task), e.what # "CREATED", e.from = s.tasks[e.task].status,
         s2.tasks[e.task].status = e.to
  PROVE  Told(s2, e.task)
<1> DEFINE k == Place(s)
           id == e.task
<1>1. /\ k \in Nat /\ s2.log[k] = e
      /\ \A i \in EntriesOf(s, id) :
           i \in Nat /\ i < k /\ s2.log[i] = s.log[i] /\ Before(s2, id, i) = Before(s, id, i)
      /\ EntriesOf(s2, id) = EntriesOf(s, id) \cup {k}
      /\ Before(s2, id, k) = EntriesOf(s, id)
  BY NewEntry, OthersEntries, TaskEntries, OldEntries, OldBefore, NewBefore
<1>2. IsLatest(k, EntriesOf(s2, id)) /\ s2.log[k].to = s2.tasks[id].status
  BY <1>1 DEF IsLatest
<1>3. PICK j \in EntriesOf(s, id) :
        IsLatest(j, EntriesOf(s, id)) /\ s.log[j].to = s.tasks[id].status
  BY DEF Told
<1>4. /\ s2.log[k].what # "CREATED"
      /\ j \in Before(s2, id, k) /\ IsLatest(j, Before(s2, id, k))
      /\ s2.log[k].from = s2.log[j].to
  BY <1>1, <1>3
<1>5. \A i : Before(s, id, i) \subseteq EntriesOf(s, id)
  BY DEF Before
<1>6. \A i \in EntriesOf(s, id) :
       \/ /\ Before(s2, id, i) = {}
          /\ s2.log[i].what = "CREATED" /\ s2.log[i].from = None
       \/ /\ s2.log[i].what # "CREATED"
          /\ \E m \in Before(s2, id, i) :
               IsLatest(m, Before(s2, id, i)) /\ s2.log[i].from = s2.log[m].to
  BY <1>1, <1>5 DEF Told
<1> QED BY <1>1, <1>2, <1>4, <1>6 DEF Told

LEMMA NewTold ==
  ASSUME NEW s, NEW s2, NEW e, Gains(s, s2, e),
         EntriesOf(s, e.task) = {}, e.what = "CREATED", e.from = None,
         s2.tasks[e.task].status = e.to
  PROVE  Told(s2, e.task)
<1> DEFINE k == Place(s)
<1>1. k \in Nat /\ s2.log[k] = e
  BY NewEntry
<1>2. EntriesOf(s2, e.task) = {k} /\ Before(s2, e.task, k) = {}
  BY TaskEntries, NewBefore
<1> QED BY <1>1, <1>2 DEF Told, IsLatest

-----------------------------------------------------------------------------
(* How tasks are closed.                                                   *)

\* The task was closed by a re-check, and nothing has moved it since.
Rechecked(s, id) ==
  /\ s.tasks[id].evidence # {}
  /\ \E n \in EntriesOf(s, id) :
       /\ {n - 1, n - 2} \subseteq EntriesOf(s, id)
       /\ s.log[n].what = "CLOSED" /\ s.log[n - 1].what = "VERIFIED"
       /\ s.log[n - 2].what = "RECHECKED" /\ s.log[n - 2].met # None
       /\ \A i \in EntriesOf(s, id) : i > n => s.log[i].from = s.log[i].to

LEMMA ClosedIsRechecked ==
  ASSUME NEW s
  PROVE  ClosedByRecheck(s) <=>
           \A id \in DOMAIN s.tasks : s.tasks[id].status = "CLOSED" => Rechecked(s, id)
BY DEF ClosedByRecheck, Rechecked

\* An entry about another task, or one that moves nothing, changes nothing.
LEMMA StillRechecked ==
  ASSUME NEW s, NEW s2, NEW e, NEW id, Gains(s, s2, e),
         Rechecked(s, id), s2.tasks[id].evidence # {},
         id # e.task \/ e.from = e.to
  PROVE  Rechecked(s2, id)
<1> DEFINE k == Place(s)
<1>1. /\ k \in Nat /\ s2.log[k] = e
      /\ \A i \in EntriesOf(s, id) : i \in Nat /\ i < k /\ s2.log[i] = s.log[i]
      /\ id # e.task => EntriesOf(s2, id) = EntriesOf(s, id)
      /\ EntriesOf(s2, e.task) = EntriesOf(s, e.task) \cup {k}
  <2>1. k \in Nat /\ s2.log[k] = e
    BY NewEntry
  <2>2. \A i \in EntriesOf(s, id) : i \in Nat /\ i < k /\ s2.log[i] = s.log[i]
    BY OldEntries
  <2>3. id # e.task => EntriesOf(s2, id) = EntriesOf(s, id)
    BY OthersEntries
  <2>4. EntriesOf(s2, e.task) = EntriesOf(s, e.task) \cup {k}
    BY TaskEntries
  <2> QED BY <2>1, <2>2, <2>3, <2>4
<1>2. PICK n \in EntriesOf(s, id) :
       /\ {n - 1, n - 2} \subseteq EntriesOf(s, id)
       /\ s.log[n].what = "CLOSED" /\ s.log[n - 1].what = "VERIFIED"
       /\ s.log[n - 2].what = "RECHECKED" /\ s.log[n - 2].met # None
       /\ \A i \in EntriesOf(s, id) : i > n => s.log[i].from = s.log[i].to
  BY DEF Rechecked
<1>3. /\ EntriesOf(s, id) \subseteq EntriesOf(s2, id)
      /\ \A i \in EntriesOf(s2, id) : i \in EntriesOf(s, id) \/ (i = k /\ id = e.task)
  BY <1>1
<1>4. /\ n \in EntriesOf(s2, id) /\ {n - 1, n - 2} \subseteq EntriesOf(s2, id)
      /\ s2.log[n].what = "CLOSED" /\ s2.log[n - 1].what = "VERIFIED"
      /\ s2.log[n - 2].what = "RECHECKED" /\ s2.log[n - 2].met # None
  BY <1>1, <1>2, <1>3
<1>5. \A i \in EntriesOf(s2, id) : i > n => s2.log[i].from = s2.log[i].to
  BY <1>1, <1>2, <1>3
<1> QED BY <1>4, <1>5 DEF Rechecked

-----------------------------------------------------------------------------
(* What the methods of the store make of a whole one.                      *)

EntryFor(id, what, from, to, met) ==
  [task |-> id, what |-> what, from |-> from, to |-> to, met |-> met]

LEMMA LoggedForm ==
  ASSUME NEW tasks, NEW log, NEW id, NEW what, NEW from, NEW to, NEW met
  PROVE  Logged([tasks |-> tasks, log |-> log], id, what, from, to, met)
           = [tasks |-> tasks, log |-> Append(log, EntryFor(id, what, from, to, met))]
<1> DEFINE s == [tasks |-> tasks, log |-> log]
           e == EntryFor(id, what, from, to, met)
<1>1. Logged(s, id, what, from, to, met) = [s EXCEPT !.log = Append(s.log, e)]
  <2> HIDE DEF s
  <2> QED BY DEF Logged, EntryFor
<1> HIDE DEF e
<1>2. [s EXCEPT !.log = Append(s.log, e)] = [tasks |-> tasks, log |-> Append(log, e)]
  OBVIOUS
<1> QED BY <1>1, <1>2, Zenon DEF e

\* The story of one task goes on; no other task changes.
Continues(s, s2, e) ==
  /\ Gains(s, s2, e) /\ Shaped(s2)
  /\ DOMAIN s2.tasks = DOMAIN s.tasks
  /\ \A id \in DOMAIN s.tasks : /\ s2.tasks[id].evidence = s.tasks[id].evidence
                                /\ s2.tasks[id].gap = s.tasks[id].gap
  /\ \A id \in DOMAIN s.tasks : id # e.task => s2.tasks[id] = s.tasks[id]
  /\ e.task \in DOMAIN s.tasks /\ e.what # "CREATED"
  /\ e.from = s.tasks[e.task].status /\ s2.tasks[e.task].status = e.to

LEMMA FiledAppend ==
  ASSUME NEW s, NEW s2, NEW e, Gains(s, s2, e), Filed(s),
         DOMAIN s.tasks \subseteq DOMAIN s2.tasks, e.task \in DOMAIN s2.tasks
  PROVE  Filed(s2)
<1>1. /\ DOMAIN s.log = 1..Place(s) - 1 /\ DOMAIN s2.log = 1..Place(s)
      /\ \A i \in 1..Place(s) - 1 : s2.log[i] = s.log[i]
      /\ s2.log[Place(s)] = e /\ Place(s) \in Nat
  BY NewEntry
<1> QED BY <1>1 DEF Filed

\* The store but for how its tasks were closed.
Sound(s) == Shaped(s) /\ Numbered(s) /\ Filed(s) /\ HistoryIsUnbroken(s)

LEMMA ContinuedSound ==
  ASSUME NEW s, NEW s2, NEW e, Sound(s), Continues(s, s2, e)
  PROVE  Sound(s2)
<1>1. Filed(s2)
  BY FiledAppend DEF Sound, Continues
<1>2. Numbered(s2)
  <2>1. \A r : SameRule(s2, r) = SameRule(s, r)
    BY DEF Continues, SameRule
  <2> QED BY <2>1 DEF Sound, Continues, Numbered
<1>3. HistoryIsUnbroken(s2)
  <2>1. \A id \in DOMAIN s.tasks : Told(s, id)
    BY UnbrokenIsTold DEF Sound
  <2>2. ASSUME NEW id \in DOMAIN s.tasks PROVE Told(s2, id)
    <3>1. CASE id = e.task
      BY <2>1, <3>1, TaskTold DEF Continues
    <3>2. CASE id # e.task
      BY <2>1, <3>2, OthersTold DEF Continues
    <3> QED BY <3>1, <3>2
  <2> QED BY <2>2, UnbrokenIsTold DEF Continues
<1> QED BY <1>1, <1>2, <1>3 DEF Sound, Continues

LEMMA ContinuedWhole ==
  ASSUME NEW s, NEW s2, NEW e, Whole(s), Continues(s, s2, e),
         e.to # "CLOSED" \/ e.from = e.to
  PROVE  Whole(s2)
<1>1. Sound(s2)
  BY ContinuedSound DEF Whole, Sound
<1>2. ASSUME NEW id \in DOMAIN s2.tasks, s2.tasks[id].status = "CLOSED"
      PROVE  Rechecked(s2, id)
  <2>1. id \in DOMAIN s.tasks /\ s.tasks[id].status = "CLOSED"
        /\ (id # e.task \/ e.from = e.to)
    BY <1>2 DEF Continues
  <2>2. Rechecked(s, id)
    BY <2>1, ClosedIsRechecked DEF Whole
  <2>3. s2.tasks[id].evidence # {}
    BY <2>1, <2>2 DEF Rechecked, Continues
  <2>4. Gains(s, s2, e)
    BY DEF Continues
  <2> QED BY <2>1, <2>2, <2>3, <2>4, StillRechecked
<1>3. ClosedByRecheck(s2)
  BY <1>2, ClosedIsRechecked
<1> QED BY <1>1, <1>3 DEF Whole, Sound

LEMMA LoggedContinues ==
  ASSUME NEW s, Sound(s), NEW id \in DOMAIN s.tasks, NEW what, NEW met, what # "CREATED",
         NEW status, status = s.tasks[id].status
  PROVE  Continues(s, Logged(s, id, what, status, status, met),
                   EntryFor(id, what, status, status, met))
<1> DEFINE e == EntryFor(id, what, status, status, met)
           s2 == Logged(s, id, what, status, status, met)
<1>1. s = [tasks |-> s.tasks, log |-> s.log] /\ IsSeq(s.log)
      /\ s.tasks \in [DOMAIN s.tasks -> Task]
  BY DEF Sound, Shaped
<1>2. s2 = [tasks |-> s.tasks, log |-> Append(s.log, e)]
  BY <1>1 DEF Logged, EntryFor
<1>3. s2.tasks = s.tasks /\ s2.log = Append(s.log, e)
  BY <1>2
<1>4. IsSeq(Append(s.log, e))
  BY <1>1, AppendFacts
<1>5. Gains(s, s2, e) /\ Shaped(s2)
  BY <1>1, <1>2, <1>3, <1>4 DEF Gains, Shaped
<1>6. /\ e.task = id /\ e.what = what
      /\ e.from = status /\ e.to = status
  BY DEF EntryFor
<1> QED BY <1>3, <1>5, <1>6 DEF Continues

LEMMA MovedContinues ==
  ASSUME NEW s, Sound(s), NEW id \in DOMAIN s.tasks, NEW what, NEW to \in Statuses,
         what # "CREATED"
  PROVE  Continues(s, Moved(s, id, what, to),
                   EntryFor(id, what, s.tasks[id].status, to, None))
<1> DEFINE e == EntryFor(id, what, s.tasks[id].status, to, None)
           tasks == [s.tasks EXCEPT ![id].status = to]
           s2 == Moved(s, id, what, to)
<1>1. s = [tasks |-> s.tasks, log |-> s.log] /\ IsSeq(s.log)
      /\ s.tasks \in [DOMAIN s.tasks -> Task]
  BY DEF Sound, Shaped
<1>2. [s EXCEPT !.tasks[id].status = to] = [tasks |-> tasks, log |-> s.log]
  BY <1>1
<1>3. s2 = [tasks |-> tasks, log |-> Append(s.log, e)]
  <2>1. s2 = Logged([tasks |-> tasks, log |-> s.log], id, what, s.tasks[id].status, to, None)
    BY <1>2, Zenon DEF Moved
  <2> HIDE DEF tasks
  <2> QED BY <2>1, LoggedForm
<1>4. s2.tasks = tasks /\ s2.log = Append(s.log, e)
  BY <1>3
<1>5. /\ tasks \in [DOMAIN s.tasks -> Task] /\ DOMAIN tasks = DOMAIN s.tasks
      /\ tasks[id].status = to /\ tasks[id].evidence = s.tasks[id].evidence
      /\ tasks[id].gap = s.tasks[id].gap
      /\ \A i \in DOMAIN s.tasks : i # id => tasks[i] = s.tasks[i]
  BY <1>1 DEF Task
<1>6. IsSeq(Append(s.log, e))
  BY <1>1, AppendFacts
<1>7. Gains(s, s2, e) /\ Shaped(s2)
  BY <1>1, <1>3, <1>4, <1>5, <1>6 DEF Gains, Shaped
<1>8. /\ e.task = id /\ e.what = what
      /\ e.from = s.tasks[id].status /\ e.to = to
  BY DEF EntryFor
<1> QED BY <1>4, <1>5, <1>7, <1>8 DEF Continues

\* Evidence does not show in the log.
LEMMA EvidenceWhole ==
  ASSUME NEW s, Whole(s), NEW id \in DOMAIN s.tasks, NEW es \in SUBSET Events
  PROVE  Whole([s EXCEPT !.tasks[id].evidence = @ \cup es])
<1> DEFINE tasks == [s.tasks EXCEPT ![id].evidence = @ \cup es]
           s2 == [s EXCEPT !.tasks[id].evidence = @ \cup es]
<1>1. s = [tasks |-> s.tasks, log |-> s.log] /\ IsSeq(s.log)
      /\ s.tasks \in [DOMAIN s.tasks -> Task]
  BY DEF Whole, Shaped
<1>2. s2 = [tasks |-> tasks, log |-> s.log]
  BY <1>1
<1>3. s2.tasks = tasks /\ s2.log = s.log
  BY <1>2
<1>4. /\ tasks \in [DOMAIN s.tasks -> Task] /\ DOMAIN tasks = DOMAIN s.tasks
      /\ \A i \in DOMAIN s.tasks : /\ tasks[i].status = s.tasks[i].status
                                  /\ s.tasks[i].evidence \subseteq tasks[i].evidence
  BY <1>1 DEF Task
<1> HIDE DEF tasks, s2
<1>5. Shaped(s2)
  BY <1>1, <1>2, <1>3, <1>4 DEF Shaped
<1>6. Numbered(s2)
  <2>1. \A r : SameRule(s2, r) = SameRule(s, r)
    BY <1>3, <1>4 DEF SameRule
  <2> QED BY <1>3, <1>4, <2>1 DEF Whole, Numbered
<1>7. Filed(s2)
  BY <1>3, <1>4 DEF Whole, Filed
<1>8. \A i : EntriesOf(s2, i) = EntriesOf(s, i)
  BY <1>3 DEF EntriesOf
<1>9. \A i, j : Before(s2, i, j) = Before(s, i, j)
  BY <1>8 DEF Before
<1>10. HistoryIsUnbroken(s2)
  BY <1>3, <1>4, <1>8, <1>9 DEF Whole, HistoryIsUnbroken
<1>11. ClosedByRecheck(s2)
  <2>1. ASSUME NEW i \in DOMAIN s2.tasks, s2.tasks[i].status = "CLOSED"
        PROVE  Rechecked(s2, i)
    <3>1. Rechecked(s, i)
      BY <2>1, <1>3, <1>4, ClosedIsRechecked DEF Whole
    <3>2. s2.tasks[i].evidence # {}
      BY <2>1, <3>1, <1>3, <1>4 DEF Rechecked
    <3>3. EntriesOf(s2, i) = EntriesOf(s, i) /\ s2.log = s.log
      BY <1>3, <1>8
    <3> QED BY <3>1, <3>2, <3>3, ZenonT(30) DEF Rechecked
  <2> QED BY <2>1, ClosedIsRechecked
<1> QED BY <1>5, <1>6, <1>7, <1>10, <1>11 DEF Whole, s2

LEMMA OpenForGapWhole ==
  ASSUME NEW s, Whole(s), NEW gap \in Gaps
  PROVE  Whole(OpenForGap(s, gap))
<1> DEFINE r == RuleFor(gap)
           id == NextId(s, r)
           task == [gap |-> gap, status |-> "OPEN", evidence |-> {}]
           tasks == [i \in DOMAIN s.tasks \cup {id} |-> IF i = id THEN task ELSE s.tasks[i]]
           e == EntryFor(id, "CREATED", None, "OPEN", None)
           s2 == [tasks |-> tasks, log |-> Append(s.log, e)]
<1>1. CASE Unfinished(s, gap) # {}
  BY <1>1 DEF OpenForGap
<1>2. CASE Unfinished(s, gap) = {}
  <2>1. s = [tasks |-> s.tasks, log |-> s.log] /\ IsSeq(s.log)
        /\ s.tasks \in [DOMAIN s.tasks -> Task]
    BY DEF Whole, Shaped
  <2>2. OpenForGap(s, gap) = s2
    <3>1. [s EXCEPT !.tasks = [i \in DOMAIN @ \cup {id} |-> IF i = id THEN task ELSE @[i]]]
            = [tasks |-> tasks, log |-> s.log]
      BY <2>1
    <3>2. OpenForGap(s, gap)
            = Logged([tasks |-> tasks, log |-> s.log], id, "CREATED", None, "OPEN", None)
      BY <1>2, <3>1, Zenon DEF OpenForGap
    <3> HIDE DEF tasks, id
    <3>3. Logged([tasks |-> tasks, log |-> s.log], id, "CREATED", None, "OPEN", None) = s2
      BY LoggedForm
    <3> QED BY <3>2, <3>3, Zenon
  <2>3. s2.tasks = tasks /\ s2.log = Append(s.log, e)
    OBVIOUS
  <2>4. r \in Rules /\ task \in Task
    BY TasksAssumption DEF RuleFor, Gaps, Task, Statuses
  <2>5. /\ IsFiniteSet(DOMAIN s.tasks) /\ DOMAIN s.tasks \subseteq Rules \X Nat
        /\ \A i \in DOMAIN s.tasks : i[2] <= Cardinality(SameRule(s, i[1]))
    BY DEF Whole, Numbered
  <2>6. IsFiniteSet(SameRule(s, r)) /\ Cardinality(SameRule(s, r)) \in Nat
    BY <2>5, FS_Subset, FS_CardinalityType DEF SameRule
  <2>7. id = <<r, Cardinality(SameRule(s, r)) + 1>>
    BY DEF NextId, SameRule
  <2>8. id \in Rules \X Nat /\ id[1] = r /\ id[2] = Cardinality(SameRule(s, r)) + 1
    BY <2>4, <2>6, <2>7
  <2>9. id \notin DOMAIN s.tasks
    BY <2>5, <2>6, <2>8
  <2> HIDE DEF id, r, task
  <2>10. /\ DOMAIN tasks = DOMAIN s.tasks \cup {id}
         /\ tasks \in [DOMAIN tasks -> Task]
         /\ tasks[id] = task /\ \A i \in DOMAIN s.tasks : tasks[i] = s.tasks[i]
    BY <2>1, <2>4, <2>9
  <2> HIDE DEF tasks
  <2>11. IsSeq(Append(s.log, e))
    BY <2>1, AppendFacts
  <2>12. e.task = id /\ e.what = "CREATED" /\ e.from = None /\ e.to = "OPEN"
    BY DEF EntryFor
  <2> HIDE DEF s2, e
  <2>13. Gains(s, s2, e) /\ Shaped(s2)
    BY <2>1, <2>3, <2>10, <2>11 DEF Gains, Shaped, s2
  <2>14. Filed(s2)
    BY <2>3, <2>10, <2>12, <2>13, FiledAppend DEF Whole
  <2>15. Numbered(s2)
    <3>1. IsFiniteSet(DOMAIN s2.tasks)
      BY <2>3, <2>5, <2>10, FS_AddElement
    <3>2. SameRule(s2, r) = SameRule(s, r) \cup {id} /\ id \notin SameRule(s, r)
      BY <2>3, <2>8, <2>9, <2>10 DEF SameRule
    <3>3. Cardinality(SameRule(s2, r)) = Cardinality(SameRule(s, r)) + 1
      BY <2>6, <3>2, FS_AddElement
    <3>4. \A q : q # r => SameRule(s2, q) = SameRule(s, q)
      BY <2>3, <2>8, <2>10 DEF SameRule
    <3>5. ASSUME NEW i \in DOMAIN s2.tasks
          PROVE  i[2] <= Cardinality(SameRule(s2, i[1]))
      <4>1. CASE i = id
        BY <4>1, <2>6, <2>8, <3>3
      <4>2. CASE i \in DOMAIN s.tasks /\ i[1] = r
        BY <4>2, <2>5, <2>6, <3>3
      <4>3. CASE i \in DOMAIN s.tasks /\ i[1] # r
        BY <4>3, <2>5, <3>4
      <4> QED BY <2>3, <2>10, <4>1, <4>2, <4>3
    <3> QED BY <3>1, <3>5, <2>3, <2>5, <2>8, <2>10 DEF Numbered
  <2>16. HistoryIsUnbroken(s2)
    <3>1. EntriesOf(s, id) = {}
      BY <2>9 DEF EntriesOf, Whole, Filed
    <3>2. Told(s2, id)
      <4>1. s2.tasks[e.task].status = e.to
        BY <2>3, <2>10, <2>12 DEF task
      <4> QED BY <2>12, <2>13, <3>1, <4>1, NewTold
    <3>3. ASSUME NEW i \in DOMAIN s.tasks PROVE Told(s2, i)
      <4>1. Told(s, i) /\ i # id /\ s2.tasks[i] = s.tasks[i]
        BY <2>3, <2>9, <2>10, UnbrokenIsTold DEF Whole
      <4> QED BY <2>12, <2>13, <4>1, OthersTold
    <3> QED BY <2>3, <2>10, <3>2, <3>3, UnbrokenIsTold
  <2>17. ClosedByRecheck(s2)
    <3>1. ASSUME NEW i \in DOMAIN s2.tasks, s2.tasks[i].status = "CLOSED"
          PROVE  Rechecked(s2, i)
      <4>1. i # id
        BY <3>1, <2>3, <2>10 DEF task
      <4>2. i \in DOMAIN s.tasks /\ s2.tasks[i] = s.tasks[i]
        BY <3>1, <4>1, <2>3, <2>10
      <4>3. Rechecked(s, i)
        BY <3>1, <4>2, ClosedIsRechecked DEF Whole
      <4> QED BY <4>1, <4>2, <4>3, <2>12, <2>13, StillRechecked DEF Rechecked
    <3> QED BY <3>1, ClosedIsRechecked
  <2> QED BY <2>2, <2>13, <2>14, <2>15, <2>16, <2>17 DEF Whole
<1> QED BY <1>1, <1>2

LEMMA AssignWhole ==
  ASSUME NEW s, Whole(s), NEW id \in DOMAIN s.tasks
  PROVE  Whole(Assign(s, id))
<1> DEFINE status == s.tasks[id].status
           to == IF status = "OPEN" THEN "IN_PROGRESS" ELSE status
           e == EntryFor(id, "ASSIGNED", status, to, None)
<1>1. s.tasks[id] \in Task
  BY DEF Whole, Shaped
<1>2. status \in Statuses /\ to \in Statuses
  BY <1>1 DEF Task, Statuses
<1>3. e.from = status /\ e.to = to
  BY DEF EntryFor
<1>4. e.to # "CLOSED" \/ e.from = e.to
  BY <1>3
<1>5. Assign(s, id) = Moved(s, id, "ASSIGNED", to)
  BY Zenon DEF Assign
<1> HIDE DEF to
<1>6. Continues(s, Moved(s, id, "ASSIGNED", to), e)
  BY <1>2, MovedContinues DEF Whole, Sound
<1> HIDE DEF e
<1> QED BY <1>4, <1>5, <1>6, ContinuedWhole

LEMMA AttachWhole ==
  ASSUME NEW s, Whole(s), NEW id \in DOMAIN s.tasks, NEW es \in SUBSET Events
  PROVE  Whole(AttachEvidence(s, id, es))
<1> DEFINE s1 == [s EXCEPT !.tasks[id].evidence = @ \cup es]
           to == "READY_FOR_RECHECK"
           e == EntryFor(id, "EVIDENCE_ATTACHED", s1.tasks[id].status, to, None)
<1>1. Whole(s1)
  BY EvidenceWhole
<1>2. id \in DOMAIN s1.tasks
  BY DEF Whole, Shaped
<1>3. AttachEvidence(s, id, es) = Moved(s1, id, "EVIDENCE_ATTACHED", to)
  BY Zenon DEF AttachEvidence
<1> HIDE DEF s1
<1>4. Continues(s1, Moved(s1, id, "EVIDENCE_ATTACHED", to), e)
  BY <1>1, <1>2, MovedContinues DEF Whole, Sound, Statuses
<1>5. e.to # "CLOSED"
  BY DEF EntryFor
<1> HIDE DEF e
<1> QED BY <1>1, <1>3, <1>4, <1>5, ContinuedWhole

LEMMA RecheckNotEvaluated ==
  ASSUME NEW s, NEW id, NEW verdict, verdict.outcome = "not evaluated"
  PROVE  Recheck(s, id, verdict)
           = Logged(s, id, "RECHECKED", s.tasks[id].status, s.tasks[id].status, None)
BY Zenon DEF Recheck

LEMMA RecheckFailing ==
  ASSUME NEW s, NEW id, NEW verdict, verdict.outcome = "failing"
  PROVE  Recheck(s, id, verdict)
           = Moved(Logged(s, id, "RECHECKED", s.tasks[id].status, s.tasks[id].status,
                          verdict.met), id, "REOPENED", "REOPENED")
BY Zenon DEF Recheck

LEMMA RecheckClear ==
  ASSUME NEW s, NEW id, NEW verdict, verdict.outcome = "clear"
  PROVE  Recheck(s, id, verdict)
           = Moved(Moved(Logged(s, id, "RECHECKED", s.tasks[id].status, s.tasks[id].status,
                                verdict.met), id, "VERIFIED", "VERIFIED"),
                   id, "CLOSED", "CLOSED")
BY Zenon DEF Recheck

\* What the verdict writes in the log first moves nothing.
LEMMA AskedWhole ==
  ASSUME NEW s, Whole(s), NEW id \in DOMAIN s.tasks, NEW met
  PROVE  LET status == s.tasks[id].status
             s1 == Logged(s, id, "RECHECKED", status, status, met)
         IN Whole(s1) /\ Continues(s, s1, EntryFor(id, "RECHECKED", status, status, met))
<1> DEFINE status == s.tasks[id].status
           e == EntryFor(id, "RECHECKED", status, status, met)
           s1 == Logged(s, id, "RECHECKED", status, status, met)
<1>1. Continues(s, s1, e)
  BY LoggedContinues DEF Whole, Sound
<1>2. e.from = e.to
  BY DEF EntryFor
<1> HIDE DEF e, s1
<1>3. Whole(s1)
  BY <1>1, <1>2, ContinuedWhole
<1> QED BY <1>1, <1>3 DEF e, s1

LEMMA MovedWhole ==
  ASSUME NEW s, Whole(s), NEW id \in DOMAIN s.tasks, NEW what, what # "CREATED",
         NEW to \in Statuses, to # "CLOSED"
  PROVE  /\ Whole(Moved(s, id, what, to))
         /\ Continues(s, Moved(s, id, what, to),
                      EntryFor(id, what, s.tasks[id].status, to, None))
<1> DEFINE e == EntryFor(id, what, s.tasks[id].status, to, None)
<1>1. Continues(s, Moved(s, id, what, to), e)
  BY MovedContinues DEF Whole, Sound
<1>2. e.to # "CLOSED"
  BY DEF EntryFor
<1> HIDE DEF e
<1>3. Whole(Moved(s, id, what, to))
  BY <1>1, <1>2, ContinuedWhole
<1> QED BY <1>1, <1>3 DEF e

\* Re-checked, verified, closed: three entries in a row, nothing after them.
LEMMA ClosedWhole ==
  ASSUME NEW s, NEW s1, NEW s2, NEW s3, NEW e1, NEW e2, NEW e3, NEW id,
         Whole(s), Whole(s1), Whole(s2),
         Continues(s, s1, e1), Continues(s1, s2, e2), Continues(s2, s3, e3),
         e1.task = id, e2.task = id, e3.task = id,
         e1.what = "RECHECKED", e1.met # None, e2.what = "VERIFIED", e3.what = "CLOSED",
         s.tasks[id].evidence # {}
  PROVE  Whole(s3)
<1> DEFINE k == Place(s)
<1>1. Gains(s, s1, e1) /\ Gains(s1, s2, e2) /\ Gains(s2, s3, e3)
  BY DEF Continues
<1>2. k \in Nat /\ Place(s1) = k + 1 /\ Place(s2) = k + 2
  BY <1>1, AppendFacts DEF Place, Gains
<1>3. Sound(s3)
  BY ContinuedSound DEF Whole, Sound
<1>4. s1.log[k] = e1 /\ s2.log[k + 1] = e2 /\ s3.log[k + 2] = e3
  BY <1>1, <1>2, NewEntry
<1>5. s2.log[k] = e1 /\ s3.log[k] = e1 /\ s3.log[k + 1] = e2
  <2>1. \A i \in 1..k : s2.log[i] = s1.log[i]
    BY <1>1, <1>2, NewEntry
  <2>2. \A i \in 1..k + 1 : s3.log[i] = s2.log[i]
    BY <1>1, <1>2, NewEntry
  <2>3. k > 0
    BY <1>1, NewEntry
  <2> QED BY <1>2, <1>4, <2>1, <2>2, <2>3
<1>6. EntriesOf(s3, id) = EntriesOf(s, id) \cup {k, k + 1, k + 2}
  <2>1. EntriesOf(s1, id) = EntriesOf(s, id) \cup {k}
    BY <1>1, TaskEntries
  <2>2. EntriesOf(s2, id) = EntriesOf(s1, id) \cup {k + 1}
    BY <1>1, <1>2, TaskEntries
  <2>3. EntriesOf(s3, id) = EntriesOf(s2, id) \cup {k + 2}
    BY <1>1, <1>2, TaskEntries
  <2> QED BY <2>1, <2>2, <2>3
<1>7. \A i \in EntriesOf(s, id) : i \in Nat /\ i < k
  BY <1>1, OldEntries
<1>8. Rechecked(s3, id)
  <2>1. s3.tasks[id].evidence # {}
    BY DEF Continues
  <2> DEFINE n == k + 2
  <2>2. n \in EntriesOf(s3, id) /\ {n - 1, n - 2} \subseteq EntriesOf(s3, id)
    BY <1>2, <1>6
  <2>3. n - 1 = k + 1 /\ n - 2 = k
    BY <1>2
  <2>4. /\ s3.log[n].what = "CLOSED" /\ s3.log[n - 1].what = "VERIFIED"
        /\ s3.log[n - 2].what = "RECHECKED" /\ s3.log[n - 2].met # None
    BY <1>4, <1>5, <2>3
  <2>5. \A i \in EntriesOf(s3, id) : ~(i > n)
    BY <1>2, <1>6, <1>7
  <2> HIDE DEF n
  <2> QED BY <2>1, <2>2, <2>4, <2>5 DEF Rechecked
<1>9. ASSUME NEW i \in DOMAIN s3.tasks, s3.tasks[i].status = "CLOSED", i # id
      PROVE  Rechecked(s3, i)
  <2>1. i \in DOMAIN s2.tasks /\ s2.tasks[i] = s3.tasks[i]
    BY <1>9 DEF Continues
  <2>2. Rechecked(s2, i)
    BY <1>9, <2>1, ClosedIsRechecked DEF Whole
  <2> QED BY <1>1, <1>9, <2>1, <2>2, StillRechecked DEF Rechecked
<1>10. ClosedByRecheck(s3)
  BY <1>8, <1>9, ClosedIsRechecked
<1> QED BY <1>3, <1>10 DEF Whole, Sound

LEMMA RecheckWhole ==
  ASSUME NEW s, NEW id, NEW verdict,
         Whole(s), id \in DOMAIN s.tasks, s.tasks[id].evidence # {},
         verdict.outcome \in {"clear", "failing", "not evaluated"},
         verdict.met # None
  PROVE  Whole(Recheck(s, id, verdict))
<1> DEFINE status == s.tasks[id].status
           s1 == Logged(s, id, "RECHECKED", status, status, verdict.met)
           e1 == EntryFor(id, "RECHECKED", status, status, verdict.met)
           s2 == Moved(s1, id, "VERIFIED", "VERIFIED")
           e2 == EntryFor(id, "VERIFIED", s1.tasks[id].status, "VERIFIED", None)
           s3 == Moved(s2, id, "CLOSED", "CLOSED")
           e3 == EntryFor(id, "CLOSED", s2.tasks[id].status, "CLOSED", None)
<1>1. CASE verdict.outcome = "not evaluated"
  BY <1>1, RecheckNotEvaluated, AskedWhole
<1>2. Whole(s1) /\ Continues(s, s1, e1)
  BY AskedWhole
<1>3. id \in DOMAIN s1.tasks
  BY <1>2 DEF Continues
<1>4. CASE verdict.outcome = "failing"
  <2>1. Recheck(s, id, verdict) = Moved(s1, id, "REOPENED", "REOPENED")
    BY <1>4, RecheckFailing
  <2> HIDE DEF s1, e1
  <2> QED BY <1>2, <1>3, <2>1, MovedWhole DEF Statuses
<1>5. CASE verdict.outcome = "clear"
  <2>1. Recheck(s, id, verdict) = s3
    BY <1>5, RecheckClear
  <2>2. Whole(s2) /\ Continues(s1, s2, e2)
    <3> HIDE DEF s1, e1
    <3> QED BY <1>2, <1>3, MovedWhole DEF Statuses
  <2>3. id \in DOMAIN s2.tasks
    <3> HIDE DEF s1, s2, e1, e2
    <3> QED BY <1>3, <2>2 DEF Continues
  <2>4. Continues(s2, s3, e3)
    <3> HIDE DEF s2
    <3> QED BY <2>2, <2>3, MovedContinues DEF Whole, Sound, Statuses
  <2>5. /\ e1.task = id /\ e2.task = id /\ e3.task = id
        /\ e1.what = "RECHECKED" /\ e1.met # None
        /\ e2.what = "VERIFIED" /\ e3.what = "CLOSED"
    BY DEF EntryFor
  <2> HIDE DEF s1, s2, s3, e1, e2, e3
  <2> QED BY <1>2, <2>1, <2>2, <2>4, <2>5, ClosedWhole
<1> QED BY <1>1, <1>4, <1>5

-----------------------------------------------------------------------------
(* Every step keeps the invariant.                                         *)

\* What a request about to save makes of its copy.
LEMMA AnswerWhole ==
  ASSUME NEW t \in Threads, RequestSound(t), pc[t] = "save"
  PROVE  Whole(Answer(t))
<1> DEFINE s == copy[t]
           c == call[t]
<1>1. /\ Whole(s) /\ Asked(c)
      /\ c.what # "open" => c.task \in DOMAIN s.tasks
      /\ c.what = "recheck" => /\ s.tasks[c.task].evidence # {}
                              /\ judged[t].outcome \in {"clear", "failing", "not evaluated"}
                              /\ judged[t].met # None
  BY DEF RequestSound
<1>2. CASE c.what = "open"
  <2>1. Answer(t) = OpenForGap(s, c.gap)
    BY <1>2, Zenon DEF Answer
  <2> QED BY <1>1, <1>2, <2>1, OpenForGapWhole DEF Asked
<1>3. CASE c.what = "assign"
  <2>1. Answer(t) = Assign(s, c.task)
    BY <1>3, Zenon DEF Answer
  <2> QED BY <1>1, <1>3, <2>1, AssignWhole
<1>4. CASE c.what = "attach"
  <2>1. Answer(t) = AttachEvidence(s, c.task, c.evidence)
    BY <1>4, Zenon DEF Answer
  <2> QED BY <1>1, <1>4, <2>1, AttachWhole DEF Asked
<1>5. CASE c.what = "recheck"
  <2>1. Answer(t) = Recheck(s, c.task, judged[t])
    BY <1>5, Zenon DEF Answer
  <2> DEFINE verdict == judged[t]
             id == c.task
  <2>2. /\ Whole(s) /\ id \in DOMAIN s.tasks /\ s.tasks[id].evidence # {}
        /\ verdict.outcome \in {"clear", "failing", "not evaluated"}
        /\ verdict.met # None
    BY <1>1, <1>5
  <2> HIDE DEF s, id, verdict
  <2>3. Whole(Recheck(s, id, verdict))
    BY <2>2, RecheckWhole, Zenon
  <2> QED BY <2>1, <2>3, Zenon DEF s, id, verdict
<1> QED BY <1>1, <1>2, <1>3, <1>4, <1>5 DEF Asked

LEMMA NothingIsWhole == Whole(Nothing)
<1>1. Nothing.tasks = [id \in {} |-> None] /\ Nothing.log = <<>>
      /\ Nothing = [tasks |-> Nothing.tasks, log |-> Nothing.log]
  BY DEF Nothing
<1>2. DOMAIN Nothing.tasks = {} /\ DOMAIN Nothing.log = {}
      /\ Nothing.tasks \in [{} -> Task]
  BY <1>1
<1>3. IsSeq(Nothing.log)
  BY <1>1 DEF IsSeq
<1>4. IsFiniteSet({})
  BY FS_EmptySet
<1> QED BY <1>1, <1>2, <1>3, <1>4
        DEF Whole, Shaped, Numbered, Filed, HistoryIsUnbroken, ClosedByRecheck

LEMMA InitTasks == Init => TasksInv
<1> SUFFICES ASSUME Init PROVE TasksInv
  OBVIOUS
<1>1. pc = [t \in Threads |-> "idle"] /\ disk = Nothing
      /\ call = [t \in Threads |-> None] /\ copy = [t \in Threads |-> Nothing]
      /\ judged = [t \in Threads |-> None]
  BY DEF Init
<1>2. \A t \in Threads : RequestSound(t)
  BY <1>1 DEF RequestSound
<1> QED BY <1>1, <1>2, NothingIsWhole DEF TasksInv

\* A new request.
LEMMA AskTasks ==
  ASSUME TasksInv, NEW t \in Threads, NEW c, Ask(t, c), Asked(c)
  PROVE  TasksInv'
<1>1. /\ pc' = [pc EXCEPT ![t] = "load"] /\ call' = [call EXCEPT ![t] = c]
      /\ UNCHANGED <<disk, copy, judged>>
  BY DEF Ask
<1>2. ASSUME NEW u \in Threads PROVE RequestSound(u)'
  <2>1. CASE u = t
    BY <1>1, <2>1 DEF TasksInv, RequestSound
  <2>2. CASE u # t
    <3>1. /\ pc'[u] = pc[u] /\ call'[u] = call[u] /\ copy'[u] = copy[u]
          /\ judged'[u] = judged[u]
      BY <1>1, <2>2 DEF TasksInv
    <3> QED BY <3>1 DEF TasksInv, RequestSound
  <2> QED BY <2>1, <2>2
<1> QED BY <1>1, <1>2 DEF TasksInv

LEMMA OthersSound ==
  ASSUME TasksInv, NEW t \in Threads, NEW u \in Threads, u # t,
         pc'[u] = pc[u], call'[u] = call[u], copy'[u] = copy[u], judged'[u] = judged[u]
  PROVE  RequestSound(u)'
BY DEF TasksInv, RequestSound

LEMMA LoadTasks ==
  ASSUME TasksInv, NEW t \in Threads, Load(t)
  PROVE  TasksInv'
<1>1. pc[t] = "load" /\ UNCHANGED <<disk, judged>> /\ Asked(call[t]) /\ Whole(disk)
  BY DEF Load, TasksInv, RequestSound
<1>2. CASE call[t].what = "open" \/ call[t].task \in DOMAIN disk.tasks
  <2>1. /\ copy' = [copy EXCEPT ![t] = disk]
        /\ pc' = [pc EXCEPT ![t] = IF call[t].what = "recheck" THEN "judge" ELSE "save"]
        /\ call' = call
    BY <1>2 DEF Load
  <2>2. RequestSound(t)'
    <3>1. copy'[t] = disk /\ call'[t] = call[t]
      BY <2>1 DEF TasksInv
    <3>2. pc'[t] = IF call[t].what = "recheck" THEN "judge" ELSE "save"
      BY <2>1 DEF TasksInv
    <3>3. call[t].what # "open" => call[t].task \in DOMAIN disk.tasks
      BY <1>2
    <3> QED BY <1>1, <3>1, <3>2, <3>3 DEF RequestSound
  <2>3. ASSUME NEW u \in Threads, u # t PROVE RequestSound(u)'
    <3>1. /\ pc'[u] = pc[u] /\ call'[u] = call[u] /\ copy'[u] = copy[u]
          /\ judged'[u] = judged[u]
      BY <1>1, <2>1, <2>3 DEF TasksInv
    <3> QED BY <2>3, <3>1, OthersSound
  <2> QED BY <1>1, <2>1, <2>2, <2>3 DEF TasksInv
<1>3. CASE ~(call[t].what = "open" \/ call[t].task \in DOMAIN disk.tasks)
  <2>1. /\ pc' = [pc EXCEPT ![t] = "idle"] /\ call' = [call EXCEPT ![t] = None]
        /\ copy' = copy
    BY <1>3 DEF Load
  <2>2. RequestSound(t)'
    BY <2>1 DEF TasksInv, RequestSound
  <2>3. ASSUME NEW u \in Threads, u # t PROVE RequestSound(u)'
    <3>1. /\ pc'[u] = pc[u] /\ call'[u] = call[u] /\ copy'[u] = copy[u]
          /\ judged'[u] = judged[u]
      BY <1>1, <2>1, <2>3 DEF TasksInv
    <3> QED BY <2>3, <3>1, OthersSound
  <2> QED BY <1>1, <2>1, <2>2, <2>3 DEF TasksInv
<1> QED BY <1>2, <1>3

LEMMA JudgementSound ==
  ASSUME NEW r
  PROVE  /\ Judgement(r).outcome \in {"clear", "failing", "not evaluated"}
         /\ Judgement(r).met # None
<1>1. Judgement(r).met = Met(r, records) /\ Met(r, records) \in SUBSET Events
  BY DEF Judgement, Met, EventsOf
<1>2. Judgement(r).outcome \in {"clear", "failing", "not evaluated"}
  BY DEF Judgement
<1> QED BY <1>1, <1>2, TasksAssumption

LEMMA JudgeTasks ==
  ASSUME TasksInv, NEW t \in Threads, Judge(t)
  PROVE  TasksInv'
<1> DEFINE r == call[t].task[1]
           fit == records # None /\ copy[t].tasks[call[t].task].evidence # {}
                  /\ rules[r].certified
<1>1. pc[t] = "judge" /\ disk' = disk /\ call[t].what = "recheck"
      /\ Asked(call[t]) /\ Whole(copy[t]) /\ call[t].task \in DOMAIN copy[t].tasks
  BY DEF Judge, TasksInv, RequestSound
<1>2. CASE fit
  <2>1. /\ judged' = [judged EXCEPT ![t] = Judgement(r)]
        /\ pc' = [pc EXCEPT ![t] = "save"] /\ call' = call /\ copy' = copy
    BY <1>2 DEF Judge
  <2>2. RequestSound(t)'
    <3>1. pc'[t] = "save" /\ judged'[t] = Judgement(r)
      BY <2>1 DEF TasksInv
    <3>2. copy[t].tasks[call[t].task].evidence # {}
      BY <1>2
    <3> HIDE DEF r
    <3> QED BY <1>1, <2>1, <3>1, <3>2, JudgementSound DEF RequestSound
  <2>3. ASSUME NEW u \in Threads, u # t PROVE RequestSound(u)'
    <3>1. /\ pc'[u] = pc[u] /\ call'[u] = call[u] /\ copy'[u] = copy[u]
          /\ judged'[u] = judged[u]
      BY <2>1, <2>3 DEF TasksInv
    <3> QED BY <2>3, <3>1, OthersSound
  <2> QED BY <1>1, <2>1, <2>2, <2>3 DEF TasksInv
<1>3. CASE ~fit
  <2>1. /\ pc' = [pc EXCEPT ![t] = "idle"] /\ call' = [call EXCEPT ![t] = None]
        /\ copy' = [copy EXCEPT ![t] = Nothing] /\ judged' = judged
    BY <1>3 DEF Judge
  <2>2. RequestSound(t)'
    BY <2>1 DEF TasksInv, RequestSound
  <2>3. ASSUME NEW u \in Threads, u # t PROVE RequestSound(u)'
    <3>1. /\ pc'[u] = pc[u] /\ call'[u] = call[u] /\ copy'[u] = copy[u]
          /\ judged'[u] = judged[u]
      BY <2>1, <2>3 DEF TasksInv
    <3> QED BY <2>3, <3>1, OthersSound
  <2> QED BY <1>1, <2>1, <2>2, <2>3 DEF TasksInv
<1> QED BY <1>2, <1>3

LEMMA SaveTasks ==
  ASSUME TasksInv, NEW t \in Threads, Save(t)
  PROVE  TasksInv'
<1>1. /\ pc[t] = "save" /\ disk' = Answer(t)
      /\ pc' = [pc EXCEPT ![t] = "idle"] /\ call' = [call EXCEPT ![t] = None]
      /\ copy' = [copy EXCEPT ![t] = Nothing] /\ judged' = [judged EXCEPT ![t] = None]
  BY DEF Save
<1>2. Whole(disk')
  BY <1>1, AnswerWhole DEF TasksInv
<1>3. RequestSound(t)'
  BY <1>1 DEF TasksInv, RequestSound
<1>4. ASSUME NEW u \in Threads, u # t PROVE RequestSound(u)'
  <2>1. /\ pc'[u] = pc[u] /\ call'[u] = call[u] /\ copy'[u] = copy[u]
        /\ judged'[u] = judged[u]
    BY <1>1, <1>4 DEF TasksInv
  <2> QED BY <1>4, <2>1, OthersSound
<1> QED BY <1>1, <1>2, <1>3, <1>4 DEF TasksInv

LEMMA KeptTasks ==
  ASSUME TasksInv, UNCHANGED <<disk, pc, call, copy, judged>>
  PROVE  TasksInv'
BY DEF TasksInv, RequestSound

LEMMA RequestTasks ==
  ASSUME TasksInv, NEW t \in Threads, Request(t)
  PROVE  TasksInv'
<1>1. ASSUME NEW gap \in Gaps, AskOpen(t, gap) PROVE TasksInv'
  <2>1. Asked([what |-> "open", gap |-> gap])
    BY DEF Asked
  <2> QED BY <1>1, <2>1, AskTasks DEF AskOpen
<1>2. ASSUME NEW id, AskAssign(t, id) PROVE TasksInv'
  <2>1. Asked([what |-> "assign", task |-> id])
    BY DEF Asked
  <2> QED BY <1>2, <2>1, AskTasks DEF AskAssign
<1>3. ASSUME NEW id, AskRecheck(t, id) PROVE TasksInv'
  <2>1. Asked([what |-> "recheck", task |-> id])
    BY DEF Asked
  <2> QED BY <1>3, <2>1, AskTasks DEF AskRecheck
<1>4. ASSUME NEW id, NEW es \in SUBSET Events, AskAttach(t, id, es) PROVE TasksInv'
  <2>1. Asked([what |-> "attach", task |-> id, evidence |-> es])
    BY DEF Asked
  <2> QED BY <1>4, <2>1, AskTasks DEF AskAttach
<1> QED BY <1>1, <1>2, <1>3, <1>4, LoadTasks, JudgeTasks, SaveTasks DEF Request

LEMMA FirmTasks ==
  ASSUME Firm PROVE UNCHANGED <<disk, pc, call, copy, judged>>
<1>1. Changes => UNCHANGED <<disk, requests>>
  BY DEF Changes
<1>2. Assess => UNCHANGED <<disk, requests>>
  BY DEF Assess
<1>3. NextDay => UNCHANGED <<disk, requests>>
  BY DEF NextDay
<1>4. UNCHANGED <<disk, requests>>
  BY <1>1, <1>2, <1>3
     DEF Firm, Upload, MapItem, Dismiss, ClearEvidence, ChangeRule
<1> QED BY <1>4 DEF requests

LEMMA NextTasks == TasksInv /\ [Next]_vars => TasksInv'
<1> SUFFICES ASSUME TasksInv, [Next]_vars PROVE TasksInv'
  OBVIOUS
<1>1. CASE Firm
  BY <1>1, FirmTasks, KeptTasks
<1>2. CASE \E t \in Threads : Request(t)
  BY <1>2, RequestTasks
<1>3. CASE UNCHANGED vars
  BY <1>3, KeptTasks DEF vars, requests
<1> QED BY <1>1, <1>2, <1>3 DEF Next

\* Whichever requests overtake each other and write over one another's file,
\* what is left of the log accounts for where every task left on file is, and
\* for the re-check behind every closed one.
THEOREM HistoryAlwaysSound == Spec => []HistoryIsSound
<1>1. TasksInv => HistoryIsSound
  BY DEF TasksInv, Whole, HistoryIsSound
<1> QED BY InitTasks, NextTasks, <1>1, PTL DEF Spec

-----------------------------------------------------------------------------
(* A finding raised, and a task closed, while requests do not overlap.     *)

\* A task is filed under the rule its gap is about.
GapsFiled(s) == \A id \in DOMAIN s.tasks : RuleFor(s.tasks[id].gap) = id[1]

CopiesFiled ==
  /\ GapsFiled(disk)
  /\ \A t \in Threads : pc[t] \in {"judge", "save"} => GapsFiled(copy[t])

FirmTyped ==
  /\ rules \in [Rules -> [certified : BOOLEAN, edition : Nat, kind : Kinds]]
  /\ today \in Nat
  /\ IsSeq(runs)

\* A run found what the engine finds today on the same records, unless the
\* rule has changed since: then its edition is a later one.
RunSound(run) ==
  /\ \A p \in run.rules : p[1] \in Rules /\ p[2] \in Nat /\ p[2] <= rules[p[1]].edition
  /\ \A gap \in run.findings :
       /\ gap \in Gaps
       /\ <<RuleFor(gap), rules[RuleFor(gap)].edition>> \in run.rules
            => gap \in FindingsOf(RuleFor(gap), run.records)

Recorded == {runs[i] : i \in DOMAIN runs}
RunsSound == \A run \in Recorded : RunSound(run)

\* What a request that met no other knows is so.
Informed(t) ==
  /\ pc[t] # "idle" /\ call[t].what = "open" => call[t].gap \in Findings(records)
  /\ pc[t] \in {"judge", "save"} => copy[t] = disk
  /\ pc[t] = "save" /\ call[t].what = "recheck" => judged[t] = Judgement(call[t].task[1])

Solo ==
  alone =>
    /\ \A t, u \in Threads : pc[t] = "idle" \/ pc[u] = "idle" \/ t = u
    /\ \A t \in Threads : Informed(t)

LoopInv == TasksInv /\ FirmTyped /\ CopiesFiled /\ RunsSound /\ Solo

\* The last of a set of positions.
LEMMA MaxOf ==
  ASSUME NEW n \in Nat, NEW N \in SUBSET (1..n), N # {}
  PROVE  Max(N) \in N
<1> DEFINE Below == {n - m : m \in N}
<1>1. Below \in SUBSET Nat /\ Below # {}
  <2>1. PICK m \in N : TRUE
    OBVIOUS
  <2>2. n - m \in Below
    BY <2>1
  <2> QED BY <2>2
<1>2. PICK b \in Below : \A c \in Below : b <= c
  <2> HIDE DEF Below
  <2>1. PICK b \in Below : \A c \in Below : ~ (<<c, b>> \in OpToRel(<, Nat))
    BY <1>1, NatLessThanWellFounded, WFMin
  <2>2. \A c \in Below : ~ (c < b)
    BY <1>1, <2>1 DEF OpToRel
  <2> QED BY <1>1, <2>2
<1>3. PICK k \in N : b = n - k
  OBVIOUS
<1>4. ASSUME NEW m \in N PROVE k >= m
  <2>1. n - m \in Below
    OBVIOUS
  <2>2. n - k <= n - m
    BY <1>2, <1>3, <2>1
  <2> QED BY <2>2
<1>5. \E x \in N : \A y \in N : x >= y
  BY <1>4
<1>6. Max(N) \in N /\ \A m \in N : Max(N) >= m
  BY <1>5 DEF Max
<1> QED BY <1>6

LEMMA FindingIsOfItsRule ==
  ASSUME NEW r \in Rules, NEW file, NEW gap \in FindingsOf(r, file)
  PROVE  gap \in Gaps /\ RuleFor(gap) = r
<1>1. gap = r \/ (gap \in Events /\ RuleOf[gap] = r)
  BY DEF FindingsOf, EventsOf
<1> QED BY <1>1, TasksAssumption DEF Gaps, RuleFor

LEMMA FindingsAre ==
  ASSUME NEW file, NEW gap
  PROVE  gap \in Findings(file) <=>
           \E r \in Rules : rules[r].certified /\ gap \in FindingsOf(r, file)
BY DEF Findings, Certified

\* What the assessment of record finds against a rule in force is found today.
LEMMA AssessedIsFound ==
  ASSUME LoopInv, NEW gap \in Gaps, rules[RuleFor(gap)].certified, gap \in Assessed
  PROVE  gap \in Findings(records)
<1> DEFINE r == RuleFor(gap)
           i == Max(Matching)
<1>1. DOMAIN runs = 1..Len(runs) /\ Len(runs) \in Nat
  BY AppendFacts DEF LoopInv, FirmTyped
<1>2. Matching # {} /\ gap \in runs[i].findings
  BY DEF Assessed
<1>3. i \in DOMAIN runs /\ InputsOf(runs[i]) = Inputs
  <2>1. Matching \in SUBSET (1..Len(runs))
    BY <1>1 DEF Matching
  <2>2. Max(Matching) \in Matching
    BY <1>1, <1>2, <2>1, MaxOf
  <2> QED BY <2>2 DEF Matching
<1> HIDE DEF i
<1>4. /\ runs[i].rules = {<<q, rules[q].edition>> : q \in Certified}
      /\ runs[i].records = records
  BY <1>3 DEF InputsOf, Inputs
<1>5. r \in Rules
  BY TasksAssumption DEF RuleFor, Gaps
<1>6. <<r, rules[r].edition>> \in runs[i].rules
  BY <1>4, <1>5 DEF Certified
<1>7. RunSound(runs[i])
  BY <1>3 DEF LoopInv, RunsSound, Recorded
<1>8. gap \in FindingsOf(r, records)
  BY <1>2, <1>4, <1>6, <1>7 DEF RunSound
<1> QED BY <1>5, <1>8, FindingsAre

\* What a store becomes: no task goes, a task keeps its gap, new ones are opened
\* on the gap asked for and closed ones by a re-check that came out clear.
Yields(s, s2, c, verdict) ==
  /\ \A id \in DOMAIN s.tasks :
       /\ id \in DOMAIN s2.tasks /\ s2.tasks[id].gap = s.tasks[id].gap
       /\ s2.tasks[id].status = "CLOSED" /\ s.tasks[id].status # "CLOSED" =>
            c.what = "recheck" /\ c.task = id /\ verdict.outcome = "clear"
  /\ \A id \in DOMAIN s2.tasks \ DOMAIN s.tasks :
       /\ c.what = "open"
       /\ s2.tasks[id].gap = c.gap /\ id[1] = RuleFor(c.gap)

LEMMA OpenYields ==
  ASSUME NEW s, Whole(s), NEW c, c.what = "open", NEW verdict
  PROVE  Yields(s, OpenForGap(s, c.gap), c, verdict)
<1> DEFINE gap == c.gap
           id == NextId(s, RuleFor(gap))
           task == [gap |-> gap, status |-> "OPEN", evidence |-> {}]
           tasks == [i \in DOMAIN s.tasks \cup {id} |-> IF i = id THEN task ELSE s.tasks[i]]
<1>1. CASE Unfinished(s, gap) # {}
  <2>1. OpenForGap(s, gap) = s
    BY <1>1 DEF OpenForGap
  <2> QED BY <2>1 DEF Yields
<1>2. CASE Unfinished(s, gap) = {}
  <2>1. s = [tasks |-> s.tasks, log |-> s.log]
    BY DEF Whole, Shaped
  <2>2. [s EXCEPT !.tasks = [i \in DOMAIN @ \cup {id} |-> IF i = id THEN task ELSE @[i]]]
          = [tasks |-> tasks, log |-> s.log]
    BY <2>1, SMTT(30)
  <2>3. OpenForGap(s, gap)
          = Logged([tasks |-> tasks, log |-> s.log], id, "CREATED", None, "OPEN", None)
    BY <1>2, <2>2, Zenon DEF OpenForGap
  <2>4. OpenForGap(s, gap).tasks = tasks
    <3> HIDE DEF tasks, id
    <3>1. OpenForGap(s, gap) = [tasks |-> tasks, log |->
             Append(s.log, EntryFor(id, "CREATED", None, "OPEN", None))]
      BY <2>3, LoggedForm
    <3> QED BY <3>1
  <2>5. id[1] = RuleFor(gap)
    BY DEF NextId
  <2>6. id \notin DOMAIN s.tasks
    <3> DEFINE r == RuleFor(gap)
    <3>1. /\ IsFiniteSet(DOMAIN s.tasks)
          /\ \A i \in DOMAIN s.tasks : i[2] <= Cardinality(SameRule(s, i[1]))
      BY DEF Whole, Numbered
    <3>2. Cardinality(SameRule(s, r)) \in Nat
      BY <3>1, FS_Subset, FS_CardinalityType DEF SameRule
    <3>3. id = <<r, Cardinality(SameRule(s, r)) + 1>>
      BY DEF NextId, SameRule
    <3> QED BY <3>1, <3>2, <3>3
  <2> HIDE DEF id, task
  <2>7. /\ DOMAIN tasks = DOMAIN s.tasks \cup {id}
        /\ tasks[id] = task /\ \A i \in DOMAIN s.tasks : tasks[i] = s.tasks[i]
    BY <2>6
  <2> HIDE DEF tasks
  <2>8. task.gap = gap
    BY DEF task
  <2> QED BY <2>4, <2>5, <2>7, <2>8 DEF Yields
<1> QED BY <1>1, <1>2

\* The entries of one task say where it goes.
LEMMA ContinuesYields ==
  ASSUME NEW s, NEW s2, NEW e, Continues(s, s2, e), NEW c, NEW verdict,
         e.to = "CLOSED" /\ e.from # "CLOSED" =>
           c.what = "recheck" /\ c.task = e.task /\ verdict.outcome = "clear"
  PROVE  Yields(s, s2, c, verdict)
BY DEF Continues, Yields

LEMMA YieldsThen ==
  ASSUME NEW s, NEW s1, NEW s2, NEW c, NEW verdict,
         Yields(s, s1, c, verdict), Yields(s1, s2, c, verdict), DOMAIN s1.tasks = DOMAIN s.tasks
  PROVE  Yields(s, s2, c, verdict)
BY DEF Yields

LEMMA AssignYields ==
  ASSUME NEW s, Whole(s), NEW id \in DOMAIN s.tasks, NEW c, NEW verdict
  PROVE  Yields(s, Assign(s, id), c, verdict)
<1> DEFINE status == s.tasks[id].status
           to == IF status = "OPEN" THEN "IN_PROGRESS" ELSE status
           e == EntryFor(id, "ASSIGNED", status, to, None)
<1>1. s.tasks[id] \in Task
  BY DEF Whole, Shaped
<1>2. status \in Statuses /\ to \in Statuses
  BY <1>1 DEF Task, Statuses
<1>3. e.from = status /\ e.to = to
  BY DEF EntryFor
<1>4. ~ (e.to = "CLOSED" /\ e.from # "CLOSED")
  BY <1>3
<1>5. Assign(s, id) = Moved(s, id, "ASSIGNED", to)
  BY Zenon DEF Assign
<1> HIDE DEF to
<1>6. Continues(s, Moved(s, id, "ASSIGNED", to), e)
  BY <1>2, MovedContinues DEF Whole, Sound
<1> HIDE DEF e
<1> QED BY <1>4, <1>5, <1>6, ContinuesYields

LEMMA AttachYields ==
  ASSUME NEW s, Whole(s), NEW id \in DOMAIN s.tasks, NEW es \in SUBSET Events,
         NEW c, NEW verdict
  PROVE  Yields(s, AttachEvidence(s, id, es), c, verdict)
<1> DEFINE tasks == [s.tasks EXCEPT ![id].evidence = @ \cup es]
           s1 == [s EXCEPT !.tasks[id].evidence = @ \cup es]
           to == "READY_FOR_RECHECK"
           e == EntryFor(id, "EVIDENCE_ATTACHED", s1.tasks[id].status, to, None)
<1>1. Whole(s1)
  BY EvidenceWhole
<1>2. s = [tasks |-> s.tasks, log |-> s.log] /\ s.tasks \in [DOMAIN s.tasks -> Task]
  BY DEF Whole, Shaped
<1>3. s1.tasks = tasks
  BY <1>2
<1>4. /\ DOMAIN tasks = DOMAIN s.tasks
      /\ \A i \in DOMAIN s.tasks : /\ tasks[i].status = s.tasks[i].status
                                  /\ tasks[i].gap = s.tasks[i].gap
  BY <1>2 DEF Task
<1>5. AttachEvidence(s, id, es) = Moved(s1, id, "EVIDENCE_ATTACHED", to)
  BY Zenon DEF AttachEvidence
<1> HIDE DEF s1, tasks
<1>6. Yields(s, s1, c, verdict) /\ DOMAIN s1.tasks = DOMAIN s.tasks
  BY <1>3, <1>4 DEF Yields
<1>7. Continues(s1, Moved(s1, id, "EVIDENCE_ATTACHED", to), e)
  BY <1>1, <1>6, MovedContinues DEF Whole, Sound, Statuses
<1>8. e.to # "CLOSED"
  BY DEF EntryFor
<1> HIDE DEF e
<1>9. Yields(s1, Moved(s1, id, "EVIDENCE_ATTACHED", to), c, verdict)
  BY <1>7, <1>8, ContinuesYields
<1> QED BY <1>5, <1>6, <1>9, YieldsThen

LEMMA RecheckYields ==
  ASSUME NEW s, NEW c, NEW verdict,
         Whole(s), c.what = "recheck", c.task \in DOMAIN s.tasks,
         verdict.outcome \in {"clear", "failing", "not evaluated"}
  PROVE  Yields(s, Recheck(s, c.task, verdict), c, verdict)
<1> DEFINE id == c.task
           status == s.tasks[id].status
           s1 == Logged(s, id, "RECHECKED", status, status, verdict.met)
           e1 == EntryFor(id, "RECHECKED", status, status, verdict.met)
           s2 == Moved(s1, id, "VERIFIED", "VERIFIED")
           e2 == EntryFor(id, "VERIFIED", s1.tasks[id].status, "VERIFIED", None)
           s3 == Moved(s2, id, "CLOSED", "CLOSED")
           e3 == EntryFor(id, "CLOSED", s2.tasks[id].status, "CLOSED", None)
<1>1. CASE verdict.outcome = "not evaluated"
  <2> DEFINE e == EntryFor(id, "RECHECKED", status, status, None)
             s4 == Logged(s, id, "RECHECKED", status, status, None)
  <2>1. Recheck(s, id, verdict) = s4
    BY <1>1, RecheckNotEvaluated
  <2>2. Continues(s, s4, e)
    BY AskedWhole
  <2>3. e.from = e.to
    BY DEF EntryFor
  <2> HIDE DEF s4, e
  <2> QED BY <2>1, <2>2, <2>3, ContinuesYields
<1>2. Whole(s1) /\ Continues(s, s1, e1)
  BY AskedWhole
<1>3. id \in DOMAIN s1.tasks /\ DOMAIN s1.tasks = DOMAIN s.tasks
  BY <1>2 DEF Continues
<1>4. e1.from = e1.to
  BY DEF EntryFor
<1>5. Yields(s, s1, c, verdict)
  <2> HIDE DEF s1, e1
  <2> QED BY <1>2, <1>4, ContinuesYields
<1>6. CASE verdict.outcome = "failing"
  <2> DEFINE s4 == Moved(s1, id, "REOPENED", "REOPENED")
             e == EntryFor(id, "REOPENED", s1.tasks[id].status, "REOPENED", None)
  <2>1. Recheck(s, id, verdict) = s4
    BY <1>6, RecheckFailing
  <2>2. Continues(s1, s4, e)
    <3> HIDE DEF s1
    <3> QED BY <1>2, <1>3, MovedWhole DEF Statuses
  <2>3. e.to # "CLOSED"
    BY DEF EntryFor
  <2> HIDE DEF s1, s4, e
  <2>4. Yields(s1, s4, c, verdict)
    BY <2>2, <2>3, ContinuesYields
  <2> QED BY <1>3, <1>5, <2>1, <2>4, YieldsThen
<1>7. CASE verdict.outcome = "clear"
  <2>1. Recheck(s, id, verdict) = s3
    BY <1>7, RecheckClear
  <2>2. Whole(s2) /\ Continues(s1, s2, e2)
    <3> HIDE DEF s1
    <3> QED BY <1>2, <1>3, MovedWhole DEF Statuses
  <2>3. id \in DOMAIN s2.tasks /\ DOMAIN s2.tasks = DOMAIN s1.tasks
    <3> HIDE DEF s1, s2, e2
    <3> QED BY <1>3, <2>2 DEF Continues
  <2>4. Continues(s2, s3, e3)
    <3> HIDE DEF s2
    <3> QED BY <2>2, <2>3, MovedContinues DEF Whole, Sound, Statuses
  <2>5. e2.to # "CLOSED" /\ e3.task = id
    BY DEF EntryFor
  <2> HIDE DEF s1, s2, s3, e2, e3
  <2>6. Yields(s1, s2, c, verdict)
    BY <2>2, <2>5, ContinuesYields
  <2>7. Yields(s2, s3, c, verdict)
    BY <1>7, <2>4, <2>5, ContinuesYields
  <2>8. Yields(s, s2, c, verdict)
    BY <1>3, <1>5, <2>6, YieldsThen
  <2> QED BY <1>3, <2>1, <2>3, <2>7, <2>8, YieldsThen
<1> QED BY <1>1, <1>6, <1>7

LEMMA AnswerYields ==
  ASSUME NEW t \in Threads, RequestSound(t), pc[t] = "save"
  PROVE  Yields(copy[t], Answer(t), call[t], judged[t])
<1> DEFINE s == copy[t]
           c == call[t]
<1>1. /\ Whole(s) /\ Asked(c)
      /\ c.what # "open" => c.task \in DOMAIN s.tasks
      /\ c.what = "recheck" => judged[t].outcome \in {"clear", "failing", "not evaluated"}
  BY DEF RequestSound
<1>2. CASE c.what = "open"
  <2>1. Answer(t) = OpenForGap(s, c.gap)
    BY <1>2, Zenon DEF Answer
  <2> QED BY <1>1, <1>2, <2>1, OpenYields
<1>3. CASE c.what = "assign"
  <2>1. Answer(t) = Assign(s, c.task)
    BY <1>3, Zenon DEF Answer
  <2> QED BY <1>1, <1>3, <2>1, AssignYields
<1>4. CASE c.what = "attach"
  <2>1. Answer(t) = AttachEvidence(s, c.task, c.evidence)
    BY <1>4, Zenon DEF Answer
  <2> QED BY <1>1, <1>4, <2>1, AttachYields DEF Asked
<1>5. CASE c.what = "recheck"
  <2>1. Answer(t) = Recheck(s, c.task, judged[t])
    BY <1>5, Zenon DEF Answer
  <2> DEFINE verdict == judged[t]
  <2>2. /\ Whole(s) /\ c.what = "recheck" /\ c.task \in DOMAIN s.tasks
        /\ verdict.outcome \in {"clear", "failing", "not evaluated"}
    BY <1>1, <1>5
  <2> HIDE DEF s, c, verdict
  <2>3. Yields(s, Recheck(s, c.task, verdict), c, verdict)
    BY <2>2, RecheckYields, ZenonT(30)
  <2> QED BY <2>1, <2>3, Zenon DEF s, c, verdict
<1> QED BY <1>1, <1>2, <1>3, <1>4, <1>5 DEF Asked

\* Whatever a request makes of its copy, tasks stay under their rules.
LEMMA YieldsFiled ==
  ASSUME NEW s, NEW s2, NEW c, NEW verdict, Yields(s, s2, c, verdict), GapsFiled(s)
  PROVE  GapsFiled(s2)
BY DEF Yields, GapsFiled

\* A finding stays as days pass, until the rule or the records change.
LEMMA StillFound ==
  ASSUME FirmTyped, NEW r \in Rules, rules'[r] = rules[r], today' \in Nat, today <= today',
         NEW file, NEW gap \in FindingsOf(r, file)
  PROVE  gap \in FindingsOf(r, file)'
<1>1. Evaluated(r, file)' <=> Evaluated(r, file)
  BY DEF Evaluated, EventsOf
<1>2. EventsOf(r, file)' = EventsOf(r, file)
  BY DEF EventsOf
<1>3. ASSUME NEW e \in Events, Breached(e, file) PROVE Breached(e, file)'
  BY <1>3, TasksAssumption DEF Breached, FirmTyped
<1>4. Evaluated(r, file)
  BY DEF FindingsOf
<1>5. CASE EventsOf(r, file) = {}
  BY <1>1, <1>2, <1>4, <1>5 DEF FindingsOf
<1>6. CASE EventsOf(r, file) # {}
  <2>1. gap \in EventsOf(r, file) /\ gap \in Events /\ Breached(gap, file)
    BY <1>4, <1>6 DEF FindingsOf, EventsOf
  <2>2. Breached(gap, file)'
    BY <1>3, <2>1
  <2> QED BY <1>1, <1>2, <1>4, <1>6, <2>1, <2>2 DEF FindingsOf
<1> QED BY <1>5, <1>6

\* What of the firm the runs depend on.
LEMMA RunsStaySound ==
  ASSUME FirmTyped, FirmTyped', RunsSound, today <= today',
         \A q \in Rules : rules'[q] = rules[q] \/ rules'[q].edition > rules[q].edition,
         \A run \in Recorded' : run \in Recorded \/ RunSound(run)'
  PROVE  RunsSound'
<1> SUFFICES ASSUME NEW run \in Recorded' PROVE RunSound(run)'
  BY DEF RunsSound
<1>1. CASE RunSound(run)'
  BY <1>1
<1>2. CASE run \in Recorded
  <2>1. RunSound(run)
    BY <1>2 DEF RunsSound
  <2>2. \A q \in Rules : rules[q].edition \in Nat /\ rules'[q].edition \in Nat
    BY DEF FirmTyped
  <2>3. \A q \in Rules : rules[q].edition <= rules'[q].edition
    BY <2>2
  <2>4. ASSUME NEW p \in run.rules
        PROVE  p[1] \in Rules /\ p[2] \in Nat /\ p[2] <= rules'[p[1]].edition
    <3>1. p[1] \in Rules /\ p[2] \in Nat /\ p[2] <= rules[p[1]].edition
      BY <2>1 DEF RunSound
    <3>2. rules[p[1]].edition <= rules'[p[1]].edition
          /\ rules[p[1]].edition \in Nat /\ rules'[p[1]].edition \in Nat
      BY <2>2, <2>3, <3>1
    <3> QED BY <3>1, <3>2
  <2>5. ASSUME NEW gap \in run.findings,
               <<RuleFor(gap), rules'[RuleFor(gap)].edition>> \in run.rules
        PROVE  gap \in FindingsOf(RuleFor(gap), run.records)'
    <3> DEFINE r == RuleFor(gap)
               p == <<r, rules'[r].edition>>
    <3>1. gap \in Gaps
      BY <2>1 DEF RunSound
    <3>2. r \in Rules
      BY <3>1, TasksAssumption DEF RuleFor, Gaps
    <3>3. p[1] = r /\ p[2] = rules'[r].edition /\ p \in run.rules
      BY <2>5
    <3> HIDE DEF p
    <3>4. rules'[r].edition <= rules[r].edition
      BY <2>1, <3>3 DEF RunSound
    <3> HIDE DEF r
    <3>5. rules'[r] = rules[r]
      BY <2>2, <3>2, <3>4
    <3>6. gap \in FindingsOf(r, run.records)
      BY <2>1, <2>5, <3>5 DEF RunSound, r
    <3>7. today' \in Nat
      BY DEF FirmTyped
    <3> QED BY <3>2, <3>5, <3>6, <3>7, StillFound DEF r
  <2>6. \A gap \in run.findings : gap \in Gaps
    BY <2>1 DEF RunSound
  <2> QED BY <2>4, <2>5, <2>6 DEF RunSound
<1> QED BY <1>1, <1>2

LEMMA SameFindings ==
  ASSUME UNCHANGED <<rules, today, records>>
  PROVE  /\ Findings(records)' = Findings(records)
         /\ \A r : Judgement(r)' = Judgement(r)
<1>1. ASSUME NEW r, NEW file
      PROVE  /\ FindingsOf(r, file)' = FindingsOf(r, file)
             /\ Evaluated(r, file)' = Evaluated(r, file)
  BY DEF FindingsOf, Evaluated, EventsOf, Breached
<1>2. Findings(records)' = Findings(records)
  BY DEF Findings, Certified, FindingsOf, Evaluated, EventsOf, Breached
<1>3. ASSUME NEW r PROVE Judgement(r)' = Judgement(r)
  BY DEF Judgement, FindingsOf, Evaluated, EventsOf, Breached, Met
<1> QED BY <1>2, <1>3

LEMMA InitLoop == Init => LoopInv
<1> SUFFICES ASSUME Init PROVE LoopInv
  OBVIOUS
<1>1. /\ pc = [t \in Threads |-> "idle"] /\ disk = Nothing
      /\ runs = <<>> /\ today = 0
      /\ rules \in [Rules -> [certified : {TRUE}, edition : {0}, kind : Kinds \ {"unclear"}]]
  BY DEF Init
<1>2. TasksInv
  BY InitTasks
<1>3. FirmTyped
  <2>1. IsSeq(runs)
    BY <1>1 DEF IsSeq
  <2>2. rules \in [Rules -> [certified : BOOLEAN, edition : Nat, kind : Kinds]]
    <3>1. {TRUE} \subseteq BOOLEAN /\ {0} \subseteq Nat
      OBVIOUS
    <3>2. [certified : {TRUE}, edition : {0}, kind : Kinds \ {"unclear"}]
            \subseteq [certified : BOOLEAN, edition : Nat, kind : Kinds]
      BY <3>1
    <3> QED BY <1>1, <3>2
  <2> QED BY <1>1, <2>1, <2>2 DEF FirmTyped
<1>4. CopiesFiled
  BY <1>1 DEF CopiesFiled, GapsFiled, Nothing
<1>5. RunsSound
  BY <1>1 DEF RunsSound, Recorded
<1>6. Solo
  BY <1>1 DEF Solo, Informed
<1> QED BY <1>2, <1>3, <1>4, <1>5, <1>6 DEF LoopInv

\* What the firm, an officer or the calendar does is no request's doing.
LEMMA FirmLoop == LoopInv /\ Firm => LoopInv'
<1> SUFFICES ASSUME LoopInv, Firm PROVE LoopInv'
  OBVIOUS
<1>1. UNCHANGED <<disk, pc, call, copy, judged>>
  BY FirmTasks
<1>2. Overlaps
  BY DEF Firm, Upload, MapItem, Dismiss, ClearEvidence, ChangeRule, Changes, Assess, NextDay
<1>3. TasksInv'
  BY <1>1, KeptTasks DEF LoopInv
<1>4. CopiesFiled'
  BY <1>1 DEF LoopInv, CopiesFiled, GapsFiled
<1>5. Solo'
  <2>1. alone' => \A t \in Threads : pc'[t] = "idle"
    BY <1>1, <1>2 DEF Overlaps, Undisturbed
  <2> QED BY <2>1 DEF Solo, Informed
<1>6. FirmTyped /\ RunsSound
  BY DEF LoopInv
<1>7. CASE UNCHANGED <<rules, today, runs>>
  <2>1. FirmTyped'
    BY <1>6, <1>7 DEF FirmTyped
  <2>2. today <= today'
    BY <1>6, <1>7 DEF FirmTyped
  <2>3. Recorded' = Recorded
    BY <1>7 DEF Recorded
  <2>4. RunsSound'
    BY <1>6, <1>7, <2>1, <2>2, <2>3, RunsStaySound
  <2> QED BY <1>3, <1>4, <1>5, <2>1, <2>4 DEF LoopInv
<1>8. ASSUME NEW r \in Rules, NEW certified \in BOOLEAN, NEW kind \in Kinds,
             ChangeRule(r, certified, kind)
      PROVE  LoopInv'
  <2>1. /\ rules' = [rules EXCEPT ![r] = [certified |-> certified,
                                         edition |-> rules[r].edition + 1, kind |-> kind]]
        /\ UNCHANGED <<today, runs>>
    BY <1>8 DEF ChangeRule, Changes
  <2>2. rules[r].edition \in Nat
    BY <1>6 DEF FirmTyped
  <2>3. [certified |-> certified, edition |-> rules[r].edition + 1, kind |-> kind]
          \in [certified : BOOLEAN, edition : Nat, kind : Kinds]
    BY <2>2
  <2>4. rules' \in [Rules -> [certified : BOOLEAN, edition : Nat, kind : Kinds]]
    BY <1>6, <2>1, <2>3 DEF FirmTyped
  <2>5. FirmTyped'
    BY <1>6, <2>1, <2>4 DEF FirmTyped
  <2>6. today <= today'
    BY <1>6, <2>1 DEF FirmTyped
  <2>7. \A q \in Rules : rules'[q] = rules[q] \/ rules'[q].edition > rules[q].edition
    BY <1>6, <2>1, <2>2 DEF FirmTyped
  <2>8. Recorded' = Recorded
    BY <2>1 DEF Recorded
  <2>9. RunsSound'
    BY <1>6, <2>5, <2>6, <2>7, <2>8, RunsStaySound
  <2> QED BY <1>3, <1>4, <1>5, <2>5, <2>9 DEF LoopInv
<1>9. CASE NextDay
  <2>1. today' = today + 1 /\ UNCHANGED <<rules, runs>>
    BY <1>9 DEF NextDay
  <2>2. FirmTyped'
    BY <1>6, <2>1 DEF FirmTyped
  <2>3. today <= today'
    BY <1>6, <2>1 DEF FirmTyped
  <2>4. Recorded' = Recorded
    BY <2>1 DEF Recorded
  <2>5. RunsSound'
    BY <1>6, <2>1, <2>2, <2>3, <2>4, RunsStaySound
  <2> QED BY <1>3, <1>4, <1>5, <2>2, <2>5 DEF LoopInv
<1>10. CASE Assess
  <2>1. UNCHANGED <<rules, today, records>>
    BY <1>10 DEF Assess
  <2>2. PICK run : /\ runs' = Append(runs, run)
                   /\ run = [rules |-> Inputs[1], records |-> records,
                             findings |-> Findings(records)]
    BY <1>10 DEF Assess
  <2>3. /\ run.rules = {<<q, rules[q].edition>> : q \in Certified}
        /\ run.records = records /\ run.findings = Findings(records)
    BY <2>2 DEF Inputs
  <2>4. IsSeq(runs)
    BY <1>6 DEF FirmTyped
  <2>5. /\ IsSeq(runs') /\ DOMAIN runs = 1..Len(runs) /\ Len(runs) \in Nat
        /\ DOMAIN runs' = 1..Len(runs) + 1
        /\ \A i \in 1..Len(runs) : runs'[i] = runs[i]
        /\ runs'[Len(runs) + 1] = run
    BY <2>2, <2>4, AppendFacts
  <2>6. FirmTyped'
    BY <1>6, <2>1, <2>5 DEF FirmTyped
  <2>7. today <= today'
    BY <1>6, <2>1 DEF FirmTyped
  <2>8. \A old \in Recorded' : old \in Recorded \/ old = run
    BY <2>5 DEF Recorded
  <2>9. RunSound(run)'
    <3>1. ASSUME NEW p \in run.rules
          PROVE  p[1] \in Rules /\ p[2] \in Nat /\ p[2] <= rules'[p[1]].edition
      <4>1. PICK q \in Certified : p = <<q, rules[q].edition>>
        BY <2>3, <3>1
      <4>2. q \in Rules /\ rules[q].edition \in Nat /\ rules'[q].edition = rules[q].edition
        BY <1>6, <2>1 DEF Certified, FirmTyped
      <4> QED BY <4>1, <4>2
    <3>2. ASSUME NEW gap \in run.findings
          PROVE  gap \in Gaps /\ gap \in FindingsOf(RuleFor(gap), run.records)'
      <4>1. PICK r \in Rules : rules[r].certified /\ gap \in FindingsOf(r, records)
        BY <2>3, <3>2, FindingsAre
      <4>2. gap \in Gaps /\ RuleFor(gap) = r
        BY <4>1, FindingIsOfItsRule
      <4>3. gap \in FindingsOf(r, run.records)
        BY <2>3, <4>1
      <4>4. rules'[r] = rules[r] /\ today' \in Nat
        BY <2>1, <2>6 DEF FirmTyped
      <4>5. gap \in FindingsOf(r, run.records)'
        BY <1>6, <2>7, <4>3, <4>4, StillFound
      <4> QED BY <4>2, <4>5
    <3> QED BY <3>1, <3>2 DEF RunSound
  <2>10. RunsSound'
    BY <1>6, <2>1, <2>6, <2>7, <2>8, <2>9, RunsStaySound
  <2> QED BY <1>3, <1>4, <1>5, <2>6, <2>10 DEF LoopInv
<1>11. ASSUME \/ \E e \in Events, filing \in Filings, stated \in BOOLEAN :
                    Upload(e, filing, stated)
              \/ \E i \in DOMAIN queue : MapItem(i) \/ Dismiss(i)
              \/ ClearEvidence
       PROVE  UNCHANGED <<rules, today, runs>>
  BY <1>11 DEF Upload, MapItem, Dismiss, ClearEvidence, Changes, Reviewed
<1> QED BY <1>7, <1>8, <1>9, <1>10, <1>11 DEF Firm

\* The part of the invariant no request touches.
LEMMA RequestLeavesFirm ==
  ASSUME LoopInv, UNCHANGED firm
  PROVE  FirmTyped' /\ RunsSound'
<1>1. UNCHANGED <<rules, today, records, runs>> /\ FirmTyped /\ RunsSound
  BY DEF firm, LoopInv
<1>2. FirmTyped'
  BY <1>1 DEF FirmTyped
<1>3. today <= today'
  BY <1>1 DEF FirmTyped
<1>4. Recorded' = Recorded
  BY <1>1 DEF Recorded
<1> QED BY <1>1, <1>2, <1>3, <1>4, RunsStaySound

LEMMA StillInformed ==
  ASSUME UNCHANGED firm, disk' = disk, NEW u, Informed(u),
         pc'[u] = pc[u], call'[u] = call[u], copy'[u] = copy[u], judged'[u] = judged[u]
  PROVE  Informed(u)'
<1>1. Findings(records)' = Findings(records) /\ \A r : Judgement(r)' = Judgement(r)
  BY SameFindings DEF firm
<1> QED BY <1>1 DEF Informed

LEMMA AskLoop ==
  ASSUME LoopInv, NEW t \in Threads, NEW c, Ask(t, c), Asked(c),
         c.what = "open" => c.gap \in Findings(records)
  PROVE  LoopInv'
<1>1. /\ pc[t] = "idle" /\ Overlaps
      /\ pc' = [pc EXCEPT ![t] = "load"] /\ call' = [call EXCEPT ![t] = c]
      /\ UNCHANGED <<firm, disk, copy, judged>>
  BY DEF Ask
<1>2. TasksInv /\ TasksInv'
  BY AskTasks DEF LoopInv
<1>3. /\ pc'[t] = "load" /\ call'[t] = c
      /\ \A u \in Threads : u # t => pc'[u] = pc[u] /\ call'[u] = call[u]
  BY <1>1, <1>2 DEF TasksInv
<1>4. CopiesFiled'
  <2>1. GapsFiled(disk)'
    BY <1>1 DEF LoopInv, CopiesFiled, GapsFiled
  <2>2. ASSUME NEW u \in Threads, pc'[u] \in {"judge", "save"} PROVE GapsFiled(copy[u])'
    <3>1. pc[u] \in {"judge", "save"} /\ copy' = copy
      BY <1>1, <1>3, <2>2
    <3> QED BY <3>1 DEF LoopInv, CopiesFiled, GapsFiled
  <2> QED BY <2>1, <2>2 DEF CopiesFiled
<1>5. Solo'
  <2> SUFFICES ASSUME alone'
               PROVE  /\ \A u, v \in Threads : pc'[u] = "idle" \/ pc'[v] = "idle" \/ u = v
                      /\ \A u \in Threads : Informed(u)'
    BY DEF Solo
  <2>1. \A u \in Threads : pc[u] = "idle"
    BY <1>1 DEF Overlaps, Undisturbed
  <2>2. Informed(t)'
    <3>1. Findings(records)' = Findings(records)
      BY <1>1, SameFindings DEF firm
    <3> QED BY <1>3, <3>1 DEF Informed
  <2>3. \A u \in Threads : u # t => Informed(u)'
    BY <1>3, <2>1 DEF Informed
  <2> QED BY <1>3, <2>1, <2>2, <2>3
<1> QED BY <1>1, <1>2, <1>4, <1>5, RequestLeavesFirm DEF LoopInv

\* A step of a request that is under way already.
LEMMA BusyLoop ==
  ASSUME LoopInv, NEW t \in Threads, UNCHANGED <<firm, alone>>, TasksInv', pc[t] # "idle",
         \A u \in Threads : u # t => /\ pc'[u] = pc[u] /\ call'[u] = call[u]
                                     /\ copy'[u] = copy[u] /\ judged'[u] = judged[u],
         GapsFiled(disk)', pc'[t] \in {"judge", "save"} => GapsFiled(copy[t])',
         alone => Informed(t)'
  PROVE  LoopInv'
<1>1. CopiesFiled'
  <2>1. ASSUME NEW u \in Threads, u # t, pc'[u] \in {"judge", "save"}
        PROVE  GapsFiled(copy[u])'
    <3>1. pc[u] \in {"judge", "save"} /\ copy'[u] = copy[u]
      BY <2>1
    <3> QED BY <3>1 DEF LoopInv, CopiesFiled, GapsFiled
  <2> QED BY <2>1 DEF CopiesFiled
<1>2. Solo'
  <2> SUFFICES ASSUME alone'
               PROVE  /\ \A u, v \in Threads : pc'[u] = "idle" \/ pc'[v] = "idle" \/ u = v
                      /\ \A u \in Threads : Informed(u)'
    BY DEF Solo
  <2>1. alone
    OBVIOUS
  <2>2. \A u \in Threads : u # t => pc[u] = "idle"
    BY <2>1 DEF LoopInv, Solo
  <2>3. \A u \in Threads : u # t => pc'[u] = "idle"
    BY <2>2
  <2>4. \A u \in Threads : u # t => Informed(u)'
    BY <2>3 DEF Informed
  <2> QED BY <2>1, <2>3, <2>4
<1> QED BY <1>1, <1>2, RequestLeavesFirm DEF LoopInv

LEMMA LoadLoop ==
  ASSUME LoopInv, NEW t \in Threads, Load(t)
  PROVE  LoopInv'
<1>1. pc[t] = "load" /\ UNCHANGED <<firm, disk, judged, alone>> /\ TasksInv /\ TasksInv'
  BY LoadTasks DEF Load, LoopInv
<1>2. GapsFiled(disk) /\ GapsFiled(disk)'
  BY <1>1 DEF LoopInv, CopiesFiled, GapsFiled
<1>3. CASE call[t].what = "open" \/ call[t].task \in DOMAIN disk.tasks
  <2>1. /\ copy' = [copy EXCEPT ![t] = disk]
        /\ pc' = [pc EXCEPT ![t] = IF call[t].what = "recheck" THEN "judge" ELSE "save"]
        /\ call' = call
    BY <1>3 DEF Load
  <2>2. /\ copy'[t] = disk /\ call'[t] = call[t]
        /\ pc'[t] = IF call[t].what = "recheck" THEN "judge" ELSE "save"
    BY <1>1, <2>1 DEF TasksInv
  <2>3. \A u \in Threads : u # t => /\ pc'[u] = pc[u] /\ call'[u] = call[u]
                                    /\ copy'[u] = copy[u] /\ judged'[u] = judged[u]
    BY <1>1, <2>1 DEF TasksInv
  <2>4. GapsFiled(copy[t])'
    BY <1>2, <2>2 DEF GapsFiled
  <2>5. alone => Informed(t)'
    <3>1. alone => Informed(t)
      BY DEF LoopInv, Solo
    <3>2. Findings(records)' = Findings(records)
      BY <1>1, SameFindings DEF firm
    <3> QED BY <1>1, <2>2, <3>1, <3>2 DEF Informed
  <2> QED BY <1>1, <1>2, <2>3, <2>4, <2>5, BusyLoop
<1>4. CASE ~(call[t].what = "open" \/ call[t].task \in DOMAIN disk.tasks)
  <2>1. /\ pc' = [pc EXCEPT ![t] = "idle"] /\ call' = [call EXCEPT ![t] = None]
        /\ copy' = copy
    BY <1>4 DEF Load
  <2>2. pc'[t] = "idle"
    BY <1>1, <2>1 DEF TasksInv
  <2>3. \A u \in Threads : u # t => /\ pc'[u] = pc[u] /\ call'[u] = call[u]
                                    /\ copy'[u] = copy[u] /\ judged'[u] = judged[u]
    BY <1>1, <2>1 DEF TasksInv
  <2>4. Informed(t)'
    BY <2>2 DEF Informed
  <2> QED BY <1>1, <1>2, <2>2, <2>3, <2>4, BusyLoop
<1> QED BY <1>3, <1>4

LEMMA JudgeLoop ==
  ASSUME LoopInv, NEW t \in Threads, Judge(t)
  PROVE  LoopInv'
<1> DEFINE r == call[t].task[1]
           fit == records # None /\ copy[t].tasks[call[t].task].evidence # {}
                  /\ rules[r].certified
<1>1. pc[t] = "judge" /\ UNCHANGED <<firm, disk, alone>> /\ TasksInv /\ TasksInv'
  BY JudgeTasks DEF Judge, LoopInv
<1>2. GapsFiled(disk)' /\ GapsFiled(copy[t])
  BY <1>1 DEF LoopInv, CopiesFiled, GapsFiled
<1>3. CASE fit
  <2>1. /\ judged' = [judged EXCEPT ![t] = Judgement(r)]
        /\ pc' = [pc EXCEPT ![t] = "save"] /\ call' = call /\ copy' = copy
    BY <1>3 DEF Judge
  <2>2. /\ pc'[t] = "save" /\ judged'[t] = Judgement(r)
        /\ copy'[t] = copy[t] /\ call'[t] = call[t]
    BY <1>1, <2>1 DEF TasksInv
  <2>3. \A u \in Threads : u # t => /\ pc'[u] = pc[u] /\ call'[u] = call[u]
                                    /\ copy'[u] = copy[u] /\ judged'[u] = judged[u]
    BY <1>1, <2>1 DEF TasksInv
  <2>4. GapsFiled(copy[t])'
    BY <1>2, <2>2 DEF GapsFiled
  <2>5. alone => Informed(t)'
    <3>1. call[t].what = "recheck"
      BY <1>1 DEF TasksInv, RequestSound
    <3>2. alone => copy[t] = disk
      BY <1>1 DEF LoopInv, Solo, Informed
    <3>3. PICK q : q = call[t].task[1]
      OBVIOUS
    <3>4. Judgement(q)' = Judgement(q)
      BY <1>1, SameFindings DEF firm
    <3>5. Judgement(call[t].task[1])' = Judgement(q)'
      BY <2>2, <3>3 DEF Judgement
    <3> QED BY <1>1, <2>2, <3>1, <3>2, <3>3, <3>4, <3>5 DEF Informed
  <2> QED BY <1>1, <1>2, <2>3, <2>4, <2>5, BusyLoop
<1>4. CASE ~fit
  <2>1. /\ pc' = [pc EXCEPT ![t] = "idle"] /\ call' = [call EXCEPT ![t] = None]
        /\ copy' = [copy EXCEPT ![t] = Nothing] /\ judged' = judged
    BY <1>4 DEF Judge
  <2>2. pc'[t] = "idle"
    BY <1>1, <2>1 DEF TasksInv
  <2>3. \A u \in Threads : u # t => /\ pc'[u] = pc[u] /\ call'[u] = call[u]
                                    /\ copy'[u] = copy[u] /\ judged'[u] = judged[u]
    BY <1>1, <2>1 DEF TasksInv
  <2>4. Informed(t)'
    BY <2>2 DEF Informed
  <2> QED BY <1>1, <1>2, <2>2, <2>3, <2>4, BusyLoop
<1> QED BY <1>3, <1>4

LEMMA SaveLoop ==
  ASSUME LoopInv, NEW t \in Threads, Save(t)
  PROVE  LoopInv'
<1>1. /\ pc[t] = "save" /\ disk' = Answer(t)
      /\ pc' = [pc EXCEPT ![t] = "idle"] /\ call' = [call EXCEPT ![t] = None]
      /\ copy' = [copy EXCEPT ![t] = Nothing] /\ judged' = [judged EXCEPT ![t] = None]
      /\ UNCHANGED <<firm, alone>>
  BY DEF Save
<1>2. TasksInv /\ TasksInv'
  BY SaveTasks DEF LoopInv
<1>3. pc'[t] = "idle"
  BY <1>1, <1>2 DEF TasksInv
<1>4. \A u \in Threads : u # t => /\ pc'[u] = pc[u] /\ call'[u] = call[u]
                                  /\ copy'[u] = copy[u] /\ judged'[u] = judged[u]
  BY <1>1, <1>2 DEF TasksInv
<1>5. GapsFiled(disk)'
  <2>1. Yields(copy[t], Answer(t), call[t], judged[t])
    BY <1>1, <1>2, AnswerYields DEF TasksInv
  <2>2. GapsFiled(copy[t])
    BY <1>1 DEF LoopInv, CopiesFiled
  <2>3. GapsFiled(Answer(t))
    BY <2>1, <2>2, YieldsFiled
  <2> QED BY <1>1, <2>3 DEF GapsFiled
<1>6. Informed(t)'
  BY <1>3 DEF Informed
<1> QED BY <1>1, <1>2, <1>3, <1>4, <1>5, <1>6, BusyLoop

LEMMA RequestLoop ==
  ASSUME LoopInv, NEW t \in Threads, Request(t)
  PROVE  LoopInv'
<1>1. ASSUME NEW gap \in Gaps, AskOpen(t, gap) PROVE LoopInv'
  <2> DEFINE c == [what |-> "open", gap |-> gap]
  <2>1. Asked(c) /\ c.gap = gap
    BY DEF Asked
  <2>2. gap \in Findings(records)
    BY <1>1, AssessedIsFound DEF AskOpen
  <2>3. Ask(t, c)
    BY <1>1 DEF AskOpen
  <2> HIDE DEF c
  <2> QED BY <2>1, <2>2, <2>3, AskLoop
<1>2. ASSUME NEW id, AskAssign(t, id) PROVE LoopInv'
  <2> DEFINE c == [what |-> "assign", task |-> id]
  <2>1. Asked(c) /\ c.what # "open"
    BY DEF Asked
  <2>2. Ask(t, c)
    BY <1>2 DEF AskAssign
  <2> HIDE DEF c
  <2> QED BY <2>1, <2>2, AskLoop
<1>3. ASSUME NEW id, AskRecheck(t, id) PROVE LoopInv'
  <2> DEFINE c == [what |-> "recheck", task |-> id]
  <2>1. Asked(c) /\ c.what # "open"
    BY DEF Asked
  <2>2. Ask(t, c)
    BY <1>3 DEF AskRecheck
  <2> HIDE DEF c
  <2> QED BY <2>1, <2>2, AskLoop
<1>4. ASSUME NEW id, NEW es \in SUBSET Events, AskAttach(t, id, es) PROVE LoopInv'
  <2> DEFINE c == [what |-> "attach", task |-> id, evidence |-> es]
  <2>1. Asked(c) /\ c.what # "open"
    BY DEF Asked
  <2>2. Ask(t, c)
    BY <1>4 DEF AskAttach
  <2> HIDE DEF c
  <2> QED BY <2>1, <2>2, AskLoop
<1> QED BY <1>1, <1>2, <1>3, <1>4, LoadLoop, JudgeLoop, SaveLoop DEF Request

LEMMA KeptLoop ==
  ASSUME LoopInv, UNCHANGED vars PROVE LoopInv'
<1>1. UNCHANGED <<firm, disk, pc, call, copy, judged, alone>>
  BY DEF vars, requests
<1>2. TasksInv'
  BY <1>1, KeptTasks DEF LoopInv
<1>3. CopiesFiled'
  BY <1>1 DEF LoopInv, CopiesFiled, GapsFiled
<1>4. Solo'
  <2>1. alone => \A u \in Threads : Informed(u)
    BY DEF LoopInv, Solo
  <2>2. alone => \A u \in Threads : Informed(u)'
    BY <1>1, <2>1, StillInformed
  <2>3. alone => \A u, v \in Threads : pc[u] = "idle" \/ pc[v] = "idle" \/ u = v
    BY DEF LoopInv, Solo
  <2> QED BY <1>1, <2>2, <2>3 DEF Solo
<1> QED BY <1>1, <1>2, <1>3, <1>4, RequestLeavesFirm DEF LoopInv

LEMMA NextLoop == LoopInv /\ [Next]_vars => LoopInv'
<1> SUFFICES ASSUME LoopInv, [Next]_vars PROVE LoopInv'
  OBVIOUS
<1> QED BY FirmLoop, RequestLoop, KeptLoop DEF Next

\* Only a request that saves changes the file, and it saves what it yields.
LEMMA OnlySaves ==
  ASSUME LoopInv, [Next]_vars, alone
  PROVE  \/ disk' = disk
         \/ \E t \in Threads : /\ pc[t] = "save" /\ Informed(t)
                              /\ Yields(disk, disk', call[t], judged[t])
<1>1. CASE Firm
  BY <1>1, FirmTasks
<1>2. ASSUME NEW t \in Threads, Request(t), ~ Save(t) PROVE disk' = disk
  BY <1>2 DEF Request, AskOpen, AskAssign, AskRecheck, AskAttach, Ask, Load, Judge
<1>3. ASSUME NEW t \in Threads, Save(t)
      PROVE  pc[t] = "save" /\ Informed(t) /\ Yields(disk, disk', call[t], judged[t])
  <2>1. pc[t] = "save" /\ disk' = Answer(t)
    BY <1>3 DEF Save
  <2>2. Informed(t)
    BY DEF LoopInv, Solo
  <2>3. copy[t] = disk
    BY <2>1, <2>2 DEF Informed
  <2>4. Yields(copy[t], Answer(t), call[t], judged[t])
    BY <2>1, AnswerYields DEF LoopInv, TasksInv
  <2> QED BY <2>1, <2>2, <2>3, <2>4
<1>4. CASE UNCHANGED vars
  BY <1>4 DEF vars
<1> QED BY <1>1, <1>2, <1>3, <1>4 DEF Next

\* No task is raised on a finding the records or the rules have outgrown, and
\* that whatever was assessed, edited and cleared before, as long as requests do
\* not overlap.
THEOREM RaisedAlwaysInBreach == Spec => OpenedInBreach
<1>1. ASSUME LoopInv, [Next]_vars
      PROVE  alone => \A id \in Tasks' \ Tasks : disk'.tasks[id].gap \in Findings(records)
  <2> SUFFICES ASSUME alone, NEW id \in Tasks' \ Tasks
               PROVE  disk'.tasks[id].gap \in Findings(records)
    OBVIOUS
  <2>1. disk' # disk
    BY DEF Tasks
  <2>2. PICK t \in Threads : /\ pc[t] = "save" /\ Informed(t)
                            /\ Yields(disk, disk', call[t], judged[t])
    BY <1>1, <2>1, OnlySaves
  <2>3. call[t].what = "open" /\ disk'.tasks[id].gap = call[t].gap
    BY <2>2 DEF Yields, Tasks
  <2> QED BY <2>2, <2>3 DEF Informed
<1>2. LoopInv /\ [Next]_vars
        => [alone => \A id \in Tasks' \ Tasks : disk'.tasks[id].gap \in Findings(records)]_vars
  BY <1>1
<1> QED BY InitLoop, NextLoop, <1>2, PTL DEF Spec, OpenedInBreach

LEMMA ClearFindsNothing ==
  ASSUME NEW r, Judgement(r).outcome = "clear"
  PROVE  FindingsOf(r, records) = {}
<1>1. Judgement(r).outcome = IF ~Evaluated(r, records) THEN "not evaluated"
                             ELSE IF FindingsOf(r, records) # {} THEN "failing" ELSE "clear"
  BY DEF Judgement
<1> QED BY <1>1

\* No task is closed over a finding the engine still makes, as long as requests
\* do not overlap.
THEOREM ClosedNeverInBreach == Spec => NotClosedInBreach
<1>1. ASSUME LoopInv, [Next]_vars
      PROVE  alone => \A id \in Tasks :
               disk.tasks[id].status # "CLOSED" /\ disk'.tasks[id].status = "CLOSED"
                 => disk.tasks[id].gap \notin Findings(records)
  <2> SUFFICES ASSUME alone, NEW id \in Tasks, disk.tasks[id].status # "CLOSED",
                      disk'.tasks[id].status = "CLOSED",
                      disk.tasks[id].gap \in Findings(records)
               PROVE  FALSE
    OBVIOUS
  <2>1. PICK t \in Threads : /\ pc[t] = "save" /\ Informed(t)
                            /\ Yields(disk, disk', call[t], judged[t])
    BY <1>1, OnlySaves
  <2>2. call[t].what = "recheck" /\ call[t].task = id /\ judged[t].outcome = "clear"
    BY <2>1 DEF Yields, Tasks
  <2>3. judged[t] = Judgement(id[1])
    BY <2>1, <2>2 DEF Informed
  <2>4. FindingsOf(id[1], records) = {}
    BY <2>2, <2>3, ClearFindsNothing
  <2>5. PICK r \in Rules : disk.tasks[id].gap \in FindingsOf(r, records)
    BY FindingsAre
  <2>6. r = RuleFor(disk.tasks[id].gap)
    BY <2>5, FindingIsOfItsRule
  <2>7. RuleFor(disk.tasks[id].gap) = id[1]
    BY <1>1 DEF LoopInv, CopiesFiled, GapsFiled, Tasks
  <2> QED BY <2>4, <2>5, <2>6, <2>7
<1>2. LoopInv /\ [Next]_vars
        => [alone => \A id \in Tasks :
              disk.tasks[id].status # "CLOSED" /\ disk'.tasks[id].status = "CLOSED"
                => disk.tasks[id].gap \notin Findings(records)]_vars
  BY <1>1
<1> QED BY InitLoop, NextLoop, <1>2, PTL DEF Spec, NotClosedInBreach
=============================================================================
