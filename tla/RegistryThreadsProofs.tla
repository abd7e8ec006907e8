----------------------- MODULE RegistryThreadsProofs -----------------------
(***************************************************************************)
(* Proofs about RegistryThreads, for any finite number of threads and      *)
(* rules and however their calls interleave: that nothing is unrecorded    *)
(* (what an entry or a version holds besides its rule, status and number   *)
(* does not matter there), and that a call nobody overlaps is one          *)
(* transition of RuleLifecycle.                                            *)
(***************************************************************************)
EXTENDS RegistryThreads, FiniteSetTheorems, SequenceTheorems, TLAPS

IsSeq(s) == \E S : s \in Seq(S)

\* s is what t was at some time, if t only ever grows.
Starts(s, t) ==
  /\ IsSeq(s) /\ IsSeq(t)
  /\ Len(s) <= Len(t)
  /\ \A i \in 1..Len(s) : s[i] = t[i]

\* Every version is entered, as often as it is there.
Covered(vs, log) ==
  \A r \in Rules : \A s, n : Stored(vs, r, s, n) <= Entered(log, r, s, n)

\* The threads that have entered such a version and have yet to store it.
Waiting(r, s, n) ==
  {t \in Threads : /\ pc[t] = "push" /\ rule[t] = r
                   /\ Head(todo[t]).version.status = s
                   /\ Head(todo[t]).version.number = n}

Balanced ==
  \A r \in Rules : \A s, n :
    Stored(versions, r, s, n) + Cardinality(Waiting(r, s, n)) <= Entered(ledger, r, s, n)

Shape ==
  /\ versions = [r \in Rules |-> versions[r]] /\ \A r \in Rules : IsSeq(versions[r])
  /\ IsSeq(ledger)
  /\ pc \in [Threads -> Places]
  /\ rule = [t \in Threads |-> rule[t]] /\ todo = [t \in Threads |-> todo[t]]
  /\ \A t \in Threads : pc[t] # "idle" => rule[t] \in Rules
  /\ copy = [t \in Threads |-> copy[t]]
  /\ \A t \in Threads :
       copy[t] = [versions |-> copy[t].versions, ledger |-> copy[t].ledger]

\* What a save has collected: the versions were, and are entered in the ledger it
\* collects after them.
CopySound(t) ==
  /\ pc[t] \in {"entries", "lock", "write"} =>
       \A r \in Rules : Starts(copy[t].versions[r], versions[r])
  /\ pc[t] = "entries" => Covered(copy[t].versions, ledger)
  /\ pc[t] \in {"lock", "write"} =>
       Starts(copy[t].ledger, ledger) /\ Covered(copy[t].versions, copy[t].ledger)

DiskSound ==
  /\ \A r \in Rules : Starts(disk.versions[r], versions[r])
  /\ Starts(disk.ledger, ledger)
  /\ Covered(disk.versions, disk.ledger)

ThreadsInv == Shape /\ Balanced /\ (\A t \in Threads : CopySound(t)) /\ DiskSound

-----------------------------------------------------------------------------
(* Lists and counts.                                                       *)

LEMMA SeqFacts ==
  ASSUME NEW s, IsSeq(s)
  PROVE  Len(s) \in Nat /\ DOMAIN s = 1..Len(s)
<1>1. PICK S : s \in Seq(S)
  BY DEF IsSeq
<1> QED BY <1>1

LEMMA AppendFacts ==
  ASSUME NEW s, IsSeq(s), NEW e
  PROVE  /\ IsSeq(Append(s, e))
         /\ DOMAIN s = 1..Len(s) /\ Len(s) \in Nat
         /\ DOMAIN Append(s, e) = 1..Len(s) + 1
         /\ Len(Append(s, e)) = Len(s) + 1
         /\ \A i \in 1..Len(s) : Append(s, e)[i] = s[i]
         /\ Append(s, e)[Len(s) + 1] = e
<1>1. PICK S : s \in Seq(S)
  BY DEF IsSeq
<1>2. s \in Seq(S \cup {e}) /\ e \in S \cup {e}
  BY <1>1, SeqMonotonic
<1>3. Append(s, e) \in Seq(S \cup {e})
  BY <1>2
<1> QED BY <1>2, <1>3 DEF IsSeq

LEMMA StartsSelf == ASSUME NEW s, IsSeq(s) PROVE Starts(s, s)
BY SeqFacts DEF Starts

LEMMA StartsAppend ==
  ASSUME NEW s, NEW t, NEW e, Starts(s, t) PROVE Starts(s, Append(t, e))
<1>1. Len(s) \in Nat
  BY SeqFacts DEF Starts
<1>2. IsSeq(Append(t, e)) /\ Len(t) \in Nat /\ Len(Append(t, e)) = Len(t) + 1
      /\ \A i \in 1..Len(t) : Append(t, e)[i] = t[i]
  BY AppendFacts DEF Starts
<1> QED BY <1>1, <1>2 DEF Starts

LEMMA StartsIsPrefix ==
  ASSUME NEW s, NEW t, Starts(s, t) PROVE IsPrefix(s, t)
<1>1. PICK S : s \in Seq(S)
  BY DEF Starts, IsSeq
<1>2. Len(s) \in Nat /\ Len(s) \in Int /\ 1 \in Int
  BY <1>1
<1>3. \A i \in 1..Len(s) : s[i] \in S /\ t[i] = s[i]
  BY <1>1 DEF Starts
<1>4. SubSeq(s, 1, Len(s)) = s
  BY <1>1, SubSeqFull
<1>5. /\ SubSeq(t, 1, Len(s)) \in Seq(S)
      /\ Len(SubSeq(t, 1, Len(s))) = IF 1 <= Len(s) THEN Len(s) - 1 + 1 ELSE 0
      /\ \A i \in 1..Len(s) - 1 + 1 : SubSeq(t, 1, Len(s))[i] = t[1 + i - 1]
  BY <1>2, <1>3, SubSeqProperties
<1>6. SubSeq(t, 1, Len(s)) = s
  <2>1. Len(SubSeq(t, 1, Len(s))) = Len(s)
    BY <1>2, <1>5
  <2>2. \A i \in 1..Len(s) : SubSeq(t, 1, Len(s))[i] = s[i]
    BY <1>2, <1>3, <1>5
  <2> QED BY <1>1, <1>5, <2>1, <2>2, SeqEqual
<1> QED BY <1>4, <1>6 DEF IsPrefix, Starts

\* An entry counts where it belongs, and nowhere else.
LEMMA EnteredAppend ==
  ASSUME NEW log, IsSeq(log), NEW e, NEW r, NEW s, NEW n
  PROVE  /\ Entered(log, r, s, n) \in Nat
         /\ Entered(Append(log, e), r, s, n) =
              IF e.rule = r /\ e.to = s /\ e.number = n
                THEN Entered(log, r, s, n) + 1 ELSE Entered(log, r, s, n)
<1> DEFINE At(l) == {i \in DOMAIN l : l[i].rule = r /\ l[i].to = s /\ l[i].number = n}
           k == Len(log) + 1
<1>1. /\ DOMAIN log = 1..Len(log) /\ Len(log) \in Nat
      /\ DOMAIN Append(log, e) = 1..k
      /\ \A i \in 1..Len(log) : Append(log, e)[i] = log[i]
      /\ Append(log, e)[k] = e
  BY AppendFacts
<1>2. At(log) \in SUBSET (1..Len(log)) /\ k \notin At(log)
  BY <1>1
<1>3. IsFiniteSet(At(log))
  <2>1. IsFiniteSet(1..Len(log))
    BY <1>1, FS_Interval
  <2> QED BY <1>2, <2>1, FS_Subset
<1>4. Cardinality(At(log)) \in Nat
  BY <1>3, FS_CardinalityType
<1>5. CASE e.rule = r /\ e.to = s /\ e.number = n
  <2>1. At(Append(log, e)) = At(log) \cup {k}
    BY <1>1, <1>5
  <2>2. Cardinality(At(log) \cup {k}) = Cardinality(At(log)) + 1
    BY <1>2, <1>3, FS_AddElement
  <2> QED BY <1>4, <1>5, <2>1, <2>2 DEF Entered
<1>6. CASE ~(e.rule = r /\ e.to = s /\ e.number = n)
  <2>1. At(Append(log, e)) = At(log)
    BY <1>1, <1>6
  <2> QED BY <1>4, <1>6, <2>1 DEF Entered
<1> QED BY <1>5, <1>6

\* So does a version.
LEMMA StoredAppend ==
  ASSUME NEW vs, NEW new, NEW r, NEW v, NEW s, NEW n,
         IsSeq(vs[r]), new[r] = Append(vs[r], v)
  PROVE  Stored(new, r, s, n) =
           IF v.status = s /\ v.number = n
             THEN Stored(vs, r, s, n) + 1 ELSE Stored(vs, r, s, n)
<1> DEFINE At(l) == {i \in DOMAIN l : l[i].status = s /\ l[i].number = n}
           k == Len(vs[r]) + 1
<1>1. /\ DOMAIN vs[r] = 1..Len(vs[r]) /\ Len(vs[r]) \in Nat
      /\ DOMAIN new[r] = 1..k
      /\ \A i \in 1..Len(vs[r]) : new[r][i] = vs[r][i]
      /\ new[r][k] = v
  BY AppendFacts
<1>2. At(vs[r]) \in SUBSET (1..Len(vs[r])) /\ k \notin At(vs[r])
  BY <1>1
<1>3. IsFiniteSet(At(vs[r]))
  <2>1. IsFiniteSet(1..Len(vs[r]))
    BY <1>1, FS_Interval
  <2> QED BY <1>2, <2>1, FS_Subset
<1>4. CASE v.status = s /\ v.number = n
  <2>1. At(new[r]) = At(vs[r]) \cup {k}
    BY <1>1, <1>4
  <2>2. Cardinality(At(vs[r]) \cup {k}) = Cardinality(At(vs[r])) + 1
    BY <1>2, <1>3, FS_AddElement
  <2> QED BY <1>4, <2>1, <2>2 DEF Stored
<1>5. CASE ~(v.status = s /\ v.number = n)
  <2>1. At(new[r]) = At(vs[r])
    BY <1>1, <1>5
  <2> QED BY <1>5, <2>1 DEF Stored
<1> QED BY <1>4, <1>5

LEMMA StoredIsNat ==
  ASSUME NEW vs, NEW r, IsSeq(vs[r]), NEW s, NEW n
  PROVE  Stored(vs, r, s, n) \in Nat
<1> DEFINE at == {i \in DOMAIN vs[r] : vs[r][i].status = s /\ vs[r][i].number = n}
<1>1. at \in SUBSET (1..Len(vs[r])) /\ Len(vs[r]) \in Nat
  BY SeqFacts
<1>2. IsFiniteSet(1..Len(vs[r]))
  BY <1>1, FS_Interval
<1>3. Cardinality(at) \in Nat
  BY <1>1, <1>2, FS_Subset, FS_CardinalityType
<1> QED BY <1>3 DEF Stored

LEMMA CoveredAppend ==
  ASSUME NEW vs, NEW log, IsSeq(log), NEW e, Covered(vs, log),
         \A x \in Rules : IsSeq(vs[x])
  PROVE  Covered(vs, Append(log, e))
<1> SUFFICES ASSUME NEW r \in Rules, NEW s, NEW n
             PROVE  Stored(vs, r, s, n) <= Entered(Append(log, e), r, s, n)
  BY DEF Covered
<1>1. Stored(vs, r, s, n) \in Nat
  BY StoredIsNat
<1>2. Stored(vs, r, s, n) <= Entered(log, r, s, n)
  BY DEF Covered
<1> QED BY <1>1, <1>2, EnteredAppend

LEMMA WaitingIsFinite ==
  ASSUME NEW r, NEW s, NEW n
  PROVE  IsFiniteSet(Waiting(r, s, n)) /\ Cardinality(Waiting(r, s, n)) \in Nat
<1>1. Waiting(r, s, n) \in SUBSET Threads
  BY DEF Waiting
<1>2. IsFiniteSet(Waiting(r, s, n))
  BY <1>1, ThreadsAssumption, FS_Subset
<1> QED BY <1>2, FS_CardinalityType

\* What the registry holds is entered, waiting or not.
LEMMA MemoryCovered == ThreadsInv => Covered(versions, ledger)
<1> SUFFICES ASSUME ThreadsInv, NEW r \in Rules, NEW s, NEW n
             PROVE  Stored(versions, r, s, n) <= Entered(ledger, r, s, n)
  BY DEF Covered
<1>1. Stored(versions, r, s, n) \in Nat /\ Entered(ledger, r, s, n) \in Nat
  BY StoredIsNat, EnteredAppend DEF ThreadsInv, Shape
<1>2. Cardinality(Waiting(r, s, n)) \in Nat
  BY WaitingIsFinite
<1>3. Stored(versions, r, s, n) + Cardinality(Waiting(r, s, n)) <= Entered(ledger, r, s, n)
  BY DEF ThreadsInv, Balanced
<1> QED BY <1>1, <1>2, <1>3

-----------------------------------------------------------------------------
(* The steps.                                                              *)

\* A step that leaves registry and file alone, with nobody coming to the push or
\* leaving it, disturbs what the moving thread has collected at most.
LEMMA QuietStep ==
  ASSUME ThreadsInv, Shape', UNCHANGED <<memory, disk>>, NEW t \in Threads,
         \A u \in Threads \ {t} : /\ pc'[u] = pc[u] /\ rule'[u] = rule[u]
                                  /\ todo'[u] = todo[u] /\ copy'[u] = copy[u],
         pc[t] # "push" /\ pc'[t] # "push", CopySound(t)'
  PROVE  ThreadsInv'
<1>1. UNCHANGED <<versions, ledger, disk>>
  BY DEF memory
<1>2. \A r, s, n : Waiting(r, s, n)' = Waiting(r, s, n)
  BY DEF Waiting
<1>3. Balanced'
  BY <1>1, <1>2 DEF ThreadsInv, Balanced, Stored, Entered
<1>4. ASSUME NEW u \in Threads \ {t} PROVE CopySound(u)'
  BY <1>1, <1>4 DEF ThreadsInv, CopySound
<1>5. DiskSound'
  BY <1>1 DEF ThreadsInv, DiskSound
<1> QED BY <1>3, <1>4, <1>5 DEF ThreadsInv

LEMMA BeginStep ==
  ASSUME ThreadsInv, NEW t \in Threads, NEW r \in Rules, Begin(t, r) PROVE ThreadsInv'
<1>1. /\ pc[t] = "idle" /\ pc' = [pc EXCEPT ![t] = "length"]
      /\ rule' = [rule EXCEPT ![t] = r]
      /\ \E plan : todo' = [todo EXCEPT ![t] = plan]
      /\ UNCHANGED <<memory, disk, copy>>
  BY DEF Begin, Goes, files
<1>2. Shape'
  BY <1>1 DEF ThreadsInv, Shape, Places, memory
<1>3. CopySound(t)'
  BY <1>1 DEF CopySound, ThreadsInv, Shape
<1> QED BY <1>1, <1>2, <1>3, QuietStep DEF ThreadsInv, Shape

LEMMA ReadStep ==
  ASSUME ThreadsInv, NEW t \in Threads, ReadLength(t) \/ ReadHead(t) PROVE ThreadsInv'
<1>1. /\ pc[t] \in {"length", "head"}
      /\ \E to \in {"head", "append"} : pc' = [pc EXCEPT ![t] = to]
      /\ UNCHANGED <<memory, disk, copy, rule, todo>>
  BY DEF ReadLength, ReadHead, Goes, files
<1>2. Shape'
  BY <1>1 DEF ThreadsInv, Shape, Places, memory
<1>3. CopySound(t)'
  BY <1>1 DEF CopySound, ThreadsInv, Shape
<1> QED BY <1>1, <1>2, <1>3, QuietStep DEF ThreadsInv, Shape

\* The entry is made: one more is entered, and one more waits.
LEMMA AppendEntryStep ==
  ASSUME ThreadsInv, NEW t \in Threads, AppendEntry(t) PROVE ThreadsInv'
<1> DEFINE v == Head(todo[t]).version
<1>1. PICK e : ledger' = Append(ledger, e) /\ e.rule = rule[t]
               /\ e.to = v.status /\ e.number = v.number
  BY DEF AppendEntry
<1>2. /\ pc[t] = "append" /\ pc' = [pc EXCEPT ![t] = "push"]
      /\ UNCHANGED <<versions, disk, rule, todo, copy>>
  BY DEF AppendEntry, Goes, files
<1>3. IsSeq(ledger) /\ IsSeq(Append(ledger, e)) /\ pc \in [Threads -> Places]
      /\ \A r \in Rules : IsSeq(versions[r])
  BY AppendFacts DEF ThreadsInv, Shape
<1>4. Shape'
  BY <1>1, <1>2, <1>3 DEF ThreadsInv, Shape, Places
<1>5. Balanced'
  <2> SUFFICES ASSUME NEW r \in Rules, NEW s, NEW n
               PROVE  Stored(versions, r, s, n) + Cardinality(Waiting(r, s, n)')
                        <= Entered(Append(ledger, e), r, s, n)
    BY <1>1, <1>2 DEF Balanced
  <2>1. /\ Stored(versions, r, s, n) \in Nat /\ Cardinality(Waiting(r, s, n)) \in Nat
        /\ Entered(ledger, r, s, n) \in Nat
        /\ Stored(versions, r, s, n) + Cardinality(Waiting(r, s, n))
             <= Entered(ledger, r, s, n)
    BY <1>3, StoredIsNat, EnteredAppend, WaitingIsFinite DEF ThreadsInv, Balanced
  <2>2. t \notin Waiting(r, s, n)
    BY <1>2 DEF Waiting
  <2>3. CASE rule[t] = r /\ v.status = s /\ v.number = n
    <3>1. Waiting(r, s, n)' = Waiting(r, s, n) \cup {t}
      BY <1>2, <1>3, <2>3 DEF Waiting
    <3>2. Cardinality(Waiting(r, s, n)') = Cardinality(Waiting(r, s, n)) + 1
      BY <2>2, <3>1, WaitingIsFinite, FS_AddElement
    <3>3. Entered(Append(ledger, e), r, s, n) = Entered(ledger, r, s, n) + 1
      BY <1>1, <1>3, <2>3, EnteredAppend
    <3> QED BY <2>1, <3>2, <3>3
  <2>4. CASE ~(rule[t] = r /\ v.status = s /\ v.number = n)
    <3>1. Waiting(r, s, n)' = Waiting(r, s, n)
      BY <1>2, <1>3, <2>4 DEF Waiting
    <3>2. Entered(Append(ledger, e), r, s, n) = Entered(ledger, r, s, n)
      BY <1>1, <1>3, <2>4, EnteredAppend
    <3> QED BY <2>1, <3>1, <3>2
  <2> QED BY <2>3, <2>4
<1>6. ASSUME NEW u \in Threads PROVE CopySound(u)'
  <2>1. pc'[u] = pc[u] \/ pc'[u] = "push"
    BY <1>2, <1>3
  <2>2. copy'[u] = copy[u] /\ CopySound(u)
    BY <1>2 DEF ThreadsInv
  <2>3. CASE pc'[u] = "entries"
    <3>1. \A r \in Rules : IsSeq(copy[u].versions[r])
      BY <2>1, <2>2, <2>3 DEF CopySound, Starts
    <3>2. Covered(copy[u].versions, Append(ledger, e))
      BY <1>3, <2>1, <2>2, <2>3, <3>1, CoveredAppend DEF CopySound
    <3> QED BY <1>1, <1>2, <2>1, <2>2, <2>3, <3>2 DEF CopySound
  <2>4. CASE pc'[u] \in {"lock", "write"}
    <3>1. Starts(copy[u].ledger, Append(ledger, e))
      BY <2>1, <2>2, <2>4, StartsAppend DEF CopySound
    <3> QED BY <1>1, <1>2, <2>1, <2>2, <2>4, <3>1 DEF CopySound
  <2> QED BY <2>3, <2>4 DEF CopySound
<1>7. DiskSound'
  BY <1>1, <1>2, StartsAppend DEF ThreadsInv, DiskSound
<1> QED BY <1>4, <1>5, <1>6, <1>7 DEF ThreadsInv

\* The version is stored, and the thread no longer waits.
LEMMA PushStep ==
  ASSUME ThreadsInv, NEW t \in Threads, Push(t) PROVE ThreadsInv'
<1> DEFINE v == Head(todo[t]).version
           q == rule[t]
<1>1. /\ pc[t] = "push" /\ q \in Rules
      /\ versions' = [versions EXCEPT ![q] = Append(versions[q], v)]
      /\ \E to \in {"length", "rules"} : pc' = [pc EXCEPT ![t] = to]
      /\ \E rest : todo' = [todo EXCEPT ![t] = rest]
      /\ UNCHANGED <<ledger, disk, rule, copy>>
  BY DEF Push, files, ThreadsInv, Shape
<1>2. /\ IsSeq(ledger) /\ pc \in [Threads -> Places]
      /\ versions = [r \in Rules |-> versions[r]]
      /\ \A r \in Rules : IsSeq(versions[r])
      /\ todo = [u \in Threads |-> todo[u]]
  BY DEF ThreadsInv, Shape
<1>3. \A r \in Rules : IsSeq(versions'[r])
  BY <1>1, <1>2, AppendFacts
<1>4. Shape'
  BY <1>1, <1>2, <1>3, ZenonT(40) DEF ThreadsInv, Shape, Places
<1>5. Balanced'
  <2> SUFFICES ASSUME NEW r \in Rules, NEW s, NEW n
               PROVE  Stored(versions, r, s, n)' + Cardinality(Waiting(r, s, n)')
                        <= Entered(ledger, r, s, n)
    BY <1>1 DEF Balanced
  <2>1. /\ Stored(versions, r, s, n) \in Nat /\ Cardinality(Waiting(r, s, n)) \in Nat
        /\ Entered(ledger, r, s, n) \in Nat
        /\ Stored(versions, r, s, n) + Cardinality(Waiting(r, s, n))
             <= Entered(ledger, r, s, n)
    BY <1>2, StoredIsNat, EnteredAppend, WaitingIsFinite DEF ThreadsInv, Balanced
  <2>2. Stored(versions, r, s, n)' =
          IF q = r /\ v.status = s /\ v.number = n
            THEN Stored(versions, r, s, n) + 1 ELSE Stored(versions, r, s, n)
    <3>1. Stored(versions, r, s, n)' = Stored(versions', r, s, n)
      BY DEF Stored
    <3>2. CASE q = r
      <4>1. versions'[r] = Append(versions[r], v) /\ IsSeq(versions[r])
        BY <1>1, <1>2, <3>2
      <4> QED BY <3>1, <3>2, <4>1, StoredAppend
    <3>3. CASE q # r
      <4>1. versions'[r] = versions[r]
        BY <1>1, <1>2, <3>3
      <4> QED BY <3>3, <4>1 DEF Stored
    <3> QED BY <3>2, <3>3
  <2>3. CASE q = r /\ v.status = s /\ v.number = n
    <3>1. Waiting(r, s, n)' = Waiting(r, s, n) \ {t} /\ t \in Waiting(r, s, n)
      BY <1>1, <1>2, <2>3 DEF Waiting
    <3>2. Cardinality(Waiting(r, s, n)') = Cardinality(Waiting(r, s, n)) - 1
      BY <3>1, WaitingIsFinite, FS_RemoveElement
    <3> QED BY <2>1, <2>2, <2>3, <3>2
  <2>4. CASE ~(q = r /\ v.status = s /\ v.number = n)
    <3>1. Waiting(r, s, n)' = Waiting(r, s, n)
      BY <1>1, <1>2, <2>4 DEF Waiting
    <3> QED BY <2>1, <2>2, <2>4, <3>1
  <2> QED BY <2>3, <2>4
<1>6. \A s : \A r \in Rules : Starts(s, versions[r]) => Starts(s, versions'[r])
  BY <1>1, <1>2, StartsAppend
<1>7. ASSUME NEW u \in Threads PROVE CopySound(u)'
  <2>1. pc'[u] = pc[u] \/ pc'[u] \in {"length", "rules"}
    BY <1>1, <1>2
  <2>2. copy'[u] = copy[u] /\ CopySound(u)
    BY <1>1 DEF ThreadsInv
  <2> QED BY <1>1, <1>6, <2>1, <2>2 DEF CopySound
<1>8. DiskSound'
  BY <1>1, <1>6 DEF ThreadsInv, DiskSound
<1> QED BY <1>4, <1>5, <1>7, <1>8 DEF ThreadsInv

LEMMA CopyRulesStep ==
  ASSUME ThreadsInv, NEW t \in Threads, CopyRules(t) PROVE ThreadsInv'
<1>1. /\ pc[t] = "rules" /\ pc' = [pc EXCEPT ![t] = "entries"]
      /\ copy' = [copy EXCEPT ![t].versions = versions]
      /\ UNCHANGED <<memory, versions, ledger, disk, rule, todo>>
  BY DEF CopyRules, Goes, files, memory
<1>2. copy'[t] = [versions |-> versions, ledger |-> copy[t].ledger]
      /\ \A u \in Threads \ {t} : copy'[u] = copy[u]
  BY <1>1 DEF ThreadsInv, Shape
<1>3. Shape'
  BY <1>1, <1>2 DEF ThreadsInv, Shape, Places
<1>4. CopySound(t)'
  <2>1. \A r \in Rules : Starts(versions[r], versions[r])
    BY StartsSelf DEF ThreadsInv, Shape
  <2>2. pc'[t] = "entries" /\ copy'[t].versions = versions
    BY <1>1, <1>2 DEF ThreadsInv, Shape
  <2> QED BY <1>1, <2>1, <2>2, MemoryCovered DEF CopySound
<1> QED BY <1>1, <1>2, <1>3, <1>4, QuietStep DEF ThreadsInv, Shape

LEMMA CopyLedgerStep ==
  ASSUME ThreadsInv, NEW t \in Threads, CopyLedger(t) PROVE ThreadsInv'
<1>1. /\ pc[t] = "entries" /\ pc' = [pc EXCEPT ![t] = "lock"]
      /\ copy' = [copy EXCEPT ![t].ledger = ledger]
      /\ UNCHANGED <<memory, versions, ledger, disk, rule, todo>>
  BY DEF CopyLedger, Goes, files, memory
<1>2. copy'[t] = [versions |-> copy[t].versions, ledger |-> ledger]
      /\ \A u \in Threads \ {t} : copy'[u] = copy[u]
  BY <1>1 DEF ThreadsInv, Shape
<1>3. Shape'
  BY <1>1, <1>2 DEF ThreadsInv, Shape, Places
<1>4. CopySound(t)'
  <2>1. Starts(ledger, ledger)
    BY StartsSelf DEF ThreadsInv, Shape
  <2>2. /\ pc'[t] = "lock" /\ copy'[t].versions = copy[t].versions
        /\ copy'[t].ledger = ledger
    BY <1>1, <1>2 DEF ThreadsInv, Shape
  <2> QED BY <1>1, <2>1, <2>2 DEF CopySound, ThreadsInv
<1> QED BY <1>1, <1>2, <1>3, <1>4, QuietStep DEF ThreadsInv, Shape

LEMMA AcquireStep ==
  ASSUME ThreadsInv, NEW t \in Threads, Acquire(t) PROVE ThreadsInv'
<1>1. /\ pc[t] = "lock" /\ pc' = [pc EXCEPT ![t] = "write"]
      /\ UNCHANGED <<memory, versions, ledger, disk, rule, todo, copy>>
  BY DEF Acquire, Goes, memory
<1>2. Shape'
  BY <1>1 DEF ThreadsInv, Shape, Places
<1>3. CopySound(t)'
  BY <1>1 DEF CopySound, ThreadsInv, Shape
<1> QED BY <1>1, <1>2, <1>3, QuietStep DEF ThreadsInv, Shape

\* The file takes over what the save had collected.
LEMMA WriteStep ==
  ASSUME ThreadsInv, NEW t \in Threads, Write(t) PROVE ThreadsInv'
<1>1. /\ pc[t] = "write" /\ pc' = [pc EXCEPT ![t] = "unlock"] /\ disk' = copy[t]
      /\ UNCHANGED <<memory, versions, ledger, rule, todo, copy>>
  BY DEF Write, Goes, memory
<1>2. Shape'
  BY <1>1 DEF ThreadsInv, Shape, Places
<1>3. Balanced'
  <2>1. \A r, s, n : Waiting(r, s, n)' = Waiting(r, s, n)
    BY <1>1 DEF Waiting, ThreadsInv, Shape
  <2> QED BY <1>1, <2>1 DEF ThreadsInv, Balanced, Stored, Entered
<1>4. ASSUME NEW u \in Threads PROVE CopySound(u)'
  BY <1>1 DEF CopySound, ThreadsInv, Shape
<1>5. DiskSound'
  BY <1>1 DEF DiskSound, CopySound, ThreadsInv
<1> QED BY <1>2, <1>3, <1>4, <1>5 DEF ThreadsInv

LEMMA WriteFailsStep ==
  ASSUME ThreadsInv, NEW t \in Threads, WriteFails(t) PROVE ThreadsInv'
<1>1. /\ pc[t] = "write" /\ pc' = [pc EXCEPT ![t] = "unlock"]
      /\ UNCHANGED <<memory, versions, ledger, disk, rule, todo, copy>>
  BY DEF WriteFails, Goes, memory, files
<1>2. Shape'
  BY <1>1 DEF ThreadsInv, Shape, Places
<1>3. CopySound(t)'
  BY <1>1 DEF CopySound, ThreadsInv, Shape
<1> QED BY <1>1, <1>2, <1>3, QuietStep DEF ThreadsInv, Shape

LEMMA LeaveStep ==
  ASSUME ThreadsInv, NEW t \in Threads, GiveUp(t) \/ Release(t) PROVE ThreadsInv'
<1>1. /\ pc[t] \in {"lock", "unlock"} /\ pc' = [pc EXCEPT ![t] = "idle"]
      /\ copy' = [copy EXCEPT ![t] = NoCopy]
      /\ UNCHANGED <<memory, versions, ledger, disk, rule, todo>>
  BY DEF GiveUp, Release, Leaves, Goes, memory, files
<1>2. Shape'
  BY <1>1 DEF ThreadsInv, Shape, Places, NoCopy
<1>3. CopySound(t)'
  BY <1>1 DEF CopySound, ThreadsInv, Shape
<1> QED BY <1>1, <1>2, <1>3, QuietStep DEF ThreadsInv, Shape

LEMMA ThreadsStep == ThreadsInv /\ [Next]_vars => ThreadsInv'
<1> SUFFICES ASSUME ThreadsInv, [Next]_vars PROVE ThreadsInv'
  OBVIOUS
<1>1. CASE UNCHANGED vars
  <2>1. UNCHANGED <<versions, ledger, disk, pc, rule, todo, copy>>
    BY <1>1 DEF vars, memory, files, locals
  <2>2. Shape' /\ DiskSound' /\ \A t \in Threads : CopySound(t)'
    BY <2>1 DEF ThreadsInv, Shape, DiskSound, CopySound
  <2>3. \A r, s, n : Waiting(r, s, n)' = Waiting(r, s, n)
    BY <2>1 DEF Waiting
  <2>4. Balanced'
    BY <2>1, <2>3 DEF ThreadsInv, Balanced, Stored, Entered
  <2> QED BY <2>2, <2>4 DEF ThreadsInv
<1>2. ASSUME NEW t \in Threads, Continue(t) PROVE ThreadsInv'
  BY <1>2, ReadStep, AppendEntryStep, PushStep, CopyRulesStep, CopyLedgerStep, AcquireStep,
     WriteStep, WriteFailsStep, LeaveStep DEF Continue
<1> QED BY <1>1, <1>2, BeginStep DEF Next

-----------------------------------------------------------------------------
(* When the threads start.                                                 *)

LEMMA FunctionIsSeq ==
  ASSUME NEW S, NEW n \in Nat, NEW f \in [1..n -> S]
  PROVE  f \in Seq(S) /\ Len(f) = n /\ IsSeq(f)
<1>1. f \in Seq(S)
  BY SeqDef
<1> QED BY <1>1 DEF IsSeq

LEMMA OneAndTwo ==
  ASSUME NEW s, NEW a, NEW b
  PROVE  /\ s = <<a>> => IsSeq(s) /\ DOMAIN s = {1} /\ s[1] = a
         /\ s = <<a, b>> => IsSeq(s) /\ DOMAIN s = {1, 2} /\ s[1] = a /\ s[2] = b
<1>1. IsSeq(<<a>>) /\ IsSeq(<<a, b>>)
  <2>1. <<a>> \in Seq({a, b})
    OBVIOUS
  <2>2. <<a, b>> \in Seq({a, b})
    OBVIOUS
  <2> QED BY <2>1, <2>2 DEF IsSeq
<1>2. DOMAIN <<a>> = {1} /\ <<a>>[1] = a
  OBVIOUS
<1>3. DOMAIN <<a, b>> = {1, 2} /\ <<a, b>>[1] = a /\ <<a, b>>[2] = b
  <2>1. DOMAIN <<a, b>> = 1..2 /\ 1..2 = {1, 2}
    OBVIOUS
  <2> QED BY <2>1
<1> QED BY <1>1, <1>2, <1>3

\* A finite set listed is listed whole.
LEMMA ListedWhole ==
  ASSUME NEW S, IsFiniteSet(S)
  PROVE  /\ Cardinality(S) \in Nat
         /\ SetToSeq(S) \in [1..Cardinality(S) -> S]
         /\ \A x \in S : \E i \in 1..Cardinality(S) : SetToSeq(S)[i] = x
<1> DEFINE n == Cardinality(S)
           f == SetToSeq(S)
           image == {f[i] : i \in 1..n}
<1>1. n \in Nat /\ ExistsBijection(1..n, S)
  BY FS_CardinalityType
<1>2. \E g \in [1..n -> S] : IsInjective(g)
  BY <1>1 DEF ExistsBijection, Bijection, Injection, IsInjective
<1>3. f \in [1..n -> S] /\ IsInjective(f)
  BY <1>2 DEF SetToSeq
<1> HIDE DEF n, f
<1>4. f \in Bijection(1..n, image)
  BY <1>3 DEF Bijection, Injection, Surjection, IsInjective
<1>5. Cardinality(image) = n
  BY <1>1, <1>4, FS_CountingElements DEF ExistsBijection
<1>6. image \in SUBSET S
  BY <1>3
<1>7. image = S
  BY <1>5, <1>6, FS_Subset DEF n
<1> QED BY <1>1, <1>3, <1>7 DEF n, f

\* A rule's draft, and its signature if it has one, are among the opening acts.
LEMMA OpeningFacts ==
  ASSUME NEW body, NEW signed \in SUBSET Rules
  PROVE  LET acts == Opening(body, signed)
         IN /\ Len(acts) \in Nat /\ DOMAIN acts = 1..Len(acts)
            /\ Len(acts) <= 2 * Cardinality(Rules)
            /\ \A i \in DOMAIN acts :
                 acts[i][2].version.status \in {"PROPOSED", "CERTIFIED"}
            /\ \A r \in Rules : \E i \in DOMAIN acts :
                 acts[i] = <<r, Store("PROPOSED", Registry!Draft(body[r]))>>
            /\ \A r \in signed : \E i \in DOMAIN acts :
                 acts[i] = <<r, Store("CERTIFIED", Registry!Certified(Registry!Draft(body[r])))>>
<1> DEFINE n == Cardinality(Rules)
           m == Cardinality(signed)
           D(r) == <<r, Store("PROPOSED", Registry!Draft(body[r]))>>
           C(r) == <<r, Store("CERTIFIED", Registry!Certified(Registry!Draft(body[r])))>>
           drafts == [i \in 1..n |-> D(SetToSeq(Rules)[i])]
           signings == [i \in 1..m |-> C(SetToSeq(signed)[i])]
           S == {D(r) : r \in Rules} \cup {C(r) : r \in Rules}
           acts == drafts \o signings
<1>1. IsFiniteSet(Rules) /\ IsFiniteSet(signed)
  BY ThreadsAssumption, FS_Subset
<1>2. /\ n \in Nat /\ SetToSeq(Rules) \in [1..n -> Rules]
      /\ \A r \in Rules : \E i \in 1..n : SetToSeq(Rules)[i] = r
      /\ m \in Nat /\ SetToSeq(signed) \in [1..m -> signed]
      /\ \A r \in signed : \E i \in 1..m : SetToSeq(signed)[i] = r
  BY <1>1, ListedWhole
<1>3. Opening(body, signed) = acts
  BY DEF Opening
<1> HIDE DEF n, m, D, C
<1>4. drafts \in [1..n -> S] /\ signings \in [1..m -> S]
  BY <1>2
<1>5. /\ drafts \in Seq(S) /\ Len(drafts) = n
      /\ signings \in Seq(S) /\ Len(signings) = m
  <2> HIDE DEF drafts, signings, S
  <2> QED BY <1>2, <1>4, FunctionIsSeq
<1>5a. \A x \in S : x[2].version.status \in {"PROPOSED", "CERTIFIED"}
  <2>1. \A r : D(r)[2].version.status = "PROPOSED"
    BY DEF D, Store, Registry!Draft
  <2>2. \A r : C(r)[2].version.status = "CERTIFIED"
    BY DEF C, Store, Registry!Draft, Registry!Certified
  <2> QED BY <2>1, <2>2
<1>5b. m <= n
  BY ThreadsAssumption, FS_Subset DEF n, m
<1> HIDE DEF S
<1>6. /\ acts \in Seq(S) /\ Len(acts) = n + m
      /\ \A i \in 1..n + m : acts[i] = IF i <= n THEN drafts[i] ELSE signings[i - n]
  <2> HIDE DEF drafts, signings
  <2> QED BY <1>5, ConcatProperties
<1>7. DOMAIN acts = 1..n + m /\ n + m \in Nat
  BY <1>2, <1>6
<1>8. ASSUME NEW r \in Rules PROVE \E i \in DOMAIN acts : acts[i] = D(r)
  <2>1. PICK i \in 1..n : SetToSeq(Rules)[i] = r
    BY <1>2
  <2>2. i \in 1..n + m /\ i <= n
    BY <1>2
  <2>3. acts[i] = drafts[i] /\ drafts[i] = D(r)
    BY <1>6, <2>1, <2>2
  <2> QED BY <1>7, <2>2, <2>3
<1>9. ASSUME NEW r \in signed PROVE \E i \in DOMAIN acts : acts[i] = C(r)
  <2>1. PICK i \in 1..m : SetToSeq(signed)[i] = r
    BY <1>2
  <2>2. i + n \in 1..n + m /\ ~(i + n <= n) /\ (i + n) - n = i
    BY <1>2
  <2>3. acts[i + n] = signings[i] /\ signings[i] = C(r)
    BY <1>6, <2>1, <2>2
  <2> QED BY <1>7, <2>2, <2>3
<1>10. Len(acts) <= 2 * n
  BY <1>2, <1>6, <1>5b
<1>11. \A i \in DOMAIN acts : acts[i][2].version.status \in {"PROPOSED", "CERTIFIED"}
  <2> HIDE DEF acts, drafts, signings
  <2>1. \A i \in DOMAIN acts : acts[i] \in S
    BY <1>6, <1>7
  <2> QED BY <1>5a, <2>1
<1> HIDE DEF acts
<1> QED BY <1>3, <1>6, <1>7, <1>8, <1>9, <1>10, <1>11 DEF D, C, n

\* What is in a list is counted.
LEMMA EnteredAtLeastOnce ==
  ASSUME NEW log, IsSeq(log), NEW i \in DOMAIN log
  PROVE  /\ Entered(log, log[i].rule, log[i].to, log[i].number) \in Nat
         /\ Entered(log, log[i].rule, log[i].to, log[i].number) >= 1
<1> DEFINE at == {k \in DOMAIN log : /\ log[k].rule = log[i].rule /\ log[k].to = log[i].to
                                     /\ log[k].number = log[i].number}
<1>1. Len(log) \in Nat /\ DOMAIN log = 1..Len(log)
  BY SeqFacts
<1>2. IsFiniteSet(at)
  <2>1. IsFiniteSet(1..Len(log)) /\ at \in SUBSET (1..Len(log))
    BY <1>1, FS_Interval
  <2> QED BY <2>1, FS_Subset
<1>3. at # {}
  OBVIOUS
<1>4. Cardinality(at) \in Nat /\ Cardinality(at) # 0
  BY <1>2, <1>3, FS_EmptySet, FS_CardinalityType
<1> QED BY <1>4 DEF Entered

LEMMA ThreadsInitInv == Init => ThreadsInv
<1> SUFFICES ASSUME Init PROVE ThreadsInv
  OBVIOUS
<1>1. PICK body \in [Rules -> Bodies], signed \in SUBSET Rules :
        LET acts == Opening(body, signed)
        IN /\ versions = [r \in Rules |->
                LET draft == Registry!Draft(body[r])
                IN IF r \in signed THEN <<draft, Registry!Certified(draft)>> ELSE <<draft>>]
           /\ ledger = [i \in DOMAIN acts |-> OpeningEntry(i, acts)]
           /\ disk = [versions |-> versions, ledger |-> ledger]
           /\ pc = [t \in Threads |-> "idle"]
           /\ rule = [t \in Threads |-> SetToSeq(Rules)[1]]
           /\ todo = [t \in Threads |-> <<>>]
           /\ copy = [t \in Threads |-> NoCopy]
  BY DEF Init
<1> DEFINE acts == Opening(body, signed)
           draft(r) == Registry!Draft(body[r])
<1>2. /\ Len(acts) \in Nat /\ DOMAIN acts = 1..Len(acts)
      /\ \A r \in Rules : \E i \in DOMAIN acts :
           acts[i] = <<r, Store("PROPOSED", draft(r))>>
      /\ \A r \in signed : \E i \in DOMAIN acts :
           acts[i] = <<r, Store("CERTIFIED", Registry!Certified(draft(r)))>>
  BY OpeningFacts
<1> HIDE DEF acts
<1>3. ledger = [i \in DOMAIN acts |-> OpeningEntry(i, acts)]
  BY <1>1 DEF acts
<1>4. \A i \in DOMAIN acts : /\ ledger[i].rule = acts[i][1]
                             /\ ledger[i].to = acts[i][2].version.status
                             /\ ledger[i].number = acts[i][2].version.number
  BY <1>3 DEF OpeningEntry
<1>5. IsSeq(ledger) /\ DOMAIN ledger = DOMAIN acts
  <2>1. ledger \in [1..Len(acts) -> {OpeningEntry(i, acts) : i \in DOMAIN acts}]
    BY <1>2, <1>3
  <2> QED BY <1>2, <1>3, <2>1, FunctionIsSeq
<1>6. \A r \in Rules :
        /\ draft(r).status = "PROPOSED"
        /\ Registry!Certified(draft(r)).status = "CERTIFIED"
        /\ Registry!Certified(draft(r)).number = draft(r).number
  BY DEF Registry!Draft, Registry!Certified
<1>7. \A r \in Rules :
        versions[r] = IF r \in signed THEN <<draft(r), Registry!Certified(draft(r))>>
                                      ELSE <<draft(r)>>
  BY <1>1
<1> DEFINE signature(r) == Registry!Certified(draft(r))
<1>8. ASSUME NEW r \in Rules
      PROVE  /\ IsSeq(versions[r])
             /\ DOMAIN versions[r] = IF r \in signed THEN {1, 2} ELSE {1}
             /\ versions[r][1] = draft(r)
             /\ r \in signed => versions[r][2] = signature(r)
  <2> HIDE DEF draft, signature
  <2>1. CASE r \in signed
    <3>1. PICK a, b : a = draft(r) /\ b = signature(r) /\ versions[r] = <<a, b>>
      BY <1>7, <2>1 DEF signature
    <3>2. /\ IsSeq(versions[r]) /\ DOMAIN versions[r] = {1, 2}
          /\ versions[r][1] = a /\ versions[r][2] = b
      BY <3>1, OneAndTwo
    <3> QED BY <2>1, <3>1, <3>2
  <2>2. CASE r \notin signed
    <3>1. versions[r] = <<draft(r)>>
      BY <1>7, <2>2
    <3> QED BY <2>2, <3>1, OneAndTwo
  <2> QED BY <2>1, <2>2
<1> HIDE DEF draft
<1>9. \A r \in Rules : Entered(ledger, r, "PROPOSED", draft(r).number) \in Nat \ {0}
  <2> SUFFICES ASSUME NEW r \in Rules
               PROVE  Entered(ledger, r, "PROPOSED", draft(r).number) \in Nat \ {0}
    OBVIOUS
  <2>1. PICK i \in DOMAIN acts : acts[i] = <<r, Store("PROPOSED", draft(r))>>
    BY <1>2
  <2>2. /\ ledger[i].rule = r /\ ledger[i].to = "PROPOSED"
        /\ ledger[i].number = draft(r).number
    BY <1>4, <1>6, <2>1 DEF Store
  <2> QED BY <1>5, <2>2, EnteredAtLeastOnce
<1>10. \A r \in signed : Entered(ledger, r, "CERTIFIED", draft(r).number) \in Nat \ {0}
  <2> SUFFICES ASSUME NEW r \in signed
               PROVE  Entered(ledger, r, "CERTIFIED", draft(r).number) \in Nat \ {0}
    OBVIOUS
  <2>1. PICK i \in DOMAIN acts :
          acts[i] = <<r, Store("CERTIFIED", Registry!Certified(draft(r)))>>
    BY <1>2
  <2>2. /\ ledger[i].rule = r /\ ledger[i].to = "CERTIFIED"
        /\ ledger[i].number = draft(r).number
    BY <1>4, <1>6, <2>1 DEF Store
  <2> QED BY <1>5, <2>2, EnteredAtLeastOnce
<1>11. Covered(versions, ledger)
  <2> SUFFICES ASSUME NEW r \in Rules, NEW s, NEW n
               PROVE  Stored(versions, r, s, n) <= Entered(ledger, r, s, n)
    BY DEF Covered
  <2> DEFINE at == {i \in DOMAIN versions[r] :
                      versions[r][i].status = s /\ versions[r][i].number = n}
  <2>1. Stored(versions, r, s, n) = Cardinality(at)
    BY DEF Stored
  <2>2. Entered(ledger, r, s, n) \in Nat
    BY <1>5, EnteredAppend
  <2>3. CASE s = "PROPOSED" /\ n = draft(r).number
    <3>1. at = {1}
      BY <1>6, <1>8, <2>3
    <3>2. Stored(versions, r, s, n) = Cardinality({1})
      BY <2>1, <3>1
    <3>3. Entered(ledger, r, s, n) \in Nat \ {0}
      BY <1>9, <2>3
    <3> QED BY <3>2, <3>3, FS_Singleton
  <2>4. CASE s = "CERTIFIED" /\ n = draft(r).number /\ r \in signed
    <3>1. at = {2}
      BY <1>6, <1>8, <2>4
    <3>2. Stored(versions, r, s, n) = Cardinality({2})
      BY <2>1, <3>1
    <3>3. Entered(ledger, r, s, n) \in Nat \ {0}
      BY <1>10, <2>4
    <3>4. Cardinality({2}) = 1
      BY FS_Singleton
    <3> QED BY <3>2, <3>3, <3>4
  <2>5. CASE /\ ~(s = "PROPOSED" /\ n = draft(r).number)
             /\ ~(s = "CERTIFIED" /\ n = draft(r).number /\ r \in signed)
    <3>1. at = {}
      BY <1>6, <1>8, <2>5
    <3>2. Stored(versions, r, s, n) = Cardinality({})
      BY <2>1, <3>1
    <3> QED BY <2>2, <3>2, FS_EmptySet
  <2> QED BY <2>3, <2>4, <2>5
<1>12. Shape
  BY <1>1, <1>5, <1>8 DEF Shape, Places, NoCopy
<1>13. Balanced
  <2> SUFFICES ASSUME NEW r \in Rules, NEW s, NEW n
               PROVE  Stored(versions, r, s, n) + Cardinality(Waiting(r, s, n))
                        <= Entered(ledger, r, s, n)
    BY DEF Balanced
  <2>1. Waiting(r, s, n) = {}
    BY <1>1 DEF Waiting
  <2>2. Stored(versions, r, s, n) \in Nat
    BY <1>8, StoredIsNat
  <2>3. Stored(versions, r, s, n) + 0 <= Entered(ledger, r, s, n)
    BY <1>11, <2>2 DEF Covered
  <2> QED BY <2>1, <2>3, FS_EmptySet
<1>14. \A t \in Threads : CopySound(t)
  BY <1>1 DEF CopySound
<1>15. DiskSound
  <2>1. disk.versions = versions /\ disk.ledger = ledger
    BY <1>1
  <2> QED BY <1>5, <1>8, <1>11, <2>1, StartsSelf DEF DiskSound
<1> QED BY <1>12, <1>13, <1>14, <1>15 DEF ThreadsInv

\* However many threads certify, reject and edit the rules of one Workbench at once,
\* every version in memory and in rules.json has its ledger entry, and the file is
\* something the registry once was.
THEOREM StoreAlwaysRecorded == Spec => []StoreIsSound
<1>1. ThreadsInv => NothingUnrecorded
  BY MemoryCovered DEF ThreadsInv, DiskSound, Covered, NothingUnrecorded, Recorded
<1>2. ThreadsInv => StoreIsPast
  BY StartsIsPrefix DEF ThreadsInv, DiskSound, StoreIsPast
<1>3. ThreadsInv => StoreIsSound
  BY <1>1, <1>2 DEF StoreIsSound
<1> QED BY <1>3, ThreadsInitInv, ThreadsStep, PTL DEF Spec

-----------------------------------------------------------------------------
(* A call nobody overlaps is one transition of RuleLifecycle.              *)

Working(t) == pc[t] \in {"length", "head", "append", "push"}

IsVersion(v) == v = [status |-> v.status, body |-> v.body, number |-> v.number,
                     signature |-> v.signature]

\* A call stores one version, or a superseded one before another.
TodoShape(t) ==
  Working(t) => \E x, y : /\ IsVersion(x.version) /\ IsVersion(y.version)
                          /\ x.version.status # "SUPERSEDED"
                          /\ todo[t] = <<x>> \/ todo[t] = <<y, x>>

\* The rules as they are before a call, and the ledger.
VersionsShape ==
  \A r \in Rules : /\ versions[r] # <<>>
                   /\ \A i \in DOMAIN versions[r] : IsVersion(versions[r][i])

\* Where a superseded version or its entry is the last, the call that made it has
\* still to store the replacement.
Replacing ==
  /\ \A r \in Rules :
       Last(versions[r]).status = "SUPERSEDED" =>
         \E t \in Threads : rule[t] = r /\ Working(t) /\ Len(todo[t]) = 1
  /\ Rules # {} => ledger # <<>>
  /\ ledger # <<>> /\ Last(ledger).to = "SUPERSEDED" =>
       \E t \in Threads : Working(t) /\ (Len(todo[t]) = 1 <=> pc[t] # "push")

\* The entries the calls under way have still to make.
Owed(t) ==
  IF ~Working(t) THEN 0 ELSE IF pc[t] = "push" THEN Len(todo[t]) - 1 ELSE Len(todo[t])
Pending == {p \in Threads \X {1, 2} : p[2] <= Owed(p[1])}

RoomLeft ==
  /\ served \in Nat /\ served <= MaxCalls
  /\ Len(ledger) + Cardinality(Pending) <= 2 * Cardinality(Rules) + 2 * served

Tells(e, r, stored) ==
  /\ e.rule = r /\ e.transition = stored.transition
  /\ e.to = stored.version.status /\ e.number = stored.version.number

\* The call has stored nothing yet, and the registry is as it was when it began.
FirstHalf(plan, vs, log) ==
  /\ plan \in Plans(Last(vs)) /\ Last(vs).status # "SUPERSEDED"
  /\ Last(log).to # "SUPERSEDED"

\* The superseded version is stored, on top of what the call began with.
SecondHalf(plan, r, vs, log) ==
  \E kept, book, e : \E b \in Bodies, level \in Registry!Levels :
    /\ IsSeq(kept) /\ kept # <<>> /\ Last(kept).status = "CERTIFIED"
    /\ vs = Append(kept, Registry!Superseded(Last(kept)))
    /\ plan = <<Store("AMENDED", Registry!Amended(Last(kept), b, level))>>
    /\ IsSeq(book) /\ log = Append(book, e)
    /\ Tells(e, r, Store("SUPERSEDED", Registry!Superseded(Last(kept))))

Halves(plan, r, vs, log) ==
  IsSeq(log) /\ (FirstHalf(plan, vs, log) \/ SecondHalf(plan, r, vs, log))

Unobserved ==
  \A t \in Threads : alone = t =>
    /\ \A u \in Threads : u # t => pc[u] = "idle"
    /\ Working(t) =>
         \E log : /\ Halves(todo[t], rule[t], versions[rule[t]], log)
                  /\ IF pc[t] = "push"
                       THEN \E e : /\ ledger = Append(log, e)
                                   /\ Tells(e, rule[t], Head(todo[t]))
                       ELSE ledger = log

CallsInv ==
  /\ ThreadsInv /\ VersionsShape /\ (\A t \in Threads : TodoShape(t))
  /\ Replacing /\ RoomLeft /\ Unobserved
  /\ alone \in Threads \cup {NoThread}

\* Lists of one and two, and the ends of a longer one.
LEMMA ShortLists ==
  ASSUME NEW x, NEW y
  PROVE  /\ Len(<<x>>) = 1 /\ Head(<<x>>) = x /\ <<x>>[1] = x
         /\ Len(<<y, x>>) = 2 /\ Head(<<y, x>>) = y /\ Tail(<<y, x>>) = <<x>>
<1>1. <<x>> \in Seq({x, y}) /\ <<y, x>> \in Seq({x, y})
  <2>1. <<x>> \in Seq({x, y})
    OBVIOUS
  <2>2. <<y, x>> \in Seq({x, y})
    OBVIOUS
  <2> QED BY <2>1, <2>2
<1>2. Len(<<x>>) = 1 /\ Head(<<x>>) = x /\ <<x>>[1] = x
  OBVIOUS
<1>3. Len(<<y, x>>) = 2 /\ Head(<<y, x>>) = y
  OBVIOUS
<1>4. Tail(<<y, x>>) = <<x>>
  OBVIOUS
<1> QED BY <1>2, <1>3, <1>4

LEMMA LastOf ==
  ASSUME NEW s, IsSeq(s), s # <<>>
  PROVE  Len(s) \in DOMAIN s /\ Last(s) = s[Len(s)] /\ Len(s) > 0
<1>1. PICK S : s \in Seq(S)
  BY DEF IsSeq
<1>2. Len(s) \in Nat /\ Len(s) # 0 /\ DOMAIN s = 1..Len(s)
  BY <1>1, EmptySeq
<1> QED BY <1>2 DEF Last

LEMMA AppendEnds ==
  ASSUME NEW s, IsSeq(s), NEW e
  PROVE  /\ Append(s, e) # <<>> /\ Last(Append(s, e)) = e
         /\ Front(Append(s, e)) = s
<1> DEFINE a == Append(s, e)
<1>1. /\ IsSeq(a) /\ DOMAIN s = 1..Len(s) /\ Len(s) \in Nat
      /\ DOMAIN a = 1..Len(s) + 1 /\ Len(a) = Len(s) + 1
      /\ \A i \in 1..Len(s) : a[i] = s[i]
      /\ a[Len(s) + 1] = e
  BY AppendFacts
<1> HIDE DEF a
<1>2. a # <<>>
  BY <1>1
<1>3. Last(a) = e
  BY <1>1 DEF Last
<1>4. Front(a) = s
  <2>1. PICK S : s \in Seq(S)
    BY DEF IsSeq
  <2>2. \A i \in 1..Len(s) : s[i] \in S /\ a[i] \in S
    BY <1>1, <2>1
  <2>3. /\ SubSeq(a, 1, Len(s)) \in Seq(S)
        /\ Len(SubSeq(a, 1, Len(s))) = IF 1 <= Len(s) THEN Len(s) - 1 + 1 ELSE 0
        /\ \A i \in 1..Len(s) - 1 + 1 : SubSeq(a, 1, Len(s))[i] = a[1 + i - 1]
    BY <1>1, <2>2, SubSeqProperties
  <2>4. Len(SubSeq(a, 1, Len(s))) = Len(s)
    BY <1>1, <2>3
  <2>5. \A i \in 1..Len(s) : SubSeq(a, 1, Len(s))[i] = s[i]
    BY <1>1, <2>3
  <2>6. SubSeq(a, 1, Len(s)) = s
    BY <2>1, <2>3, <2>4, <2>5, SeqEqual
  <2>7. Len(a) - 1 = Len(s)
    BY <1>1
  <2> QED BY <2>6, <2>7 DEF Front
<1> QED BY <1>2, <1>3, <1>4 DEF a

\* What becomes of a version.
LEMMA VersionForms ==
  ASSUME NEW v, IsVersion(v), NEW b, NEW level
  PROVE  /\ Registry!Certified(v).status = "CERTIFIED" /\ IsVersion(Registry!Certified(v))
         /\ Registry!Rejected(v).status = "REJECTED" /\ IsVersion(Registry!Rejected(v))
         /\ Registry!Superseded(v).status = "SUPERSEDED" /\ IsVersion(Registry!Superseded(v))
         /\ Registry!Superseded(v).number = v.number
         /\ Registry!Amended(v, b, level).status = "PROPOSED"
         /\ IsVersion(Registry!Amended(v, b, level))
         /\ Registry!Draft(b).status = "PROPOSED" /\ IsVersion(Registry!Draft(b))
<1>1. Registry!Certified(v) = [status |-> "CERTIFIED", body |-> v.body, number |-> v.number,
                               signature |-> [body |-> v.body, number |-> v.number]]
  <2>1. PICK s, c, n, g : v = [status |-> s, body |-> c, number |-> n, signature |-> g]
    BY DEF IsVersion
  <2>2. PICK w : w = [status |-> "CERTIFIED", body |-> c, number |-> n, signature |-> g]
    OBVIOUS
  <2>3. [v EXCEPT !.status = "CERTIFIED"] = w
    BY <2>1, <2>2
  <2>4. [w EXCEPT !.signature = [body |-> v.body, number |-> v.number]] =
          [status |-> "CERTIFIED", body |-> c, number |-> n,
           signature |-> [body |-> v.body, number |-> v.number]]
    BY <2>2
  <2> QED BY <2>1, <2>3, <2>4 DEF Registry!Certified
<1>2. Registry!Rejected(v) = [status |-> "REJECTED", body |-> v.body, number |-> v.number,
                              signature |-> v.signature]
  BY DEF Registry!Rejected, IsVersion
<1>3. Registry!Superseded(v) = [status |-> "SUPERSEDED", body |-> v.body,
                                number |-> v.number, signature |-> v.signature]
  BY DEF Registry!Superseded, IsVersion
<1>4. IsVersion(Registry!Certified(v)) /\ Registry!Certified(v).status = "CERTIFIED"
  BY <1>1 DEF IsVersion
<1>5. IsVersion(Registry!Rejected(v)) /\ Registry!Rejected(v).status = "REJECTED"
  BY <1>2 DEF IsVersion
<1>6. /\ IsVersion(Registry!Superseded(v)) /\ Registry!Superseded(v).status = "SUPERSEDED"
      /\ Registry!Superseded(v).number = v.number
  BY <1>3 DEF IsVersion
<1>7. IsVersion(Registry!Amended(v, b, level)) /\ Registry!Amended(v, b, level).status = "PROPOSED"
  BY DEF Registry!Amended, IsVersion
<1>8. IsVersion(Registry!Draft(b)) /\ Registry!Draft(b).status = "PROPOSED"
  BY DEF Registry!Draft, IsVersion
<1> QED BY <1>4, <1>5, <1>6, <1>7, <1>8

LEMMA Joined ==
  ASSUME NEW x, NEW y
  PROVE  <<>> \o <<x>> = <<x>> /\ <<y>> \o <<x>> = <<y, x>>
<1>1. <<x>> \in Seq({x, y}) /\ <<y>> \in Seq({x, y}) /\ <<y, x>> \in Seq({x, y})
  <2>1. <<x>> \in Seq({x, y})
    OBVIOUS
  <2>2. <<y>> \in Seq({x, y})
    OBVIOUS
  <2>3. <<y, x>> \in Seq({x, y})
    OBVIOUS
  <2> QED BY <2>1, <2>2, <2>3
<1>2. <<>> \o <<x>> = <<x>>
  BY <1>1, ConcatEmptySeq
<1>3. <<y>> \o <<x>> = Append(<<y>>, x)
  BY <1>1, AppendIsConcat
<1>4. Append(<<y>>, x) = <<y, x>>
  <2>1. /\ Append(<<y>>, x) \in Seq({x, y}) /\ Len(Append(<<y>>, x)) = 2
        /\ Append(<<y>>, x)[1] = y /\ Append(<<y>>, x)[2] = x
    BY <1>1
  <2>2. Len(<<y, x>>) = 2 /\ <<y, x>>[1] = y /\ <<y, x>>[2] = x
    OBVIOUS
  <2>3. \A i \in 1..2 : i = 1 \/ i = 2
    OBVIOUS
  <2>4. \A i \in 1..Len(Append(<<y>>, x)) : Append(<<y>>, x)[i] = <<y, x>>[i]
    BY <2>1, <2>2, <2>3
  <2> QED BY <1>1, <2>1, <2>2, <2>4, SeqEqual
<1> QED BY <1>2, <1>3, <1>4

\* The four plans a call can have.
Signing(v, plan) ==
  /\ v.status \notin {"CERTIFIED", "REJECTED"} /\ v.body \notin Blocked
  /\ plan = <<Store("CERTIFIED", Registry!Certified(v))>>

Refusing(v, plan) ==
  v.status # "CERTIFIED" /\ plan = <<Store("REJECTED", Registry!Rejected(v))>>

Editing(v, plan, b, level) ==
  v.status # "CERTIFIED" /\ plan = <<Store("AMENDED", Registry!Amended(v, b, level))>>

Superseding(v, plan, b, level) ==
  /\ v.status = "CERTIFIED"
  /\ plan = <<Store("SUPERSEDED", Registry!Superseded(v)),
              Store("AMENDED", Registry!Amended(v, b, level))>>

LEMMA PlanForms ==
  ASSUME NEW v, NEW plan \in Plans(v)
  PROVE  \/ Signing(v, plan) \/ Refusing(v, plan)
         \/ \E b \in Bodies, level \in Registry!Levels :
              Editing(v, plan, b, level) \/ Superseding(v, plan, b, level)
<1>1. CASE Signing(v, plan) \/ Refusing(v, plan)
  BY <1>1
<1>2. CASE ~(Signing(v, plan) \/ Refusing(v, plan))
  <2>1. PICK b \in Bodies, level \in Registry!Levels :
          plan = (IF v.status = "CERTIFIED"
                    THEN <<Store("SUPERSEDED", Registry!Superseded(v))>> ELSE <<>>)
                   \o <<Store("AMENDED", Registry!Amended(v, b, level))>>
    BY <1>2 DEF Plans, Signing, Refusing
  <2>2. CASE v.status = "CERTIFIED"
    <3>1. Superseding(v, plan, b, level)
      BY <2>1, <2>2, Joined DEF Superseding
    <3> QED BY <3>1
  <2>3. CASE v.status # "CERTIFIED"
    <3>1. Editing(v, plan, b, level)
      BY <2>1, <2>3, Joined DEF Editing
    <3> QED BY <3>1
  <2> QED BY <2>2, <2>3
<1> QED BY <1>1, <1>2

\* A plan stores a version, or a superseded one before another.
LEMMA PlanShape ==
  ASSUME NEW v, IsVersion(v), NEW plan \in Plans(v)
  PROVE  \E x, y : /\ IsVersion(x.version) /\ IsVersion(y.version)
                   /\ x.version.status # "SUPERSEDED"
                   /\ (plan = <<x>> \/ plan = <<y, x>>)
<1> DEFINE Fits(x, y) == /\ IsVersion(x.version) /\ IsVersion(y.version)
                         /\ x.version.status # "SUPERSEDED"
                         /\ (plan = <<x>> \/ plan = <<y, x>>)
<1>0. \A transition, w : Store(transition, w).version = w
  BY DEF Store
<1>1. CASE Signing(v, plan)
  <2> DEFINE x == Store("CERTIFIED", Registry!Certified(v))
  <2>1. Fits(x, x)
    <3>1. x.version = Registry!Certified(v)
      BY <1>0
    <3>2. plan = <<x>>
      BY <1>1 DEF Signing
    <3> HIDE DEF x
    <3> QED BY <3>1, <3>2, VersionForms
  <2> HIDE DEF x, Fits
  <2>2. \E z, y : Fits(z, y)
    BY <2>1
  <2> QED BY <2>2 DEF Fits
<1>2. CASE Refusing(v, plan)
  <2> DEFINE x == Store("REJECTED", Registry!Rejected(v))
  <2>1. Fits(x, x)
    <3>1. x.version = Registry!Rejected(v)
      BY <1>0
    <3>2. plan = <<x>>
      BY <1>2 DEF Refusing
    <3> HIDE DEF x
    <3> QED BY <3>1, <3>2, VersionForms
  <2> HIDE DEF x, Fits
  <2>2. \E z, y : Fits(z, y)
    BY <2>1
  <2> QED BY <2>2 DEF Fits
<1>3. ASSUME NEW b \in Bodies, NEW level \in Registry!Levels,
             Editing(v, plan, b, level) \/ Superseding(v, plan, b, level)
      PROVE  \E x, y : Fits(x, y)
  <2> DEFINE x == Store("AMENDED", Registry!Amended(v, b, level))
             y == Store("SUPERSEDED", Registry!Superseded(v))
  <2>1. Fits(x, y)
    <3>1. x.version = Registry!Amended(v, b, level) /\ y.version = Registry!Superseded(v)
      BY <1>0
    <3>2. plan = <<x>> \/ plan = <<y, x>>
      BY <1>3 DEF Editing, Superseding
    <3> HIDE DEF x, y
    <3> QED BY <3>1, <3>2, VersionForms
  <2> HIDE DEF x, y, Fits
  <2> QED BY <2>1
<1>4. CASE \E b \in Bodies, level \in Registry!Levels :
             Editing(v, plan, b, level) \/ Superseding(v, plan, b, level)
  BY <1>3, <1>4
<1> QED BY <1>1, <1>2, <1>4, PlanForms

LEMMA PendingIsFinite ==
  /\ IsFiniteSet(Pending) /\ Cardinality(Pending) \in Nat
  /\ Cardinality(Rules) \in Nat
<1>1. IsFiniteSet({1, 2})
  <2>1. IsFiniteSet({1})
    BY FS_Singleton
  <2>2. IsFiniteSet({1} \cup {2})
    BY <2>1, FS_AddElement
  <2>3. {1} \cup {2} = {1, 2}
    OBVIOUS
  <2> QED BY <2>2, <2>3
<1>2. IsFiniteSet(Threads \X {1, 2})
  BY <1>1, ThreadsAssumption, FS_Product
<1>3. IsFiniteSet(Pending)
  BY <1>2, FS_Subset DEF Pending
<1> QED BY <1>3, ThreadsAssumption, FS_CardinalityType

LEMMA CallsInitInv == Init => CallsInv
<1> SUFFICES ASSUME Init PROVE CallsInv
  OBVIOUS
<1>1. PICK body \in [Rules -> Bodies], signed \in SUBSET Rules :
        LET acts == Opening(body, signed)
        IN /\ versions = [r \in Rules |->
                LET draft == Registry!Draft(body[r])
                IN IF r \in signed THEN <<draft, Registry!Certified(draft)>> ELSE <<draft>>]
           /\ ledger = [i \in DOMAIN acts |-> OpeningEntry(i, acts)]
           /\ pc = [t \in Threads |-> "idle"]
           /\ alone = NoThread
           /\ served = 0
  BY DEF Init
<1> DEFINE acts == Opening(body, signed)
           draft(r) == Registry!Draft(body[r])
           signature(r) == Registry!Certified(draft(r))
<1>2. /\ Len(acts) \in Nat /\ DOMAIN acts = 1..Len(acts)
      /\ Len(acts) <= 2 * Cardinality(Rules)
      /\ \A i \in DOMAIN acts : acts[i][2].version.status \in {"PROPOSED", "CERTIFIED"}
      /\ \A r \in Rules : \E i \in DOMAIN acts :
           acts[i] = <<r, Store("PROPOSED", draft(r))>>
  BY OpeningFacts
<1> HIDE DEF acts
<1>3. \A t \in Threads : pc[t] = "idle" /\ ~Working(t)
  BY <1>1 DEF Working
<1>4. ledger = [i \in 1..Len(acts) |-> OpeningEntry(i, acts)]
  BY <1>1, <1>2 DEF acts
<1>5. /\ IsSeq(ledger) /\ Len(ledger) = Len(acts) /\ DOMAIN ledger = 1..Len(acts)
  <2> DEFINE S == {OpeningEntry(i, acts) : i \in 1..Len(acts)}
  <2>1. ledger \in [1..Len(acts) -> S] /\ DOMAIN ledger = 1..Len(acts)
    BY <1>4
  <2> HIDE DEF S
  <2> QED BY <1>2, <2>1, FunctionIsSeq
<1>6. \A i \in DOMAIN ledger : ledger[i].to \in {"PROPOSED", "CERTIFIED"}
  BY <1>2, <1>4, <1>5 DEF OpeningEntry
<1>7. \A r \in Rules :
        versions[r] = IF r \in signed THEN <<draft(r), signature(r)>> ELSE <<draft(r)>>
  BY <1>1
<1>8. \A r \in Rules : /\ IsVersion(draft(r)) /\ draft(r).status = "PROPOSED"
                       /\ IsVersion(signature(r)) /\ signature(r).status = "CERTIFIED"
  <2> SUFFICES ASSUME NEW r \in Rules
               PROVE  /\ IsVersion(draft(r)) /\ draft(r).status = "PROPOSED"
                      /\ IsVersion(signature(r)) /\ signature(r).status = "CERTIFIED"
    OBVIOUS
  <2>1. PICK b : b = body[r]
    OBVIOUS
  <2>2. draft(r) = Registry!Draft(b)
    BY <2>1
  <2>3. IsVersion(Registry!Draft(b)) /\ Registry!Draft(b).status = "PROPOSED"
    BY DEF Registry!Draft, IsVersion
  <2>4. PICK d : d = Registry!Draft(b)
    OBVIOUS
  <2>5. IsVersion(Registry!Certified(d)) /\ Registry!Certified(d).status = "CERTIFIED"
    BY <2>3, <2>4, VersionForms
  <2>6. signature(r) = Registry!Certified(d)
    BY <2>2, <2>4
  <2> QED BY <2>2, <2>3, <2>5, <2>6
<1> HIDE DEF draft, signature
<1>9. ASSUME NEW r \in Rules
      PROVE  /\ versions[r] # <<>> /\ IsSeq(versions[r])
             /\ \A i \in DOMAIN versions[r] :
                  IsVersion(versions[r][i]) /\ versions[r][i].status # "SUPERSEDED"
  <2>1. CASE r \in signed
    <3>1. versions[r] = <<draft(r), signature(r)>>
      BY <1>7, <2>1
    <3>2. /\ IsSeq(versions[r]) /\ DOMAIN versions[r] = {1, 2}
          /\ versions[r][1] = draft(r) /\ versions[r][2] = signature(r)
      BY <3>1, OneAndTwo
    <3>3. versions[r] # <<>>
      BY <3>2
    <3> QED BY <1>8, <3>2, <3>3
  <2>2. CASE r \notin signed
    <3>1. versions[r] = <<draft(r)>>
      BY <1>7, <2>2
    <3>2. /\ IsSeq(versions[r]) /\ DOMAIN versions[r] = {1}
          /\ versions[r][1] = draft(r)
      BY <3>1, OneAndTwo
    <3>3. versions[r] # <<>>
      BY <3>2
    <3> QED BY <1>8, <3>2, <3>3
  <2> QED BY <2>1, <2>2
<1>10. VersionsShape
  BY <1>9 DEF VersionsShape
<1>11. Replacing
  <2>1. \A r \in Rules : Last(versions[r]).status # "SUPERSEDED"
    BY <1>9, LastOf
  <2>2. Rules # {} => ledger # <<>>
    BY <1>2, <1>5
  <2>3. ledger # <<>> => Last(ledger).to # "SUPERSEDED"
    BY <1>5, <1>6, LastOf
  <2> QED BY <2>1, <2>2, <2>3 DEF Replacing
<1>12. RoomLeft
  <2>1. Pending = {}
    <3>1. \A t \in Threads : Owed(t) = 0
      BY <1>3 DEF Owed
    <3> QED BY <3>1 DEF Pending
  <2>2. Cardinality(Pending) = 0
    BY <2>1, FS_EmptySet
  <2>3. served \in Nat /\ served <= MaxCalls
    BY <1>1, ThreadsAssumption
  <2>4. Len(ledger) + 0 <= 2 * Cardinality(Rules) + 2 * 0
    BY <1>2, <1>5, PendingIsFinite
  <2> QED BY <1>1, <2>2, <2>3, <2>4 DEF RoomLeft
<1>13. Unobserved
  BY <1>1, ThreadsAssumption DEF Unobserved
<1>14. \A t \in Threads : TodoShape(t)
  BY <1>3 DEF TodoShape
<1> QED BY <1>1, <1>10, <1>11, <1>12, <1>13, <1>14, ThreadsInitInv DEF CallsInv

-----------------------------------------------------------------------------
(* What a step does to the registry a caller sees.                         *)

\* Nothing is entered or stored, and no call begins, comes to the push or gets
\* past it.
QuietMove ==
  /\ UNCHANGED <<versions, ledger, rule, todo, served>>
  /\ alone' \in {alone, NoThread}
  /\ \A u \in Threads : /\ Working(u)' <=> Working(u)
                        /\ pc'[u] = "push" <=> pc[u] = "push"
                        /\ pc[u] = "idle" => pc'[u] = "idle"

LEMMA StepKinds ==
  ASSUME ThreadsInv, NEW t \in Threads, Continue(t)
  PROVE  QuietMove \/ AppendEntry(t) \/ Push(t)
<1>1. pc \in [Threads -> Places]
  BY DEF ThreadsInv, Shape
<1>2. CASE ReadLength(t) \/ ReadHead(t)
  <2>1. /\ UNCHANGED <<versions, ledger, rule, todo, served, alone>>
        /\ pc[t] \in {"length", "head"}
        /\ \E to \in {"head", "append"} : pc' = [pc EXCEPT ![t] = to]
    BY <1>2 DEF ReadLength, ReadHead, Goes, memory, marks
  <2> QED BY <1>1, <2>1 DEF QuietMove, Working
<1>3. CASE CopyRules(t) \/ CopyLedger(t) \/ Acquire(t) \/ Write(t) \/ WriteFails(t)
  <2>1. /\ UNCHANGED <<versions, ledger, rule, todo, served, alone>>
        /\ pc[t] \in {"rules", "entries", "lock", "write"}
        /\ \E to \in {"entries", "lock", "write", "unlock"} : pc' = [pc EXCEPT ![t] = to]
    BY <1>3 DEF CopyRules, CopyLedger, Acquire, Write, WriteFails, Goes, memory, marks
  <2> QED BY <1>1, <2>1 DEF QuietMove, Working
<1>4. CASE GiveUp(t) \/ Release(t)
  <2>1. /\ UNCHANGED <<versions, ledger, rule, todo, served>> /\ alone' = NoThread
        /\ pc[t] \in {"lock", "unlock"} /\ pc' = [pc EXCEPT ![t] = "idle"]
    BY <1>4 DEF GiveUp, Release, Leaves, Goes, memory
  <2> QED BY <1>1, <2>1 DEF QuietMove, Working
<1> QED BY <1>2, <1>3, <1>4 DEF Continue

LEMMA QuietCalls == ASSUME CallsInv, ThreadsInv', QuietMove PROVE CallsInv'
<1>1. UNCHANGED <<versions, ledger, rule, todo, served>>
  BY DEF QuietMove
<1>2. \A u \in Threads : /\ Working(u)' <=> Working(u)
                         /\ pc'[u] = "push" <=> pc[u] = "push"
                         /\ pc[u] = "idle" => pc'[u] = "idle"
  BY DEF QuietMove
<1>3. VersionsShape'
  BY <1>1 DEF CallsInv, VersionsShape
<1>4. \A u \in Threads : TodoShape(u)'
  BY <1>1, <1>2 DEF CallsInv, TodoShape
<1>5. Replacing'
  BY <1>1, <1>2 DEF CallsInv, Replacing
<1>6. RoomLeft'
  <2>1. \A u \in Threads : Owed(u)' = Owed(u)
    BY <1>1, <1>2 DEF Owed
  <2>2. Pending' = Pending
    BY <2>1 DEF Pending
  <2> QED BY <1>1, <2>2 DEF CallsInv, RoomLeft
<1>7. Unobserved'
  <2> SUFFICES ASSUME NEW t \in Threads, alone' = t
               PROVE  /\ \A u \in Threads : u # t => pc'[u] = "idle"
                      /\ Working(t)' =>
                           \E log : /\ Halves(todo[t], rule[t], versions[rule[t]], log)
                                    /\ IF pc'[t] = "push"
                                         THEN \E e : /\ ledger = Append(log, e)
                                                     /\ Tells(e, rule[t], Head(todo[t]))
                                         ELSE ledger = log
    BY <1>1 DEF Unobserved
  <2>1. alone = t
    BY ThreadsAssumption DEF QuietMove
  <2> QED BY <1>2, <2>1 DEF CallsInv, Unobserved
<1>8. alone' \in Threads \cup {NoThread}
  BY DEF QuietMove, CallsInv
<1> QED BY <1>3, <1>4, <1>5, <1>6, <1>7, <1>8 DEF CallsInv

LEMMA OneMore ==
  ASSUME NEW S, IsFiniteSet(S), NEW x
  PROVE  /\ IsFiniteSet(S \cup {x}) /\ Cardinality(S \cup {x}) \in Nat
         /\ Cardinality(S \cup {x}) <= Cardinality(S) + 1
<1>1. Cardinality(S) \in Nat
  BY FS_CardinalityType
<1>2. IsFiniteSet(S \cup {x})
  BY FS_AddElement
<1>3. Cardinality(S \cup {x}) = IF x \in S THEN Cardinality(S) ELSE Cardinality(S) + 1
  BY FS_AddElement
<1> QED BY <1>1, <1>2, <1>3

\* The version a call finds.
LEMMA LastIsVersion ==
  ASSUME CallsInv, NEW r \in Rules
  PROVE  IsSeq(versions[r]) /\ versions[r] # <<>> /\ IsVersion(Last(versions[r]))
<1>1. IsSeq(versions[r]) /\ versions[r] # <<>>
  BY DEF CallsInv, ThreadsInv, Shape, VersionsShape
<1>2. Len(versions[r]) \in DOMAIN versions[r] /\ Last(versions[r]) = versions[r][Len(versions[r])]
  BY <1>1, LastOf
<1> QED BY <1>1, <1>2 DEF CallsInv, VersionsShape

LEMMA BeginCalls ==
  ASSUME CallsInv, ThreadsInv', NEW t \in Threads, NEW r \in Rules, Begin(t, r)
  PROVE  CallsInv'
<1> DEFINE v == Last(versions[r])
<1>1. PICK plan \in Plans(v) : todo' = [todo EXCEPT ![t] = plan]
  BY DEF Begin
<1>2. /\ pc[t] = "idle" /\ pc' = [pc EXCEPT ![t] = "length"]
      /\ rule' = [rule EXCEPT ![t] = r]
      /\ served < MaxCalls /\ served' = served + 1
      /\ alone' = IF \A u \in Threads : pc[u] = "idle" THEN t ELSE NoThread
      /\ UNCHANGED <<versions, ledger>>
  BY DEF Begin, Goes, memory
<1>3. /\ pc'[t] = "length" /\ rule'[t] = r /\ todo'[t] = plan
      /\ \A u \in Threads \ {t} : pc'[u] = pc[u] /\ rule'[u] = rule[u] /\ todo'[u] = todo[u]
  BY <1>1, <1>2 DEF CallsInv, ThreadsInv, Shape
<1>4. /\ Working(t)' /\ ~Working(t)
      /\ \A u \in Threads \ {t} : Working(u)' <=> Working(u)
  BY <1>2, <1>3 DEF Working
<1>5. IsVersion(v)
  BY LastIsVersion
<1>6. PICK x, y : /\ IsVersion(x.version) /\ IsVersion(y.version)
                  /\ x.version.status # "SUPERSEDED"
                  /\ (plan = <<x>> \/ plan = <<y, x>>)
  <2> HIDE DEF v
  <2> QED BY <1>5, PlanShape
<1>7. VersionsShape'
  BY <1>2 DEF CallsInv, VersionsShape
<1>8. ASSUME NEW u \in Threads PROVE TodoShape(u)'
  <2>1. CASE u = t
    BY <1>3, <1>6, <2>1 DEF TodoShape
  <2>2. CASE u # t
    BY <1>3, <1>4, <2>2 DEF CallsInv, TodoShape
  <2> QED BY <2>1, <2>2
<1>9. Replacing'
  <2>1. \A q \in Rules : Last(versions[q]).status = "SUPERSEDED" =>
          \E u \in Threads : rule'[u] = q /\ Working(u)' /\ Len(todo'[u]) = 1
    BY <1>3, <1>4 DEF CallsInv, Replacing
  <2>2. ledger # <<>> /\ Last(ledger).to = "SUPERSEDED" =>
          \E u \in Threads : Working(u)' /\ (Len(todo'[u]) = 1 <=> pc'[u] # "push")
    BY <1>3, <1>4 DEF CallsInv, Replacing
  <2> QED BY <1>2, <2>1, <2>2 DEF CallsInv, Replacing
<1>10. RoomLeft'
  <2> DEFINE more == (Pending \cup {<<t, 1>>}) \cup {<<t, 2>>}
  <2>1. /\ IsFiniteSet(more) /\ Cardinality(more) \in Nat
        /\ Cardinality(more) <= Cardinality(Pending) + 2
    <3>1. /\ IsFiniteSet(Pending \cup {<<t, 1>>})
          /\ Cardinality(Pending \cup {<<t, 1>>}) \in Nat
          /\ Cardinality(Pending \cup {<<t, 1>>}) <= Cardinality(Pending) + 1
      BY PendingIsFinite, OneMore
    <3>2. /\ IsFiniteSet(more) /\ Cardinality(more) \in Nat
          /\ Cardinality(more) <= Cardinality(Pending \cup {<<t, 1>>}) + 1
      BY <3>1, OneMore
    <3> QED BY <3>1, <3>2, PendingIsFinite
  <2>2. Pending' \in SUBSET more
    <3>1. \A u \in Threads \ {t} : Owed(u)' = Owed(u)
      BY <1>3, <1>4 DEF Owed
    <3> QED BY <3>1 DEF Pending
  <2>3. Cardinality(Pending') \in Nat /\ Cardinality(Pending') <= Cardinality(more)
    BY <2>1, <2>2, FS_Subset, FS_CardinalityType
  <2>4. Len(ledger) \in Nat
    BY SeqFacts DEF CallsInv, ThreadsInv, Shape
  <2>5. /\ served \in Nat
        /\ Len(ledger) + Cardinality(Pending) <= 2 * Cardinality(Rules) + 2 * served
    BY DEF CallsInv, RoomLeft
  <2> HIDE DEF more
  <2>6. Len(ledger) + Cardinality(Pending') <= 2 * Cardinality(Rules) + 2 * (served + 1)
    BY <2>1, <2>3, <2>4, <2>5, PendingIsFinite
  <2> QED BY <1>2, <2>5, <2>6, ThreadsAssumption DEF RoomLeft
<1>11. Unobserved'
  <2> SUFFICES ASSUME NEW u \in Threads, alone' = u
               PROVE  /\ \A w \in Threads : w # u => pc'[w] = "idle"
                      /\ \E log : /\ Halves(todo'[u], rule'[u], versions[rule'[u]], log)
                                  /\ pc'[u] # "push" /\ ledger = log
    BY <1>2, Zenon DEF Unobserved
  <2>1. u = t /\ \A w \in Threads : pc[w] = "idle"
    BY <1>2, ThreadsAssumption
  <2>2. \A w \in Threads : ~Working(w)
    BY <2>1 DEF Working
  <2>3. v.status # "SUPERSEDED" /\ Last(ledger).to # "SUPERSEDED" /\ IsSeq(ledger)
    BY <2>2 DEF CallsInv, Replacing, ThreadsInv, Shape
  <2>4. Halves(plan, r, versions[r], ledger)
    BY <2>3 DEF Halves, FirstHalf
  <2> QED BY <1>3, <2>1, <2>4
<1>12. alone' \in Threads \cup {NoThread}
  BY <1>2
<1> QED BY <1>7, <1>8, <1>9, <1>10, <1>11, <1>12 DEF CallsInv

\* What a call at work has still to store.
LEMMA TodoOf ==
  ASSUME CallsInv, NEW t \in Threads, Working(t)
  PROVE  \E x, y : /\ IsVersion(x.version) /\ IsVersion(y.version)
                   /\ x.version.status # "SUPERSEDED"
                   /\ \/ todo[t] = <<x>> /\ Len(todo[t]) = 1 /\ Head(todo[t]) = x
                      \/ /\ todo[t] = <<y, x>> /\ Len(todo[t]) = 2
                         /\ Head(todo[t]) = y /\ Tail(todo[t]) = <<x>>
<1>1. PICK x, y : /\ IsVersion(x.version) /\ IsVersion(y.version)
                  /\ x.version.status # "SUPERSEDED"
                  /\ (todo[t] = <<x>> \/ todo[t] = <<y, x>>)
  BY DEF CallsInv, TodoShape
<1>2. CASE todo[t] = <<x>>
  <2>1. Len(<<x>>) = 1 /\ Head(<<x>>) = x
    BY ShortLists
  <2> QED BY <1>1, <1>2, <2>1
<1>3. CASE todo[t] = <<y, x>>
  <2>1. Len(<<y, x>>) = 2 /\ Head(<<y, x>>) = y /\ Tail(<<y, x>>) = <<x>>
    BY ShortLists
  <2> QED BY <1>1, <1>3, <2>1
<1> QED BY <1>1, <1>2, <1>3

LEMMA AppendCalls ==
  ASSUME CallsInv, ThreadsInv', NEW t \in Threads, AppendEntry(t)
  PROVE  CallsInv'
<1>1. PICK e : ledger' = Append(ledger, e) /\ Tells(e, rule[t], Head(todo[t]))
  BY DEF AppendEntry, Tells
<1>2. /\ pc[t] = "append" /\ pc' = [pc EXCEPT ![t] = "push"]
      /\ UNCHANGED <<versions, rule, todo, alone, served>>
  BY DEF AppendEntry, Goes, marks
<1>3. pc'[t] = "push" /\ \A u \in Threads \ {t} : pc'[u] = pc[u]
  BY <1>2 DEF CallsInv, ThreadsInv, Shape
<1>4. Working(t) /\ \A u \in Threads : Working(u)' <=> Working(u)
  BY <1>2, <1>3 DEF Working
<1>5. PICK x, y : /\ x.version.status # "SUPERSEDED"
                  /\ \/ Len(todo[t]) = 1 /\ Head(todo[t]) = x
                     \/ Len(todo[t]) = 2
  BY <1>4, TodoOf
<1>6. /\ IsSeq(ledger) /\ Len(ledger) \in Nat /\ Len(ledger') = Len(ledger) + 1
      /\ ledger' # <<>> /\ Last(ledger') = e
  <2>1. IsSeq(ledger)
    BY DEF CallsInv, ThreadsInv, Shape
  <2> QED BY <1>1, <2>1, AppendFacts, AppendEnds
<1>7. VersionsShape' /\ \A u \in Threads : TodoShape(u)'
  <2>1. VersionsShape'
    BY <1>2 DEF CallsInv, VersionsShape
  <2>2. \A u \in Threads : TodoShape(u)'
    BY <1>2, <1>4 DEF CallsInv, TodoShape
  <2> QED BY <2>1, <2>2
<1>8. Replacing'
  <2>1. \A q \in Rules : Last(versions[q]).status = "SUPERSEDED" =>
          \E u \in Threads : rule[u] = q /\ Working(u)' /\ Len(todo[u]) = 1
    BY <1>4 DEF CallsInv, Replacing
  <2>2. e.to = "SUPERSEDED" => Working(t)' /\ (Len(todo[t]) = 1 <=> pc'[t] # "push")
    <3>1. e.to = Head(todo[t]).version.status
      BY <1>1 DEF Tells
    <3>2. e.to = "SUPERSEDED" => Len(todo[t]) # 1
      BY <1>5, <3>1
    <3>3. Working(t)'
      BY <1>4
    <3> QED BY <1>3, <3>2, <3>3
  <2> QED BY <1>2, <1>6, <2>1, <2>2 DEF Replacing
<1>9. RoomLeft'
  <2> DEFINE one == <<t, Len(todo[t])>>
  <2>1. one \in Pending /\ Pending' = Pending \ {one}
    <3>1. Owed(t) = Len(todo[t]) /\ Owed(t)' = Len(todo[t]) - 1
      BY <1>2, <1>3, <1>4 DEF Owed
    <3>2. \A u \in Threads \ {t} : Owed(u)' = Owed(u)
      BY <1>2, <1>3, <1>4 DEF Owed
    <3>3. Len(todo[t]) \in {1, 2}
      BY <1>5
    <3>4. \A n \in {1, 2} : n <= Len(todo[t]) - 1 <=> n <= Len(todo[t]) /\ n # Len(todo[t])
      BY <3>3
    <3>5. Pending' = {p \in Threads \X {1, 2} : p[2] <= Owed(p[1])'}
      BY DEF Pending
    <3>6. one \in Pending
      <4>1. one \in Threads \X {1, 2} /\ one[1] = t /\ one[2] = Len(todo[t])
        BY <3>3
      <4>2. one[2] <= Owed(one[1])
        BY <3>1, <3>3, <4>1
      <4> QED BY <4>1, <4>2 DEF Pending
    <3>7. ASSUME NEW u \in Threads, NEW n \in {1, 2}
          PROVE  n <= Owed(u)' <=> n <= Owed(u) /\ <<u, n>> # one
      <4>1. CASE u = t
        BY <3>1, <3>4, <4>1
      <4>2. CASE u # t
        BY <3>2, <4>2
      <4> QED BY <4>1, <4>2
    <3>8. ASSUME NEW p \in Threads \X {1, 2}
          PROVE  p \in Pending' <=> p \in Pending \ {one}
      <4>1. PICK u \in Threads, n \in {1, 2} : p = <<u, n>>
        OBVIOUS
      <4>2. n <= Owed(u)' <=> n <= Owed(u) /\ <<u, n>> # one
        BY <3>7
      <4>3. p \in Pending' <=> n <= Owed(u)'
        BY <3>5, <4>1
      <4>4. p \in Pending <=> n <= Owed(u)
        BY <4>1 DEF Pending
      <4> QED BY <4>1, <4>2, <4>3, <4>4
    <3>9. Pending' \subseteq Threads \X {1, 2} /\ Pending \subseteq Threads \X {1, 2}
      BY <3>5 DEF Pending
    <3> HIDE DEF one
    <3> QED BY <3>6, <3>8, <3>9
  <2>2. Cardinality(Pending') = Cardinality(Pending) - 1
    <3> HIDE DEF one
    <3> QED BY <2>1, PendingIsFinite, FS_RemoveElement
  <2>3. /\ served \in Nat /\ served <= MaxCalls
        /\ Len(ledger) + Cardinality(Pending) <= 2 * Cardinality(Rules) + 2 * served
    BY DEF CallsInv, RoomLeft
  <2>4. Len(ledger) + 1 + (Cardinality(Pending) - 1) <= 2 * Cardinality(Rules) + 2 * served
    BY <1>6, <2>3, PendingIsFinite
  <2> QED BY <1>2, <1>6, <2>2, <2>3, <2>4 DEF RoomLeft
<1>10. Unobserved'
  <2> SUFFICES ASSUME NEW u \in Threads, alone = u
               PROVE  /\ \A w \in Threads : w # u => pc'[w] = "idle"
                      /\ pc'[u] = "push"
                      /\ \E log : /\ Halves(todo[u], rule[u], versions[rule[u]], log)
                                  /\ \E f : ledger' = Append(log, f)
                                            /\ Tells(f, rule[u], Head(todo[u]))
    BY <1>2, Zenon DEF Unobserved
  <2>1. u = t
    BY <1>2 DEF CallsInv, Unobserved
  <2>2. \A w \in Threads : w # u => pc'[w] = "idle"
    BY <1>3, <2>1 DEF CallsInv, Unobserved
  <2>3. Halves(todo[u], rule[u], versions[rule[u]], ledger)
    BY <1>2, <1>4, <2>1 DEF CallsInv, Unobserved
  <2> QED BY <1>1, <1>3, <2>1, <2>2, <2>3
<1>11. alone' \in Threads \cup {NoThread}
  BY <1>2 DEF CallsInv
<1> QED BY <1>7, <1>8, <1>9, <1>10, <1>11 DEF CallsInv

\* Two versions to store are a superseded one and its replacement.
LEMMA PairSupersedes ==
  ASSUME NEW v, NEW plan \in Plans(v), Len(plan) = 2
  PROVE  \E b \in Bodies, level \in Registry!Levels : Superseding(v, plan, b, level)
<1>1. ~Signing(v, plan)
  BY ShortLists DEF Signing
<1>2. ~Refusing(v, plan)
  BY ShortLists DEF Refusing
<1>3. \A b, level : ~Editing(v, plan, b, level)
  BY ShortLists DEF Editing
<1> QED BY <1>1, <1>2, <1>3, PlanForms

LEMMA PushCalls ==
  ASSUME CallsInv, ThreadsInv', NEW t \in Threads, Push(t)
  PROVE  CallsInv'
<1> DEFINE v == Head(todo[t]).version
           q == rule[t]
<1>1. /\ pc[t] = "push"
      /\ versions' = [versions EXCEPT ![q] = Append(versions[q], v)]
      /\ todo' = [todo EXCEPT ![t] = Tail(todo[t])]
      /\ pc' = [pc EXCEPT ![t] = IF Len(todo[t]) > 1 THEN "length" ELSE "rules"]
      /\ UNCHANGED <<ledger, rule, alone, served>>
  BY DEF Push, marks
<1>2. Working(t)
  BY <1>1 DEF Working
<1>3. PICK x, y : /\ IsVersion(x.version) /\ IsVersion(y.version)
                  /\ x.version.status # "SUPERSEDED"
                  /\ \/ todo[t] = <<x>> /\ Len(todo[t]) = 1 /\ Head(todo[t]) = x
                     \/ /\ todo[t] = <<y, x>> /\ Len(todo[t]) = 2
                        /\ Head(todo[t]) = y /\ Tail(todo[t]) = <<x>>
  BY <1>2, TodoOf
<1>4. /\ IsVersion(v) /\ Len(todo[t]) \in {1, 2}
      /\ v.status = "SUPERSEDED" => Len(todo[t]) = 2
  BY <1>3
<1>5. /\ q \in Rules /\ IsSeq(versions[q])
      /\ versions'[q] = Append(versions[q], v)
      /\ \A r \in Rules \ {q} : versions'[r] = versions[r]
  BY <1>1 DEF CallsInv, ThreadsInv, Shape
<1>6. \A u \in Threads \ {t} : pc'[u] = pc[u] /\ todo'[u] = todo[u]
  BY <1>1 DEF CallsInv, ThreadsInv, Shape
<1>7. \A u \in Threads \ {t} : (Working(u)' <=> Working(u)) /\ Owed(u)' = Owed(u)
  BY <1>6 DEF Working, Owed
<1>7a. /\ pc'[t] = IF Len(todo[t]) > 1 THEN "length" ELSE "rules"
       /\ todo'[t] = Tail(todo[t])
  <2>1. pc = [u \in Threads |-> pc[u]] /\ todo = [u \in Threads |-> todo[u]]
    BY DEF CallsInv, ThreadsInv, Shape
  <2>2. pc'[t] = IF Len(todo[t]) > 1 THEN "length" ELSE "rules"
    BY <1>1, <2>1
  <2>3. todo'[t] = Tail(todo[t])
    BY <1>1, <2>1
  <2> QED BY <2>2, <2>3
<1>8. Len(todo[t]) = 1 => pc'[t] = "rules" /\ ~Working(t)'
  <2>1. Len(todo[t]) = 1 => pc'[t] = "rules"
    BY <1>7a
  <2> QED BY <2>1 DEF Working
<1>9. Len(todo[t]) = 2 => /\ pc'[t] = "length" /\ todo'[t] = <<x>> /\ Len(<<x>>) = 1
                          /\ Working(t)'
  <2>1. ASSUME Len(todo[t]) = 2 PROVE pc'[t] = "length" /\ todo'[t] = <<x>>
    BY <1>3, <1>7a, <2>1
  <2>2. Len(<<x>>) = 1
    BY ShortLists
  <2> QED BY <2>1, <2>2 DEF Working
<1> HIDE DEF v, q
<1>10. VersionsShape'
  <2> SUFFICES ASSUME NEW r \in Rules
               PROVE  /\ versions'[r] # <<>>
                      /\ \A i \in DOMAIN versions'[r] : IsVersion(versions'[r][i])
    BY DEF VersionsShape
  <2>1. CASE r = q
    <3>1. /\ DOMAIN versions[q] = 1..Len(versions[q]) /\ Len(versions[q]) \in Nat
          /\ DOMAIN versions'[q] = 1..Len(versions[q]) + 1
          /\ \A i \in 1..Len(versions[q]) : versions'[q][i] = versions[q][i]
          /\ versions'[q][Len(versions[q]) + 1] = v
      BY <1>5, AppendFacts
    <3>2. \A i \in 1..Len(versions[q]) : IsVersion(versions[q][i])
      BY <1>5, <3>1 DEF CallsInv, VersionsShape
    <3>3. versions'[q] # <<>>
      BY <1>5, AppendEnds
    <3>4. \A i \in 1..Len(versions[q]) + 1 : i \in 1..Len(versions[q]) \/ i = Len(versions[q]) + 1
      BY <3>1
    <3>5. \A i \in DOMAIN versions'[q] : IsVersion(versions'[q][i])
      BY <1>4, <3>1, <3>2, <3>4
    <3> QED BY <2>1, <3>3, <3>5
  <2>2. CASE r # q
    BY <1>5, <2>2 DEF CallsInv, VersionsShape
  <2> QED BY <2>1, <2>2
<1>11. ASSUME NEW u \in Threads PROVE TodoShape(u)'
  <2>1. CASE u = t
    BY <1>3, <1>4, <1>8, <1>9, <2>1 DEF TodoShape
  <2>2. CASE u # t
    BY <1>6, <1>7, <2>2 DEF CallsInv, TodoShape
  <2> QED BY <2>1, <2>2
<1>12. Replacing'
  <2>1. ASSUME NEW r \in Rules, Last(versions'[r]).status = "SUPERSEDED"
        PROVE  \E u \in Threads : rule[u] = r /\ Working(u)' /\ Len(todo'[u]) = 1
    <3>1. CASE r = q
      <4>1. Last(versions'[q]) = v
        BY <1>5, AppendEnds
      <4> QED BY <1>4, <1>9, <2>1, <3>1, <4>1 DEF q
    <3>2. CASE r # q
      <4>1. PICK u \in Threads : rule[u] = r /\ Working(u) /\ Len(todo[u]) = 1
        BY <1>5, <2>1, <3>2 DEF CallsInv, Replacing
      <4> QED BY <1>6, <1>7, <3>2, <4>1 DEF q
    <3> QED BY <3>1, <3>2
  <2>2. ASSUME ledger # <<>>, Last(ledger).to = "SUPERSEDED"
        PROVE  \E u \in Threads : Working(u)' /\ (Len(todo'[u]) = 1 <=> pc'[u] # "push")
    <3>1. PICK u \in Threads : Working(u) /\ (Len(todo[u]) = 1 <=> pc[u] # "push")
      BY <2>2 DEF CallsInv, Replacing
    <3>2. CASE u = t
      BY <1>1, <1>4, <1>9, <3>1, <3>2
    <3>3. CASE u # t
      BY <1>6, <1>7, <3>1, <3>3
    <3> QED BY <3>2, <3>3
  <2> QED BY <1>1, <2>1, <2>2 DEF CallsInv, Replacing
<1>13. RoomLeft'
  <2>1. Owed(t)' = Owed(t)
    <3>1. Owed(t) = Len(todo[t]) - 1
      BY <1>1, <1>2 DEF Owed
    <3>2. CASE Len(todo[t]) = 1
      BY <1>8, <3>1, <3>2 DEF Owed
    <3>3. CASE Len(todo[t]) = 2
      <4>1. Len(todo'[t]) = 1
        BY <1>9, <3>3
      <4>2. Owed(t)' = 1
        BY <1>9, <3>3, <4>1 DEF Owed
      <4> QED BY <3>1, <3>3, <4>2
    <3> QED BY <1>4, <3>2, <3>3
  <2>2. Pending' = Pending
    BY <1>7, <2>1 DEF Pending
  <2> QED BY <1>1, <2>2 DEF CallsInv, RoomLeft
<1>14. Unobserved'
  <2> SUFFICES ASSUME NEW u \in Threads, alone = u
               PROVE  /\ \A w \in Threads : w # u => pc'[w] = "idle"
                      /\ Working(u)' => /\ pc'[u] # "push"
                                        /\ Halves(todo'[u], rule[u], versions'[rule[u]], ledger)
    BY <1>1, Zenon DEF Unobserved
  <2>1. u = t
    BY <1>1 DEF CallsInv, Unobserved
  <2>2. \A w \in Threads : w # u => pc'[w] = "idle"
    BY <1>6, <2>1 DEF CallsInv, Unobserved
  <2>3. SUFFICES ASSUME Len(todo[t]) = 2
                 PROVE  Halves(todo'[t], q, versions'[q], ledger)
    BY <1>4, <1>8, <1>9, <2>1, <2>2 DEF q
  <2>4. PICK log, e : /\ Halves(todo[t], q, versions[q], log)
                      /\ ledger = Append(log, e) /\ Tells(e, q, Head(todo[t]))
    BY <1>1, <1>2, <2>1 DEF CallsInv, Unobserved, q
  <2>5. ~SecondHalf(todo[t], q, versions[q], log)
    <3>1. \A z : todo[t] # <<z>>
      BY <2>3, ShortLists
    <3> QED BY <3>1 DEF SecondHalf
  <2>6. IsSeq(log) /\ todo[t] \in Plans(Last(versions[q]))
    BY <2>4, <2>5 DEF Halves, FirstHalf
  <2>7. PICK b \in Bodies, level \in Registry!Levels :
          Superseding(Last(versions[q]), todo[t], b, level)
    BY <2>3, <2>6, PairSupersedes
  <2> DEFINE w == Last(versions[q])
             old == Store("SUPERSEDED", Registry!Superseded(w))
             new == Store("AMENDED", Registry!Amended(w, b, level))
  <2>8. Head(todo[t]) = old /\ Tail(todo[t]) = <<new>>
    <3>1. todo[t] = <<old, new>>
      BY <2>7 DEF Superseding
    <3> HIDE DEF old, new
    <3> QED BY <3>1, ShortLists
  <2>9. v = Registry!Superseded(w) /\ todo'[t] = <<new>>
    <3>1. v = Registry!Superseded(w)
      BY <2>8 DEF v, Store
    <3>2. todo'[t] = Tail(todo[t])
      BY <1>7a
    <3> QED BY <2>8, <3>1, <3>2
  <2>10. w.status = "CERTIFIED" /\ versions[q] # <<>>
    BY <1>5, <2>7 DEF Superseding, CallsInv, VersionsShape
  <2>11. versions'[q] = Append(versions[q], Registry!Superseded(w))
    BY <1>5, <2>9
  <2>12. Tells(e, q, old)
    BY <2>4, <2>8
  <2>13. SecondHalf(todo'[t], q, versions'[q], ledger)
    BY <1>5, <2>4, <2>6, <2>9, <2>10, <2>11, <2>12 DEF SecondHalf
  <2>14. IsSeq(ledger)
    BY DEF CallsInv, ThreadsInv, Shape
  <2> QED BY <2>13, <2>14 DEF Halves
<1>15. alone' \in Threads \cup {NoThread}
  BY <1>1 DEF CallsInv
<1> QED BY <1>10, <1>11, <1>12, <1>13, <1>14, <1>15 DEF CallsInv

LEMMA CallsStep == CallsInv /\ [Next]_vars => CallsInv'
<1> SUFFICES ASSUME CallsInv, [Next]_vars PROVE CallsInv'
  OBVIOUS
<1>1. ThreadsInv'
  BY ThreadsStep DEF CallsInv
<1>2. CASE UNCHANGED vars
  <2>1. UNCHANGED <<versions, ledger, pc, rule, todo, alone, served>>
    BY <1>2 DEF vars, memory, locals, marks
  <2>2. QuietMove
    BY <2>1 DEF QuietMove, Working
  <2> QED BY <1>1, <2>2, QuietCalls
<1>3. ASSUME NEW t \in Threads, Continue(t) PROVE CallsInv'
  BY <1>1, <1>3, StepKinds, QuietCalls, AppendCalls, PushCalls DEF CallsInv
<1>4. ASSUME NEW t \in Threads, NEW r \in Rules, Begin(t, r) PROVE CallsInv'
  BY <1>1, <1>4, BeginCalls
<1> QED BY <1>2, <1>3, <1>4 DEF Next

\* The entries a caller sees.
Shown(log) ==
  [i \in DOMAIN log |->
     [rule |-> log[i].rule, transition |-> log[i].transition, to |-> log[i].to,
      number |-> log[i].number, at |-> 0]]

Finished(log) == IF Last(log).to = "SUPERSEDED" THEN Front(log) ELSE log

LEMMA WholeLedgerIs == WholeLedger = Shown(Finished(StoredLedger))
BY DEF WholeLedger, Shown, Finished

LEMMA ShownAppend ==
  ASSUME NEW log, IsSeq(log), NEW e, NEW r, NEW stored, Tells(e, r, stored)
  PROVE  /\ IsSeq(Shown(log)) /\ Len(Shown(log)) = Len(log)
         /\ Shown(Append(log, e)) =
              Registry!Logged(Shown(log), r, stored.transition, stored.version)
<1> DEFINE a == Append(log, e)
           line(f) == [rule |-> f.rule, transition |-> f.transition, to |-> f.to,
                       number |-> f.number, at |-> 0]
           new == [rule |-> r, transition |-> stored.transition,
                   to |-> stored.version.status, number |-> stored.version.number,
                   at |-> 0]
           S == {line(log[i]) : i \in DOMAIN log} \cup {new}
           n == Len(log)
<1>1. /\ IsSeq(a) /\ DOMAIN log = 1..n /\ n \in Nat
      /\ DOMAIN a = 1..n + 1 /\ Len(a) = n + 1
      /\ \A i \in 1..n : a[i] = log[i]
      /\ a[n + 1] = e
  BY AppendFacts
<1>2. line(e) = new
  BY DEF Tells
<1>3. Shown(log) \in [1..n -> S] /\ \A i \in 1..n : Shown(log)[i] = line(log[i])
  BY <1>1 DEF Shown
<1>4. Shown(a) = [i \in 1..n + 1 |-> line(a[i])]
  BY <1>1 DEF Shown
<1> HIDE DEF a, line, S, n, new
<1>5. Shown(log) \in Seq(S) /\ Len(Shown(log)) = n /\ IsSeq(Shown(log))
  BY <1>1, <1>3, FunctionIsSeq
<1>6. /\ DOMAIN Append(Shown(log), new) = 1..n + 1
      /\ \A i \in 1..n : Append(Shown(log), new)[i] = Shown(log)[i]
      /\ Append(Shown(log), new)[n + 1] = new
  BY <1>5, AppendFacts
<1>7. Append(Shown(log), new) \in Seq(S)
  BY <1>5 DEF S
<1>8. Shown(a) \in [1..n + 1 -> S] /\ \A i \in 1..n + 1 : Shown(a)[i] = Append(Shown(log), new)[i]
  <2>1. ASSUME NEW i \in 1..n + 1
        PROVE  Shown(a)[i] \in S /\ Shown(a)[i] = Append(Shown(log), new)[i]
    <3>1. CASE i \in 1..n
      BY <1>1, <1>3, <1>4, <1>6, <3>1
    <3>2. CASE i = n + 1
      BY <1>1, <1>2, <1>4, <1>6, <3>2 DEF S
    <3>3. n \in Nat
      BY <1>1
    <3>4. i \in 1..n \/ i = n + 1
      BY <3>3
    <3> QED BY <3>1, <3>2, <3>4
  <2> QED BY <1>4, <2>1
<1>9. Shown(a) = Append(Shown(log), new)
  <2>1. Shown(a) \in Seq(S) /\ Len(Shown(a)) = n + 1
    BY <1>1, <1>8, FunctionIsSeq
  <2>2. Len(Append(Shown(log), new)) = n + 1
    BY <1>5, AppendFacts
  <2> QED BY <1>7, <1>8, <2>1, <2>2, SeqEqual
<1> QED BY <1>5, <1>9 DEF a, n, new, Registry!Logged

\* Nothing changes for the caller unless something is entered or stored.
LEMMA Unseen ==
  ASSUME UNCHANGED <<versions, ledger>>,
         \A u \in Threads : pc'[u] = "push" <=> pc[u] = "push"
  PROVE  UNCHANGED Registry!vars
<1>1. WholeVersions' = WholeVersions
  BY DEF WholeVersions
<1>2. StoredLedger' = StoredLedger
  BY DEF StoredLedger
<1>3. WholeLedger' = WholeLedger
  BY <1>2 DEF WholeLedger
<1> QED BY <1>1, <1>3 DEF Registry!vars

\* An entry is not seen before its version is stored.
LEMMA AppendUnseen ==
  ASSUME CallsInv, alone # NoThread, NEW t \in Threads, AppendEntry(t)
  PROVE  UNCHANGED Registry!vars
<1>1. /\ pc[t] = "append" /\ pc' = [pc EXCEPT ![t] = "push"]
      /\ versions' = versions
  BY DEF AppendEntry, Goes
<1>2. PICK e : ledger' = Append(ledger, e)
  BY DEF AppendEntry
<1>3. alone = t /\ \A u \in Threads : u # t => pc[u] = "idle"
  BY <1>1 DEF CallsInv, Unobserved
<1>4. StoredLedger = ledger
  BY <1>1, <1>3 DEF StoredLedger
<1>5. StoredLedger' = ledger
  <2>1. pc'[t] = "push"
    BY <1>1 DEF CallsInv, ThreadsInv, Shape
  <2>2. StoredLedger' = Front(ledger')
    BY <2>1 DEF StoredLedger
  <2>3. Front(Append(ledger, e)) = ledger
    BY AppendEnds DEF CallsInv, ThreadsInv, Shape
  <2> QED BY <1>2, <2>2, <2>3
<1>6. WholeLedger' = WholeLedger
  BY <1>4, <1>5 DEF WholeLedger
<1>7. WholeVersions' = WholeVersions
  BY <1>1 DEF WholeVersions
<1> QED BY <1>6, <1>7 DEF Registry!vars

\* A version is seen once it is stored, and its entry with it.
LEMMA PushSeen ==
  ASSUME CallsInv, alone # NoThread, NEW t \in Threads, Push(t)
  PROVE  Registry!Next \/ UNCHANGED Registry!vars
<1> DEFINE v == Head(todo[t]).version
           q == rule[t]
           vs == versions[q]
<1>1. /\ pc[t] = "push"
      /\ versions' = [versions EXCEPT ![q] = Append(vs, v)]
      /\ pc' = [pc EXCEPT ![t] = IF Len(todo[t]) > 1 THEN "length" ELSE "rules"]
      /\ UNCHANGED ledger
  BY DEF Push
<1>2. alone = t /\ \A u \in Threads : u # t => pc[u] = "idle"
  BY <1>1 DEF CallsInv, Unobserved
<1>3. PICK log, e : /\ Halves(todo[t], q, vs, log)
                    /\ ledger = Append(log, e) /\ Tells(e, q, Head(todo[t]))
  BY <1>1, <1>2 DEF CallsInv, Unobserved, Working
<1>4. /\ q \in Rules /\ IsSeq(vs) /\ vs # <<>> /\ IsVersion(Last(vs))
      /\ versions = [r \in Rules |-> versions[r]]
  BY <1>1, LastIsVersion DEF CallsInv, ThreadsInv, Shape
<1>5. IsSeq(log) /\ e.to = v.status
  BY <1>3 DEF Halves, Tells
<1>6. Last(ledger) = e /\ Front(ledger) = log /\ ledger # <<>>
  BY <1>3, <1>5, AppendEnds
<1>7. WholeLedger = Shown(Finished(log))
  <2>1. StoredLedger = log
    BY <1>1, <1>6 DEF StoredLedger
  <2> QED BY <2>1, WholeLedgerIs
<1>8. WholeLedger' = Shown(IF v.status = "SUPERSEDED" THEN log ELSE Append(log, e))
  <2>1. \A u \in Threads : pc'[u] # "push"
    BY <1>1, <1>2 DEF CallsInv, ThreadsInv, Shape
  <2>2. StoredLedger' = ledger
    BY <1>1, <2>1 DEF StoredLedger
  <2>3. WholeLedger' = Shown(Finished(ledger))
    BY <2>2 DEF WholeLedger, Shown, Finished
  <2> QED BY <1>3, <1>5, <1>6, <2>3 DEF Finished
<1>9. WholeVersions[q] = IF Last(vs).status = "SUPERSEDED" THEN Front(vs) ELSE vs
  BY <1>4 DEF WholeVersions
<1>10. WholeVersions' = [WholeVersions EXCEPT ![q] =
                           IF v.status = "SUPERSEDED" THEN vs ELSE Append(vs, v)]
  <2>1. Last(Append(vs, v)) = v /\ Front(Append(vs, v)) = vs
    BY <1>4, AppendEnds
  <2>2. WholeVersions' = [r \in Rules |-> IF Last(versions'[r]).status = "SUPERSEDED"
                                            THEN Front(versions'[r]) ELSE versions'[r]]
    BY DEF WholeVersions
  <2>3. versions'[q] = Append(vs, v) /\ \A r \in Rules \ {q} : versions'[r] = versions[r]
    BY <1>1, <1>4
  <2> HIDE DEF q, v, vs
  <2>4. [WholeVersions EXCEPT ![q] = IF v.status = "SUPERSEDED" THEN vs ELSE Append(vs, v)]
        = [r \in Rules |-> IF r = q
                             THEN IF v.status = "SUPERSEDED" THEN vs ELSE Append(vs, v)
                             ELSE WholeVersions[r]]
    BY DEF WholeVersions
  <2>5. ASSUME NEW r \in Rules, r # q
        PROVE  WholeVersions[r] = IF Last(versions'[r]).status = "SUPERSEDED"
                                    THEN Front(versions'[r]) ELSE versions'[r]
    <3>1. versions'[r] = versions[r]
      BY <2>3, <2>5
    <3>2. WholeVersions[r] = IF Last(versions[r]).status = "SUPERSEDED"
                               THEN Front(versions[r]) ELSE versions[r]
      BY DEF WholeVersions
    <3> QED BY <3>1, <3>2
  <2>6. (IF Last(versions'[q]).status = "SUPERSEDED"
           THEN Front(versions'[q]) ELSE versions'[q])
        = IF v.status = "SUPERSEDED" THEN vs ELSE Append(vs, v)
    BY <2>1, <2>3
  <2> QED BY <1>4, <2>2, <2>4, <2>5, <2>6
<1>11. Len(log) \in Nat /\ Len(log) + 1 <= MaxLedger
  <2>1. Len(log) \in Nat /\ Len(ledger) = Len(log) + 1
    BY <1>3, <1>5, AppendFacts
  <2>2. /\ served \in Nat /\ served <= MaxCalls
        /\ Len(ledger) + Cardinality(Pending) <= 2 * Cardinality(Rules) + 2 * served
    BY DEF CallsInv, RoomLeft
  <2> QED BY <2>1, <2>2, PendingIsFinite, RoomAssumption, ThreadsAssumption
<1> HIDE DEF v, q, vs
<1>12. CASE FirstHalf(todo[t], vs, log)
  <2>1. /\ todo[t] \in Plans(Last(vs))
        /\ WholeVersions[q] = vs /\ WholeLedger = Shown(log)
    BY <1>7, <1>9, <1>12 DEF FirstHalf, Finished
  <2>2. Registry!Current(q) = Last(vs) /\ Registry!Known(q)
    BY <1>4, <2>1 DEF Registry!Current, Registry!Known, Last
  <2>3. Registry!Room(1)
    BY <1>5, <1>11, <1>3, <2>1, ShownAppend DEF Registry!Room
  <2>4. ASSUME NEW transition, NEW w, Head(todo[t]) = Store(transition, w),
               w.status # "SUPERSEDED"
        PROVE  Registry!Record(q, transition, w)
    <3>1. v = w /\ Head(todo[t]).transition = transition /\ Head(todo[t]).version = w
      BY <2>4 DEF v, Store
    <3>2. WholeLedger' = Registry!Logged(WholeLedger, q, transition, w)
      BY <1>3, <1>5, <1>8, <2>1, <2>4, <3>1, ShownAppend
    <3>3. WholeVersions' = Registry!Stored(WholeVersions, q, w)
      BY <1>10, <2>1, <2>4, <3>1 DEF Registry!Stored
    <3> QED BY <3>2, <3>3 DEF Registry!Record
  <2>5. CASE Signing(Last(vs), todo[t])
    <3>1. Head(todo[t]) = Store("CERTIFIED", Registry!Certified(Last(vs)))
      BY <2>5, ShortLists DEF Signing
    <3>2. Registry!Record(q, "CERTIFIED", Registry!Certified(Last(vs)))
      BY <1>4, <2>4, <3>1, VersionForms
    <3>3. Registry!Certify(q)
      BY <2>2, <2>3, <2>5, <3>2 DEF Registry!Certify, Signing
    <3> QED BY <1>4, <3>3 DEF Registry!Next
  <2>6. CASE Refusing(Last(vs), todo[t])
    <3>1. Head(todo[t]) = Store("REJECTED", Registry!Rejected(Last(vs)))
      BY <2>6, ShortLists DEF Refusing
    <3>2. Registry!Record(q, "REJECTED", Registry!Rejected(Last(vs)))
      BY <1>4, <2>4, <3>1, VersionForms
    <3>3. Registry!Reject(q)
      BY <2>2, <2>3, <2>6, <3>2 DEF Registry!Reject, Refusing
    <3> QED BY <1>4, <3>3 DEF Registry!Next
  <2>7. ASSUME NEW b \in Bodies, NEW level \in Registry!Levels,
               Editing(Last(vs), todo[t], b, level)
        PROVE  Registry!Next
    <3>1. Head(todo[t]) = Store("AMENDED", Registry!Amended(Last(vs), b, level))
      BY <2>7, ShortLists DEF Editing
    <3>2. Registry!Record(q, "AMENDED", Registry!Amended(Last(vs), b, level))
      BY <1>4, <2>4, <3>1, VersionForms
    <3>3. Registry!Amend(q, b, level)
      BY <2>2, <2>3, <2>7, <3>2 DEF Registry!Amend, Registry!AmendUnsigned, Editing
    <3> QED BY <1>4, <3>3 DEF Registry!Next
  <2>8. ASSUME NEW b \in Bodies, NEW level \in Registry!Levels,
               Superseding(Last(vs), todo[t], b, level)
        PROVE  UNCHANGED Registry!vars
    <3>1. Head(todo[t]) = Store("SUPERSEDED", Registry!Superseded(Last(vs)))
      BY <2>8, ShortLists DEF Superseding
    <3>2. v.status = "SUPERSEDED"
      BY <1>4, <3>1, VersionForms DEF v, Store
    <3>3. WholeLedger' = WholeLedger
      BY <1>8, <2>1, <3>2
    <3>4. WholeVersions' = WholeVersions
      <4>1. WholeVersions = [r \in Rules |-> WholeVersions[r]]
        BY DEF WholeVersions
      <4> QED BY <1>10, <2>1, <3>2, <4>1
    <3> QED BY <3>3, <3>4 DEF Registry!vars
  <2> QED BY <2>1, <2>5, <2>6, <2>7, <2>8, PlanForms
<1>13. CASE SecondHalf(todo[t], q, vs, log)
  <2>1. PICK kept, book, f : \E b \in Bodies, level \in Registry!Levels :
          /\ IsSeq(kept) /\ kept # <<>> /\ Last(kept).status = "CERTIFIED"
          /\ vs = Append(kept, Registry!Superseded(Last(kept)))
          /\ todo[t] = <<Store("AMENDED", Registry!Amended(Last(kept), b, level))>>
          /\ IsSeq(book) /\ log = Append(book, f)
          /\ Tells(f, q, Store("SUPERSEDED", Registry!Superseded(Last(kept))))
    BY <1>13 DEF SecondHalf
  <2>1a. PICK b \in Bodies, level \in Registry!Levels :
           todo[t] = <<Store("AMENDED", Registry!Amended(Last(kept), b, level))>>
    BY <2>1
  <2> DEFINE old == Registry!Superseded(Last(kept))
             new == Registry!Amended(Last(kept), b, level)
  <2>2. Head(todo[t]) = Store("AMENDED", new)
    BY <2>1a, ShortLists
  <2>3. /\ v = new /\ Head(todo[t]).transition = "AMENDED" /\ Head(todo[t]).version = new
        /\ new.status = "PROPOSED"
    BY <2>2 DEF v, Store, Registry!Amended
  <2>4. old.status = "SUPERSEDED"
    <3>1. Last(vs) = old
      BY <2>1, AppendEnds
    <3>2. IsVersion(Last(kept))
      <4>1. /\ Len(kept) \in Nat /\ Len(kept) \in DOMAIN kept
            /\ Last(kept) = kept[Len(kept)] /\ DOMAIN kept = 1..Len(kept)
        BY <2>1, LastOf, SeqFacts
      <4>2. vs[Len(kept)] = kept[Len(kept)] /\ Len(kept) \in DOMAIN vs
        BY <2>1, <4>1, AppendFacts
      <4> QED BY <1>4, <4>1, <4>2 DEF CallsInv, VersionsShape, vs
    <3> QED BY <3>2, VersionForms
  <2>5. WholeVersions[q] = kept
    <3>1. Last(vs) = old /\ Front(vs) = kept
      BY <2>1, AppendEnds
    <3> QED BY <1>9, <2>4, <3>1
  <2>6. WholeLedger = Shown(book)
    <3>1. Last(log) = f /\ Front(log) = book
      BY <2>1, AppendEnds
    <3>2. f.to = "SUPERSEDED"
      BY <2>1, <2>4 DEF Tells, Store
    <3> QED BY <1>7, <3>1, <3>2 DEF Finished
  <2>7. Registry!Current(q) = Last(kept) /\ Registry!Is(q, "CERTIFIED")
    BY <2>1, <2>5 DEF Registry!Current, Registry!Known, Registry!Is, Last
  <2>8. Registry!Room(2)
    <3>1. Len(log) = Len(book) + 1 /\ Len(book) \in Nat
      BY <2>1, AppendFacts
    <3>2. Len(WholeLedger) = Len(book)
      BY <2>1, <2>6, ShownAppend
    <3> QED BY <1>11, <3>1, <3>2, RoomAssumption DEF Registry!Room
  <2> HIDE DEF old, new
  <2>9. WholeLedger' = Registry!Logged(Registry!Logged(WholeLedger, q, "SUPERSEDED", old),
                                       q, "AMENDED", new)
    <3>1. Shown(log) = Registry!Logged(Shown(book), q, "SUPERSEDED", old)
      <4>1. Store("SUPERSEDED", old).transition = "SUPERSEDED"
            /\ Store("SUPERSEDED", old).version = old
        BY DEF Store
      <4>2. Tells(f, q, Store("SUPERSEDED", old))
        BY <2>1 DEF old
      <4> QED BY <2>1, <4>1, <4>2, ShownAppend
    <3>2. Shown(Append(log, e)) = Registry!Logged(Shown(log), q, "AMENDED", new)
      BY <1>3, <1>5, <2>3, ShownAppend
    <3> QED BY <1>8, <2>3, <2>6, <3>1, <3>2
  <2>10. WholeVersions' = Registry!Stored(Registry!Stored(WholeVersions, q, old), q, new)
    <3>1. vs = Append(kept, old)
      BY <2>1 DEF old
    <3>2. WholeVersions' = [WholeVersions EXCEPT ![q] = Append(Append(kept, old), new)]
      BY <1>10, <2>3, <3>1
    <3>3. WholeVersions = [r \in Rules |-> WholeVersions[r]]
      BY DEF WholeVersions
    <3> QED BY <1>4, <2>5, <3>2, <3>3 DEF Registry!Stored
  <2>11. Registry!AmendSigned(q, b, level)
    BY <2>7, <2>8, <2>9, <2>10 DEF Registry!AmendSigned, old, new
  <2> QED BY <1>4, <2>1, <2>11 DEF Registry!Next, Registry!Amend
<1> QED BY <1>3, <1>12, <1>13 DEF Halves

\* However many threads there are, a call no other call overlaps is, for whoever sees
\* only finished calls, exactly one transition of RuleLifecycle.
THEOREM CallAlwaysTransition == Spec => CallIsTransition
<1>1. CallsInv /\ [Next]_vars =>
        [alone # NoThread => Registry!Next]_(Registry!vars)
  <2> SUFFICES ASSUME CallsInv, [Next]_vars, alone # NoThread
               PROVE  Registry!Next \/ UNCHANGED Registry!vars
    OBVIOUS
  <2>1. CASE UNCHANGED vars
    BY <2>1, Unseen DEF vars, memory, locals
  <2>2. ASSUME NEW t \in Threads, Continue(t)
        PROVE  Registry!Next \/ UNCHANGED Registry!vars
    <3>1. CASE QuietMove
      BY <3>1, Unseen DEF QuietMove
    <3> QED BY <2>2, <3>1, StepKinds, AppendUnseen, PushSeen DEF CallsInv
  <2>3. ASSUME NEW t \in Threads, NEW r \in Rules, Begin(t, r)
        PROVE  UNCHANGED Registry!vars
    <3>1. /\ UNCHANGED <<versions, ledger>> /\ pc[t] = "idle"
          /\ pc' = [pc EXCEPT ![t] = "length"]
      BY <2>3 DEF Begin, Goes, memory
    <3>2. \A u \in Threads : pc'[u] = "push" <=> pc[u] = "push"
      BY <3>1 DEF CallsInv, ThreadsInv, Shape
    <3> QED BY <3>1, <3>2, Unseen
  <2> QED BY <2>1, <2>2, <2>3 DEF Next
<1> QED BY <1>1, CallsInitInv, CallsStep, PTL DEF Spec, CallIsTransition
=============================================================================
