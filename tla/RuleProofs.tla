---------------------------- MODULE RuleProofs ----------------------------
(***************************************************************************)
(* Theorems about the rule registry, for every set of rules and bodies and *)
(* every bound.  A step stores one version or two; each invariant is       *)
(* proved for one stored version (the Push lemmas) and applied once or     *)
(* twice.                                                                  *)
(*                                                                         *)
(* RuleRegistry.as_of replays the rulebook by counting ledger entries; the *)
(* second part says that the count is right: the Nth entry for a rule      *)
(* produced its Nth version, the present replays to the rulebook in force, *)
(* and the answer about a past moment never changes.                       *)
(*                                                                         *)
(* The third part is the refinement of RulebookPromise: a draft, a         *)
(* signature, a refusal and an amendment of the registry are the promise's *)
(* Draft, Sign, Refuse and Revise.                                         *)
(*                                                                         *)
(* The fourth part is about rules.json, which the registry is saved to:    *)
(* AtomicWrite, for any writers, processes and inodes, as long as the      *)
(* writers take the lock.                                                  *)
(*                                                                         *)
(* The last part is about what certified rules find in a firm's records:   *)
(* RuleEngine and DutyCalendar, for every rulebook, table of months, list  *)
(* of holidays and window that the assumptions allow.                      *)
(***************************************************************************)
EXTENDS RuleLifecycle, AtomicWrite, RuleEngine, SequenceTheorems, FiniteSetTheorems,
        WellFoundedInduction, TLAPS

-----------------------------------------------------------------------------
(* The shape of a step.                                                    *)

\* What each transition makes of a version is a version.
LEMMA VersionTypes ==
  ASSUME NEW v \in Version, NEW b \in Bodies, NEW level \in Levels
  PROVE  /\ Certified(v) \in Version
         /\ Rejected(v) \in Version
         /\ Superseded(v) \in Version
         /\ Amended(v, b, level) \in Version
<1>1. v.number \in Number /\ v.body \in Bodies
  BY DEF Version
<1>2. BumpVersion(v.number, level) \in Number
  BY <1>1 DEF BumpVersion, Number
<1>3. [body |-> v.body, number |-> v.number] \in Signature
  BY <1>1 DEF Signature
<1>4. QED
  BY <1>2, <1>3 DEF Version, Status, Certified, Rejected, Superseded, Amended

\* A fresh draft is a version.
LEMMA DraftType ==
  ASSUME NEW b \in Bodies
  PROVE  Draft(b) \in Version
BY DEF Draft, Version, Status, FirstNumber, Number

\* The inductive invariant.  Rejecting a superseded version would leave a
\* signature on a rejected one, so soundness needs SupersededIsReplaced, which
\* says the version in force is never superseded.
RegistryInv == TypeOK /\ SignaturesHold /\ SupersededIsReplaced

\* The version in force is a version, sound, and never superseded.
LEMMA CurrentType ==
  ASSUME RegistryInv, NEW r \in Rules, Known(r)
  PROVE  /\ Len(versions[r]) \in Nat \ {0}
         /\ Current(r) \in Version
         /\ Sound(Current(r))
         /\ Current(r).status # "SUPERSEDED"
<1>1. versions[r] \in Seq(Version) /\ versions[r] # <<>>
  BY DEF TypeOK, Known, RegistryInv
<1>2. Len(versions[r]) \in Nat \ {0} /\ Current(r) \in Version
  BY <1>1, EmptySeq, LenProperties, ElementOfSeq DEF Current
<1>3. Sound(Current(r))
  BY <1>2 DEF RegistryInv, SignaturesHold, SoundHistory, Current
<1>4. Current(r).status # "SUPERSEDED"
  BY <1>2 DEF RegistryInv, SupersededIsReplaced, Current
<1>5. QED
  BY <1>2, <1>3, <1>4

\* One version stored under a transition other than a supersession.
OneStored(r, t, v) ==
  /\ Record(r, t, v)
  /\ v.status # "SUPERSEDED"
  /\ Sound(v)

\* The two versions an amendment of a signed rule stores.
TwoStored(r, v, w) ==
  /\ Known(r)
  /\ ledger' = Logged(Logged(ledger, r, "SUPERSEDED", v), r, "AMENDED", w)
  /\ versions' = Stored(Stored(versions, r, v), r, w)
  /\ UNCHANGED now
  /\ v.status = "SUPERSEDED" /\ w.status = "PROPOSED"
  /\ Sound(v) /\ Sound(w)

\* Every step stores no version, one, or the two of a supersession, and what
\* it stores is sound when what was there is.
LEMMA StepShape ==
  ASSUME RegistryInv, [Next]_vars
  PROVE  \/ UNCHANGED <<versions, ledger>> /\ now' \in Nat /\ now <= now'
         \/ \E r \in Rules, t \in Transition, v \in Version : OneStored(r, t, v)
         \/ \E r \in Rules, v \in Version, w \in Version : TwoStored(r, v, w)
<1>1. ASSUME NEW r \in Rules, NEW b \in Bodies, Propose(r, b)
      PROVE  OneStored(r, "PROPOSED", Draft(b))
  BY <1>1 DEF Propose, OneStored, Draft, Sound
<1>2. ASSUME NEW r \in Rules, Certify(r)
      PROVE  Known(r) /\ OneStored(r, "CERTIFIED", Certified(Current(r)))
  <2>1. /\ Known(r)
        /\ Current(r).body \notin Blocked
        /\ Record(r, "CERTIFIED", Certified(Current(r)))
    BY <1>2 DEF Certify
  <2>2. Current(r) \in Version
    BY <2>1, CurrentType
  <2>3. /\ Certified(Current(r)).status = "CERTIFIED"
        /\ Sound(Certified(Current(r)))
    BY <2>1, <2>2 DEF Certified, Sound, Verifies, Version
  <2>4. QED
    BY <2>1, <2>3 DEF OneStored
<1>3. ASSUME NEW r \in Rules, Reject(r)
      PROVE  Known(r) /\ OneStored(r, "REJECTED", Rejected(Current(r)))
  <2>1. Known(r) /\ Current(r).status # "CERTIFIED"
        /\ Record(r, "REJECTED", Rejected(Current(r)))
    BY <1>3 DEF Reject
  <2>2. Current(r) \in Version /\ Current(r).signature = NoSignature
    BY <2>1, CurrentType DEF Sound
  <2>3. /\ Rejected(Current(r)).status = "REJECTED"
        /\ Sound(Rejected(Current(r)))
    BY <2>2 DEF Rejected, Sound, Version
  <2>4. QED
    BY <2>1, <2>3 DEF OneStored
<1>4. ASSUME NEW r \in Rules, NEW b \in Bodies, NEW level \in Levels,
             AmendUnsigned(r, b, level)
      PROVE  Known(r) /\ OneStored(r, "AMENDED", Amended(Current(r), b, level))
  BY <1>4 DEF AmendUnsigned, OneStored, Amended, Sound
<1>5. ASSUME NEW r \in Rules, NEW b \in Bodies, NEW level \in Levels,
             AmendSigned(r, b, level)
      PROVE  /\ Known(r)
             /\ TwoStored(r, Superseded(Current(r)), Amended(Current(r), b, level))
  <2>1. Known(r) /\ Current(r).status = "CERTIFIED"
    BY <1>5 DEF AmendSigned, Is
  <2>2. Current(r) \in Version /\ Sound(Current(r))
    BY <2>1, CurrentType
  <2>3. /\ Superseded(Current(r)).status = "SUPERSEDED"
        /\ Sound(Superseded(Current(r)))
    BY <2>1, <2>2 DEF Superseded, Sound, Verifies, Version
  <2>4. /\ Amended(Current(r), b, level).status = "PROPOSED"
        /\ Sound(Amended(Current(r), b, level))
    BY DEF Amended, Sound
  <2>5. QED
    BY <1>5, <2>1, <2>3, <2>4 DEF AmendSigned, TwoStored
<1>6. Tick \/ UNCHANGED vars
      => UNCHANGED <<versions, ledger>> /\ now' \in Nat /\ now <= now'
  BY DEF Tick, vars, TypeOK, RegistryInv
<1>7. {"PROPOSED", "CERTIFIED", "REJECTED", "AMENDED"} \subseteq Transition
  BY DEF Transition, Status
<1>8. CASE \E r \in Rules, b \in Bodies : Propose(r, b)
  BY <1>1, <1>7, <1>8, DraftType
<1>9. CASE \E r \in Rules : Certify(r)
  <2>1. PICK r \in Rules : Certify(r)
    BY <1>9
  <2>2. Certified(Current(r)) \in Version
    <3>1. PICK b \in Bodies : TRUE
      BY <1>2, <2>1, CurrentType DEF Version
    <3>2. QED
      BY <1>2, <2>1, <3>1, CurrentType, VersionTypes DEF Levels
  <2>3. QED
    BY <1>2, <1>7, <2>1, <2>2
<1>10. CASE \E r \in Rules : Reject(r)
  <2>1. PICK r \in Rules : Reject(r)
    BY <1>10
  <2>2. Rejected(Current(r)) \in Version
    <3>1. PICK b \in Bodies : TRUE
      BY <1>3, <2>1, CurrentType DEF Version
    <3>2. QED
      BY <1>3, <2>1, <3>1, CurrentType, VersionTypes DEF Levels
  <2>3. QED
    BY <1>3, <1>7, <2>1, <2>2
<1>11. CASE \E r \in Rules, b \in Bodies, level \in Levels : Amend(r, b, level)
  <2>1. PICK r \in Rules, b \in Bodies, level \in Levels : Amend(r, b, level)
    BY <1>11
  <2>2. /\ Amended(Current(r), b, level) \in Version
        /\ Superseded(Current(r)) \in Version
    BY <1>4, <1>5, <2>1, CurrentType, VersionTypes DEF Amend
  <2>3. CASE AmendUnsigned(r, b, level)
    BY <1>4, <1>7, <2>2, <2>3
  <2>4. CASE AmendSigned(r, b, level)
    BY <1>5, <2>2, <2>4
  <2>5. QED
    BY <2>1, <2>3, <2>4 DEF Amend
<1>12. QED
  BY <1>6, <1>8, <1>9, <1>10, <1>11 DEF Next
-----------------------------------------------------------------------------
(* The inductive invariant.                                                *)

\* Storing a version and logging its transition keeps the types.
LEMMA PushTypes ==
  ASSUME NEW vs \in [Rules -> Seq(Version)], NEW log \in Seq(Entry), now \in Nat,
         NEW r \in Rules, NEW t \in Transition, NEW v \in Version
  PROVE  /\ Stored(vs, r, v) \in [Rules -> Seq(Version)]
         /\ Logged(log, r, t, v) \in Seq(Entry)
<1>1. Append(vs[r], v) \in Seq(Version)
  BY AppendProperties
<1>2. [rule |-> r, transition |-> t, to |-> v.status, number |-> v.number,
       at |-> now] \in Entry
  BY DEF Entry, Version
<1>3. QED
  BY <1>1, <1>2, AppendProperties DEF Stored, Logged

\* What storing a version does to the history of each rule.
LEMMA StoredHistory ==
  ASSUME NEW vs \in [Rules -> Seq(Version)], NEW r \in Rules, NEW v \in Version,
         NEW x \in Rules
  PROVE  /\ Len(Stored(vs, r, v)[x]) = IF x = r THEN Len(vs[x]) + 1 ELSE Len(vs[x])
         /\ Len(vs[x]) \in Nat
         /\ \A i \in 1..Len(vs[x]) : Stored(vs, r, v)[x][i] = vs[x][i]
         /\ Stored(vs, r, v)[r][Len(vs[r]) + 1] = v
<1>1. vs[x] \in Seq(Version) /\ vs[r] \in Seq(Version)
  OBVIOUS
<1>2. QED
  BY <1>1, AppendProperties, LenProperties DEF Stored

\* The same, fact by fact.
LEMMA StoredLength ==
  ASSUME NEW vs \in [Rules -> Seq(Version)], NEW r \in Rules, NEW v \in Version,
         NEW x \in Rules
  PROVE  Len(Stored(vs, r, v)[x]) = IF x = r THEN Len(vs[x]) + 1 ELSE Len(vs[x])
BY StoredHistory

LEMMA StoredBefore ==
  ASSUME NEW vs \in [Rules -> Seq(Version)], NEW r \in Rules, NEW v \in Version,
         NEW x \in Rules
  PROVE  \A i \in 1..Len(vs[x]) : Stored(vs, r, v)[x][i] = vs[x][i]
BY StoredHistory

LEMMA StoredLast ==
  ASSUME NEW vs \in [Rules -> Seq(Version)], NEW r \in Rules, NEW v \in Version
  PROVE  Stored(vs, r, v)[r][Len(vs[r]) + 1] = v
BY StoredHistory

\* Storing a sound version keeps the history sound.
LEMMA PushSound ==
  ASSUME NEW vs \in [Rules -> Seq(Version)], SoundHistory(vs),
         NEW r \in Rules, NEW v \in Version, Sound(v)
  PROVE  SoundHistory(Stored(vs, r, v))
<1>1. ASSUME NEW x \in Rules, NEW i \in 1..Len(Stored(vs, r, v)[x])
      PROVE  Sound(Stored(vs, r, v)[x][i])
  <2>1. CASE i \in 1..Len(vs[x])
    <3>1. Stored(vs, r, v)[x][i] = vs[x][i]
      BY <2>1, StoredBefore
    <3>2. Sound(vs[x][i])
      BY <2>1 DEF SoundHistory
    <3>3. QED
      BY <3>1, <3>2
  <2>2. CASE i \notin 1..Len(vs[x])
    <3>1. x = r /\ i = Len(vs[r]) + 1
      BY <1>1, <2>2, StoredHistory
    <3>2. QED
      BY <3>1, StoredLast
  <2>3. QED
    BY <2>1, <2>2
<1>2. QED
  BY <1>1 DEF SoundHistory

\* The registry's types.
LEMMA TypeStep == RegistryInv /\ [Next]_vars => TypeOK'
<1>1. SUFFICES ASSUME RegistryInv, [Next]_vars
               PROVE  TypeOK'
  OBVIOUS
<1>2. versions \in [Rules -> Seq(Version)] /\ ledger \in Seq(Entry) /\ now \in Nat
  BY <1>1 DEF RegistryInv, TypeOK
<1>3. CASE UNCHANGED <<versions, ledger>> /\ now' \in Nat /\ now <= now'
  BY <1>2, <1>3 DEF TypeOK
<1>4. ASSUME NEW r \in Rules, NEW t \in Transition, NEW v \in Version,
             OneStored(r, t, v)
      PROVE  TypeOK'
  BY <1>2, <1>4, PushTypes DEF OneStored, Record, TypeOK
<1>5. ASSUME NEW r \in Rules, NEW v \in Version, NEW w \in Version,
             TwoStored(r, v, w)
      PROVE  TypeOK'
  <2>1. {"SUPERSEDED", "AMENDED"} \subseteq Transition
    BY DEF Transition, Status
  <2>2. /\ Stored(versions, r, v) \in [Rules -> Seq(Version)]
        /\ Logged(ledger, r, "SUPERSEDED", v) \in Seq(Entry)
    BY <1>2, <2>1, PushTypes
  <2>3. QED
    BY <1>2, <1>5, <2>1, <2>2, PushTypes DEF TwoStored, TypeOK
<1>6. QED
  BY <1>1, <1>3, <1>4, <1>5, StepShape

\* Soundness of every stored version.
LEMMA SignaturesStep == RegistryInv /\ [Next]_vars => SignaturesHold'
<1>1. SUFFICES ASSUME RegistryInv, [Next]_vars
               PROVE  SoundHistory(versions')
  BY DEF SignaturesHold
<1>2. versions \in [Rules -> Seq(Version)] /\ ledger \in Seq(Entry) /\ now \in Nat
  BY <1>1 DEF RegistryInv, TypeOK
<1>3. SoundHistory(versions)
  BY <1>1 DEF RegistryInv, SignaturesHold
<1>4. ASSUME NEW r \in Rules, NEW t \in Transition, NEW v \in Version,
             OneStored(r, t, v)
      PROVE  SoundHistory(versions')
  BY <1>2, <1>3, <1>4, PushSound DEF OneStored, Record
<1>5. ASSUME NEW r \in Rules, NEW v \in Version, NEW w \in Version,
             TwoStored(r, v, w)
      PROVE  SoundHistory(versions')
  <2>1. Stored(versions, r, v) \in [Rules -> Seq(Version)]
    BY <1>2, PushTypes DEF Transition, Status
  <2>2. SoundHistory(Stored(versions, r, v))
    BY <1>2, <1>3, <1>5, PushSound DEF TwoStored
  <2>3. QED
    BY <1>5, <2>1, <2>2, PushSound DEF TwoStored
<1>6. QED
  BY <1>1, <1>3, <1>4, <1>5, StepShape

\* A superseded version keeps being followed by its replacement.
LEMMA SupersededStep == RegistryInv /\ [Next]_vars => SupersededIsReplaced'
<1>1. SUFFICES ASSUME RegistryInv, [Next]_vars,
                      NEW x \in Rules, NEW i \in 1..Len(versions'[x]),
                      versions'[x][i].status = "SUPERSEDED"
               PROVE  /\ i < Len(versions'[x])
                      /\ versions'[x][i + 1].status = "PROPOSED"
  BY DEF SupersededIsReplaced
<1>2. versions \in [Rules -> Seq(Version)] /\ Len(versions[x]) \in Nat
  BY <1>1, LenProperties DEF RegistryInv, TypeOK
<1>3. ASSUME i \in 1..Len(versions[x]), versions[x][i].status = "SUPERSEDED"
      PROVE  i < Len(versions[x]) /\ versions[x][i + 1].status = "PROPOSED"
  BY <1>1, <1>3 DEF RegistryInv, SupersededIsReplaced
<1>4. CASE UNCHANGED <<versions, ledger>> /\ now' \in Nat /\ now <= now'
  BY <1>1, <1>3, <1>4
<1>5. ASSUME NEW r \in Rules, NEW t \in Transition, NEW v \in Version,
             OneStored(r, t, v)
      PROVE  /\ i < Len(versions'[x])
             /\ versions'[x][i + 1].status = "PROPOSED"
  <2>1. versions' = Stored(versions, r, v) /\ v.status # "SUPERSEDED"
    BY <1>5 DEF OneStored, Record
  <2>2. /\ Len(versions'[x]) = IF x = r THEN Len(versions[x]) + 1 ELSE Len(versions[x])
        /\ \A j \in 1..Len(versions[x]) : versions'[x][j] = versions[x][j]
        /\ versions'[r][Len(versions[r]) + 1] = v
    BY <1>2, <2>1, StoredHistory
  <2>3. i \in 1..Len(versions[x])
    BY <1>1, <1>2, <2>1, <2>2
  <2>4. i < Len(versions[x]) /\ versions[x][i + 1].status = "PROPOSED"
    BY <1>1, <1>3, <2>2, <2>3
  <2>5. i + 1 \in 1..Len(versions[x])
    BY <1>2, <2>3, <2>4
  <2>6. versions'[x][i + 1] = versions[x][i + 1]
    BY <2>2, <2>5
  <2>7. QED
    BY <1>2, <2>2, <2>3, <2>4, <2>6
<1>6. ASSUME NEW r \in Rules, NEW v \in Version, NEW w \in Version,
             TwoStored(r, v, w)
      PROVE  /\ i < Len(versions'[x])
             /\ versions'[x][i + 1].status = "PROPOSED"
  <2> DEFINE mid == Stored(versions, r, v)
  <2>1. mid \in [Rules -> Seq(Version)]
    BY <1>2, AppendProperties DEF Stored
  <2>2. versions' = Stored(mid, r, w) /\ w.status = "PROPOSED"
    BY <1>6 DEF TwoStored
  <2> HIDE DEF mid
  <2>3. /\ Len(mid[x]) = IF x = r THEN Len(versions[x]) + 1 ELSE Len(versions[x])
        /\ \A j \in 1..Len(versions[x]) : mid[x][j] = versions[x][j]
    BY <1>2, StoredHistory DEF mid
  <2>4. /\ Len(versions'[x]) = IF x = r THEN Len(mid[x]) + 1 ELSE Len(mid[x])
        /\ \A j \in 1..Len(mid[x]) : versions'[x][j] = mid[x][j]
        /\ versions'[r][Len(mid[r]) + 1] = w
    BY <2>1, <2>2, StoredHistory
  <2>5. CASE i \in 1..Len(versions[x])
    <3>1. i \in 1..Len(mid[x])
      BY <1>2, <2>3, <2>5
    <3>2. versions'[x][i] = versions[x][i]
      BY <2>3, <2>4, <2>5, <3>1
    <3>3. i < Len(versions[x]) /\ versions[x][i + 1].status = "PROPOSED"
      BY <1>1, <1>3, <2>5, <3>2
    <3>4. i + 1 \in 1..Len(versions[x]) /\ i + 1 \in 1..Len(mid[x])
      BY <1>2, <2>3, <2>5, <3>3
    <3>5. versions'[x][i + 1] = versions[x][i + 1]
      BY <2>3, <2>4, <3>4
    <3>6. QED
      BY <1>2, <2>3, <2>4, <2>5, <3>3, <3>5
  <2>6. CASE i \notin 1..Len(versions[x])
    <3>1. x = r /\ i \in {Len(versions[x]) + 1, Len(versions[x]) + 2}
      BY <1>1, <1>2, <2>3, <2>4, <2>6
    <3>2. i # Len(versions[x]) + 2
      BY <1>1, <1>2, <2>2, <2>3, <2>4, <3>1
    <3>3. QED
      BY <1>2, <2>2, <2>3, <2>4, <3>1, <3>2
  <2>7. QED
    BY <2>5, <2>6
<1>7. QED
  BY <1>1, <1>4, <1>5, <1>6, StepShape

\* The registry is well typed, every signed version is sound, and the version
\* in force is never a superseded one, in every reachable state.
THEOREM RegistryCorrect == Spec => []RegistryInv
<1>1. Init => RegistryInv
  BY DEF Init, RegistryInv, TypeOK, SignaturesHold, SoundHistory,
         SupersededIsReplaced
<1>2. RegistryInv /\ [Next]_vars => RegistryInv'
  BY TypeStep, SignaturesStep, SupersededStep DEF RegistryInv
<1>3. QED
  BY <1>1, <1>2, PTL DEF Spec

\* Type correctness of the registry.
THEOREM TypeCorrect == Spec => []TypeOK
<1>1. RegistryInv => TypeOK
  BY DEF RegistryInv
<1>2. QED
  BY <1>1, RegistryCorrect, PTL

\* verify_signatures finds no tampered rule, however the rulebook was worked on.
THEOREM SignaturesAlwaysHold == Spec => []SignaturesHold
<1>1. RegistryInv => SignaturesHold
  BY DEF RegistryInv
<1>2. QED
  BY <1>1, RegistryCorrect, PTL

\* The text in force is never one that an amendment has superseded.
THEOREM SupersededAlwaysReplaced == Spec => []SupersededIsReplaced
<1>1. RegistryInv => SupersededIsReplaced
  BY DEF RegistryInv
<1>2. QED
  BY <1>1, RegistryCorrect, PTL

-----------------------------------------------------------------------------
(* Counting the entries of a rule.                                         *)

\* A count over a prefix is a number, and does not see what is appended.
LEMMA CountPrefix ==
  ASSUME NEW log \in Seq(Entry), NEW e \in Entry, NEW r \in Rules,
         NEW k \in 0..Len(log)
  PROVE  /\ CountIn(log, r, k) \in Nat
         /\ CountIn(Append(log, e), r, k) = CountIn(log, r, k)
<1>1. {i \in 1..k : log[i].rule = r} = {i \in 1..k : Append(log, e)[i].rule = r}
  BY AppendProperties, LenProperties
<1>2. IsFiniteSet(1..k)
  BY FS_Interval, LenProperties
<1>3. IsFiniteSet({i \in 1..k : log[i].rule = r})
  BY <1>2, FS_Subset
<1>4. QED
  BY <1>1, <1>3, FS_CardinalityType DEF CountIn

\* Appending an entry raises the count of its rule, and of no other, by one.
LEMMA CountAppend ==
  ASSUME NEW log \in Seq(Entry), NEW e \in Entry, NEW r \in Rules
  PROVE  CountIn(Append(log, e), r, Len(log) + 1) =
           IF e.rule = r THEN CountIn(log, r, Len(log)) + 1
                         ELSE CountIn(log, r, Len(log))
<1> DEFINE S == {i \in 1..Len(log) : log[i].rule = r}
           T == {i \in 1..(Len(log) + 1) : Append(log, e)[i].rule = r}
<1>1. Len(log) \in Nat
  BY LenProperties
<1>2. IsFiniteSet(S)
  <2>1. IsFiniteSet(1..Len(log)) /\ S \in SUBSET (1..Len(log))
    BY <1>1, FS_Interval
  <2>2. QED
    BY <2>1, FS_Subset
<1>3. Len(log) + 1 \notin S
  BY <1>1
<1>4. CASE e.rule = r
  <2>1. T = S \cup {Len(log) + 1}
    BY <1>1, <1>4, AppendProperties
  <2>2. QED
    BY <1>2, <1>3, <1>4, <2>1, FS_AddElement DEF CountIn
<1>5. CASE e.rule # r
  <2>1. T = S
    BY <1>1, <1>5, AppendProperties
  <2>2. QED
    BY <1>5, <2>1 DEF CountIn
<1>6. QED
  BY <1>4, <1>5

\* The count at an entry is at least one and at most the count of its rule.
LEMMA CountAtEntry ==
  ASSUME NEW log \in Seq(Entry), NEW i \in 1..Len(log)
  PROVE  /\ log[i].rule \in Rules
         /\ CountIn(log, log[i].rule, i)
              \in 1..CountIn(log, log[i].rule, Len(log))
<1> DEFINE r == log[i].rule
           S == {j \in 1..i : log[j].rule = r}
           T == {j \in 1..Len(log) : log[j].rule = r}
<1>1. Len(log) \in Nat /\ log[i] \in Entry
  BY LenProperties, ElementOfSeq
<1>2. IsFiniteSet(T) /\ S \in SUBSET T
  <2>1. IsFiniteSet(1..Len(log)) /\ T \in SUBSET (1..Len(log))
    BY <1>1, FS_Interval
  <2>2. S \in SUBSET T
    BY <1>1
  <2>3. QED
    BY <2>1, <2>2, FS_Subset
<1>3. IsFiniteSet(S) /\ Cardinality(S) <= Cardinality(T)
  BY <1>2, FS_Subset
<1>4. i \in S
  OBVIOUS
<1>5. Cardinality(S) # 0
  BY <1>3, <1>4, FS_EmptySet
<1>6. Cardinality(S) \in Nat /\ Cardinality(T) \in Nat
  BY <1>2, <1>3, FS_CardinalityType
<1>7. r \in Rules
  BY <1>1 DEF Entry
<1>8. QED
  BY <1>3, <1>5, <1>6, <1>7 DEF CountIn

\* Logging and storing one version keeps ledger and versions aligned.
LEMMA PushAligned ==
  ASSUME NEW vs \in [Rules -> Seq(Version)], NEW log \in Seq(Entry),
         Aligned(vs, log), now \in Nat,
         NEW r \in Rules, NEW t \in Transition, NEW v \in Version
  PROVE  Aligned(Stored(vs, r, v), Logged(log, r, t, v))
<1> DEFINE e == [rule |-> r, transition |-> t, to |-> v.status,
                 number |-> v.number, at |-> now]
           log2 == Logged(log, r, t, v)
           vs2 == Stored(vs, r, v)
<1>1. e \in Entry /\ log2 = Append(log, e)
  BY DEF Entry, Version, Logged
<1>2. e.rule = r /\ e.to = v.status /\ e.number = v.number
  OBVIOUS
<1>3. ASSUME NEW x \in Rules
      PROVE  /\ Len(vs2[x]) = IF x = r THEN Len(vs[x]) + 1 ELSE Len(vs[x])
             /\ Len(vs[x]) \in Nat
             /\ \A i \in 1..Len(vs[x]) : vs2[x][i] = vs[x][i]
             /\ vs2[r][Len(vs[r]) + 1] = v
  <2>1. Len(vs2[x]) = IF x = r THEN Len(vs[x]) + 1 ELSE Len(vs[x])
    BY StoredLength
  <2>2. Len(vs[x]) \in Nat
    BY LenProperties
  <2>3. \A i \in 1..Len(vs[x]) : vs2[x][i] = vs[x][i]
    BY StoredBefore
  <2>4. vs2[r][Len(vs[r]) + 1] = v
    BY StoredLast
  <2>5. QED
    BY <2>1, <2>2, <2>3, <2>4
<1> HIDE DEF e, log2, vs2
<1>4. /\ Len(log) \in Nat
      /\ Len(log2) = Len(log) + 1
      /\ \A i \in 1..Len(log) : log2[i] = log[i]
      /\ log2[Len(log) + 1] = e
  BY <1>1, AppendProperties, LenProperties
<1>5. ASSUME NEW x \in Rules
      PROVE  CountIn(log2, x, Len(log2)) = Len(vs2[x])
  <2>1. CountIn(log, x, Len(log)) = Len(vs[x])
    BY DEF Aligned
  <2>2. CountIn(log2, x, Len(log) + 1) =
          IF e.rule = x THEN CountIn(log, x, Len(log)) + 1
                        ELSE CountIn(log, x, Len(log))
    BY <1>1, CountAppend
  <2>3. QED
    BY <1>2, <1>4, <1>3, <2>1, <2>2
<1>6. ASSUME NEW i \in 1..Len(log2)
      PROVE  LET w == vs2[log2[i].rule][CountIn(log2, log2[i].rule, i)]
             IN w.status = log2[i].to /\ w.number = log2[i].number
  <2>1. CASE i \in 1..Len(log)
    <3> DEFINE x == log[i].rule
               n == CountIn(log, x, i)
    <3>1. x \in Rules /\ n \in 1..Len(vs[x])
      BY <2>1, CountAtEntry DEF Aligned
    <3>2. log2[i] = log[i] /\ CountIn(log2, x, i) = n
      BY <1>1, <1>4, <2>1, <3>1, CountPrefix
    <3>3. vs2[x][n] = vs[x][n]
      BY <1>3, <3>1
    <3>4. vs[x][n].status = log[i].to /\ vs[x][n].number = log[i].number
      BY <2>1 DEF Aligned
    <3>5. QED
      BY <3>2, <3>3, <3>4
  <2>2. CASE i \notin 1..Len(log)
    <3>1. i = Len(log2) /\ log2[i] = e
      BY <1>4, <2>2
    <3>2. CountIn(log2, r, i) = Len(vs[r]) + 1
      BY <1>3, <1>5, <3>1
    <3>3. QED
      BY <1>2, <1>3, <3>1, <3>2
  <2>3. QED
    BY <2>1, <2>2
<1>7. QED
  BY <1>5, <1>6 DEF Aligned, log2, vs2

\* The replay invariant: aligned, and nothing is stamped in the future.
ReplayInv ==
  /\ RegistryInv
  /\ NthEntryNthVersion
  /\ \A i \in 1..Len(ledger) : ledger[i].at <= now

\* Alignment is kept by every step.
LEMMA AlignedStep == ReplayInv /\ [Next]_vars => NthEntryNthVersion'
<1>1. SUFFICES ASSUME ReplayInv, [Next]_vars
               PROVE  Aligned(versions', ledger')
  BY DEF NthEntryNthVersion
<1>2. /\ versions \in [Rules -> Seq(Version)] /\ ledger \in Seq(Entry)
      /\ now \in Nat /\ Aligned(versions, ledger) /\ RegistryInv
  BY <1>1 DEF ReplayInv, RegistryInv, TypeOK, NthEntryNthVersion
<1>3. CASE UNCHANGED <<versions, ledger>> /\ now' \in Nat /\ now <= now'
  BY <1>2, <1>3
<1>4. ASSUME NEW r \in Rules, NEW t \in Transition, NEW v \in Version,
             OneStored(r, t, v)
      PROVE  Aligned(versions', ledger')
  BY <1>2, <1>4, PushAligned DEF OneStored, Record
<1>5. ASSUME NEW r \in Rules, NEW v \in Version, NEW w \in Version,
             TwoStored(r, v, w)
      PROVE  Aligned(versions', ledger')
  <2>1. {"SUPERSEDED", "AMENDED"} \subseteq Transition
    BY DEF Transition, Status
  <2>2. /\ Stored(versions, r, v) \in [Rules -> Seq(Version)]
        /\ Logged(ledger, r, "SUPERSEDED", v) \in Seq(Entry)
        /\ Aligned(Stored(versions, r, v), Logged(ledger, r, "SUPERSEDED", v))
    BY <1>2, <2>1, PushTypes, PushAligned
  <2>3. QED
    BY <1>2, <1>5, <2>1, <2>2, PushAligned DEF TwoStored
<1>6. QED
  BY <1>1, <1>2, <1>3, <1>4, <1>5, StepShape

\* The clock never runs behind the ledger.
LEMMA StampStep ==
  ReplayInv /\ [Next]_vars => (\A i \in 1..Len(ledger) : ledger[i].at <= now)'
<1>1. SUFFICES ASSUME ReplayInv, [Next]_vars
               PROVE  \A i \in 1..Len(ledger') : ledger'[i].at <= now'
  OBVIOUS
<1>2. /\ ledger \in Seq(Entry) /\ now \in Nat /\ RegistryInv
      /\ \A i \in 1..Len(ledger) : ledger[i].at <= now
  BY <1>1 DEF ReplayInv, RegistryInv, TypeOK
<1>3. CASE UNCHANGED <<versions, ledger>> /\ now' \in Nat /\ now <= now'
  <2>1. ASSUME NEW i \in 1..Len(ledger)
        PROVE  ledger[i].at \in Nat
    <3>1. ledger[i] \in Entry
      BY <1>2, ElementOfSeq
    <3>2. QED
      BY <3>1 DEF Entry
  <2>2. QED
    BY <1>2, <1>3, <2>1
<1>4. ASSUME NEW log \in Seq(Entry), \A i \in 1..Len(log) : log[i].at <= now,
             NEW r \in Rules, NEW t \in Transition, NEW v \in Version
      PROVE  /\ Logged(log, r, t, v) \in Seq(Entry)
             /\ \A i \in 1..Len(Logged(log, r, t, v)) :
                  Logged(log, r, t, v)[i].at <= now
  <2> DEFINE e == [rule |-> r, transition |-> t, to |-> v.status,
                   number |-> v.number, at |-> now]
  <2>1. e \in Entry /\ e.at = now /\ Logged(log, r, t, v) = Append(log, e)
    BY <1>2 DEF Entry, Version, Logged
  <2> HIDE DEF e
  <2>2. QED
    BY <1>2, <1>4, <2>1, AppendProperties, LenProperties
<1>5. ASSUME NEW r \in Rules, NEW t \in Transition, NEW v \in Version,
             OneStored(r, t, v)
      PROVE  \A i \in 1..Len(ledger') : ledger'[i].at <= now'
  BY <1>2, <1>4, <1>5 DEF OneStored, Record
<1>6. ASSUME NEW r \in Rules, NEW v \in Version, NEW w \in Version,
             TwoStored(r, v, w)
      PROVE  \A i \in 1..Len(ledger') : ledger'[i].at <= now'
  <2>1. {"SUPERSEDED", "AMENDED"} \subseteq Transition
    BY DEF Transition, Status
  <2>2. QED
    BY <1>2, <1>4, <1>6, <2>1 DEF TwoStored
<1>7. QED
  BY <1>1, <1>2, <1>3, <1>5, <1>6, StepShape

\* The replay invariant holds in every reachable state.
LEMMA ReplayCorrect == Spec => []ReplayInv
<1>1. Init => ReplayInv
  <2>1. SUFFICES ASSUME Init PROVE ReplayInv
    OBVIOUS
  <2>2. RegistryInv
    BY <2>1 DEF Init, RegistryInv, TypeOK, SignaturesHold, SoundHistory,
                SupersededIsReplaced
  <2>3. \A r \in Rules : CountIn(ledger, r, Len(ledger)) = 0
    <3>1. \A r \in Rules : {i \in 1..0 : ledger[i].rule = r} = {}
      OBVIOUS
    <3>2. Len(ledger) = 0
      BY <2>1 DEF Init
    <3>3. QED
      BY <3>1, <3>2, FS_EmptySet DEF CountIn
  <2>4. NthEntryNthVersion
    BY <2>1, <2>3 DEF Init, NthEntryNthVersion, Aligned
  <2>5. QED
    BY <2>1, <2>2, <2>4 DEF Init, ReplayInv
<1>2. ReplayInv /\ [Next]_vars => ReplayInv'
  BY AlignedStep, StampStep, TypeStep, SignaturesStep, SupersededStep
     DEF ReplayInv, RegistryInv
<1>3. QED
  BY <1>1, <1>2, PTL DEF Spec

\* The Nth ledger entry for a rule produced the Nth version of it.
THEOREM EntriesAlwaysAligned == Spec => []NthEntryNthVersion
<1>1. ReplayInv => NthEntryNthVersion
  BY DEF ReplayInv
<1>2. QED
  BY <1>1, ReplayCorrect, PTL

-----------------------------------------------------------------------------
(* What as_of answers.                                                     *)

\* Replaying up to the present gives the rulebook in force.
THEOREM PresentAlwaysCurrent == Spec => []PresentIsCurrent
<1>1. ReplayInv => PresentIsCurrent
  <2>1. SUFFICES ASSUME ReplayInv PROVE PresentIsCurrent
    OBVIOUS
  <2>2. ASSUME NEW r \in Rules
        PROVE  Happened(ledger, r, now) = Len(versions[r])
    <3>1. {i \in 1..Len(ledger) : ledger[i].rule = r /\ ledger[i].at <= now}
            = {i \in 1..Len(ledger) : ledger[i].rule = r}
      BY <2>1 DEF ReplayInv
    <3>2. QED
      BY <2>1, <3>1 DEF Happened, CountIn, ReplayInv, NthEntryNthVersion, Aligned
  <2>3. ASSUME NEW r \in Rules
        PROVE  /\ Len(versions[r]) \in Nat
               /\ Known(r) <=> Len(versions[r]) > 0
    <3>1. versions[r] \in Seq(Version)
      BY <2>1 DEF ReplayInv, RegistryInv, TypeOK
    <3>2. QED
      BY <3>1, EmptySeq, LenProperties DEF Known
  <2>4. {x \in Rules : Happened(ledger, x, now) > 0 /\ versions[x] # <<>>}
          = {x \in Rules : Known(x)}
    BY <2>2, <2>3 DEF Known
  <2>5. \A r \in Rules :
          versions[r][Smaller(Happened(ledger, r, now), Len(versions[r]))]
            = Current(r)
    BY <2>2, <2>3 DEF Smaller, Current
  <2>6. QED
    BY <2>4, <2>5 DEF PresentIsCurrent, AsOf, AsOfIn
<1>2. QED
  BY <1>1, ReplayCorrect, PTL

\* A transition logged now is not seen by a replay up to an earlier moment.
LEMMA LoggedLater ==
  ASSUME NEW log \in Seq(Entry), now \in Nat, NEW m \in Nat, m < now,
         NEW r \in Rules, NEW t \in Transition, NEW v \in Version,
         NEW x \in Rules
  PROVE  Happened(Logged(log, r, t, v), x, m) = Happened(log, x, m)
<1> DEFINE e == [rule |-> r, transition |-> t, to |-> v.status,
                 number |-> v.number, at |-> now]
           log2 == Logged(log, r, t, v)
<1>1. e \in Entry /\ e.at = now /\ log2 = Append(log, e)
  BY DEF Entry, Version, Logged
<1> HIDE DEF e, log2
<1>2. /\ Len(log) \in Nat
      /\ Len(log2) = Len(log) + 1
      /\ \A i \in 1..Len(log) : log2[i] = log[i]
      /\ log2[Len(log) + 1] = e
  BY <1>1, AppendProperties, LenProperties
<1>3. {i \in 1..Len(log2) : log2[i].rule = x /\ log2[i].at <= m}
        = {i \in 1..Len(log) : log[i].rule = x /\ log[i].at <= m}
  BY <1>1, <1>2
<1>4. QED
  BY <1>3 DEF Happened, log2

\* A replay needs no more versions than there are.
LEMMA HappenedBound ==
  ASSUME NEW vs \in [Rules -> Seq(Version)], NEW log \in Seq(Entry),
         Aligned(vs, log), NEW x \in Rules, NEW m \in Nat
  PROVE  /\ Happened(log, x, m) \in Nat
         /\ Happened(log, x, m) <= Len(vs[x])
         /\ Len(vs[x]) \in Nat
<1> DEFINE T == {i \in 1..Len(log) : log[i].rule = x}
           S == {i \in 1..Len(log) : log[i].rule = x /\ log[i].at <= m}
<1>1. /\ IsFiniteSet(1..Len(log))
      /\ T \in SUBSET (1..Len(log))
      /\ S \in SUBSET T
  <2>1. Len(log) \in Int
    BY LenProperties
  <2>2. IsFiniteSet(1..Len(log))
    BY <2>1, FS_Interval
  <2>3. T \in SUBSET (1..Len(log))
    OBVIOUS
  <2>4. S \in SUBSET T
    OBVIOUS
  <2>5. QED
    BY <2>2, <2>3, <2>4
<1>2. IsFiniteSet(T)
  BY <1>1, FS_Subset
<1>3. IsFiniteSet(S) /\ Cardinality(S) <= Cardinality(T)
  BY <1>1, <1>2, FS_Subset
<1>4. Cardinality(T) = Len(vs[x])
  BY DEF Aligned, CountIn
<1>5. QED
  BY <1>2, <1>3, <1>4, FS_CardinalityType DEF Happened

\* Storing one version changes no answer about the past.
LEMMA PushKeepsPast ==
  ASSUME NEW vs \in [Rules -> Seq(Version)], NEW log \in Seq(Entry),
         Aligned(vs, log), now \in Nat, NEW m \in Nat, m < now,
         NEW r \in Rules, NEW t \in Transition, NEW v \in Version
  PROVE  AsOfIn(Stored(vs, r, v), Logged(log, r, t, v), m) = AsOfIn(vs, log, m)
<1> DEFINE vs2 == Stored(vs, r, v)
           log2 == Logged(log, r, t, v)
<1>1. ASSUME NEW x \in Rules
      PROVE  Happened(log2, x, m) = Happened(log, x, m)
  BY LoggedLater
<1>2. ASSUME NEW x \in Rules
      PROVE  /\ Len(vs2[x]) = IF x = r THEN Len(vs[x]) + 1 ELSE Len(vs[x])
             /\ Len(vs[x]) \in Nat
             /\ \A i \in 1..Len(vs[x]) : vs2[x][i] = vs[x][i]
  BY StoredHistory
<1>3. ASSUME NEW x \in Rules
      PROVE  /\ vs[x] # <<>> <=> Len(vs[x]) > 0
             /\ vs2[x] # <<>> <=> Len(vs2[x]) > 0
  <2>1. vs[x] \in Seq(Version) /\ vs2[x] \in Seq(Version)
    BY AppendProperties DEF Stored
  <2>2. QED
    BY <2>1, EmptySeq, LenProperties
<1> HIDE DEF vs2, log2
<1>4. ASSUME NEW x \in Rules
      PROVE  /\ Happened(log, x, m) \in Nat
             /\ Happened(log, x, m) <= Len(vs[x])
  BY HappenedBound
<1>5. {x \in Rules : Happened(log2, x, m) > 0 /\ vs2[x] # <<>>}
        = {x \in Rules : Happened(log, x, m) > 0 /\ vs[x] # <<>>}
  <2>1. ASSUME NEW x \in Rules, Happened(log, x, m) > 0
        PROVE  vs[x] # <<>> /\ vs2[x] # <<>>
    <3>1. Len(vs[x]) > 0
      BY <1>2, <1>4, <2>1
    <3>2. Len(vs2[x]) > 0
      BY <1>2, <3>1
    <3>3. QED
      BY <1>3, <3>1, <3>2
  <2>2. QED
    BY <1>1, <2>1
<1>6. ASSUME NEW x \in Rules, Happened(log, x, m) > 0
      PROVE  vs2[x][Smaller(Happened(log2, x, m), Len(vs2[x]))]
               = vs[x][Smaller(Happened(log, x, m), Len(vs[x]))]
  <2>1. PICK h, a, b : h = Happened(log, x, m) /\ a = Len(vs[x]) /\ b = Len(vs2[x])
    OBVIOUS
  <2>2. /\ h \in Nat /\ h > 0 /\ a \in Nat /\ h <= a /\ (b = a \/ b = a + 1)
        /\ Happened(log2, x, m) = h
    BY <1>1, <1>2, <1>4, <1>6, <2>1
  <2>3. Smaller(h, a) = h /\ Smaller(h, b) = h /\ h \in 1..a
    BY <2>2 DEF Smaller
  <2>4. vs2[x][h] = vs[x][h]
    BY <1>2, <2>1, <2>3
  <2>5. QED
    BY <2>1, <2>2, <2>3, <2>4
<1>7. QED
  BY <1>5, <1>6 DEF AsOfIn, vs2, log2

\* The rulebook as it stood at a past moment is settled: no later step of the
\* registry changes what as_of answers about it.
THEOREM PastAlwaysFixed == Spec => PastIsFixed
<1>1. ReplayInv /\ [Next]_vars
      => [\A m \in 0..MaxTime : m < now => AsOf(m)' = AsOf(m)]_vars
  <2>1. SUFFICES ASSUME ReplayInv, [Next]_vars, NEW m \in 0..MaxTime, m < now
                 PROVE  AsOfIn(versions', ledger', m) = AsOfIn(versions, ledger, m)
    BY DEF AsOf
  <2>2. /\ versions \in [Rules -> Seq(Version)] /\ ledger \in Seq(Entry)
        /\ now \in Nat /\ Aligned(versions, ledger) /\ RegistryInv /\ m \in Nat
    BY <2>1, LifecycleAssumption
       DEF ReplayInv, RegistryInv, TypeOK, NthEntryNthVersion
  <2>3. CASE UNCHANGED <<versions, ledger>> /\ now' \in Nat /\ now <= now'
    BY <2>3
  <2>4. ASSUME NEW r \in Rules, NEW t \in Transition, NEW v \in Version,
               OneStored(r, t, v)
        PROVE  AsOfIn(versions', ledger', m) = AsOfIn(versions, ledger, m)
    BY <2>1, <2>2, <2>4, PushKeepsPast DEF OneStored, Record
  <2>5. ASSUME NEW r \in Rules, NEW v \in Version, NEW w \in Version,
               TwoStored(r, v, w)
        PROVE  AsOfIn(versions', ledger', m) = AsOfIn(versions, ledger, m)
    <3>1. /\ "SUPERSEDED" \in Transition /\ "AMENDED" \in Transition
          /\ now \in Nat /\ m \in Nat /\ m < now
      BY <2>1, <2>2 DEF Transition, Status
    <3>0. AsOfIn(Stored(versions, r, v), Logged(ledger, r, "SUPERSEDED", v), m)
            = AsOfIn(versions, ledger, m)
      <4>2. /\ versions \in [Rules -> Seq(Version)] /\ ledger \in Seq(Entry)
            /\ Aligned(versions, ledger)
        BY <2>2
      <4>3. now \in Nat /\ m \in Nat /\ m < now /\ "SUPERSEDED" \in Transition
        BY <3>1
      <4>4. QED
        BY <4>2, <4>3, PushKeepsPast
    <3> DEFINE half == Stored(versions, r, v)
               noted == Logged(ledger, r, "SUPERSEDED", v)
    <3>2. /\ half \in [Rules -> Seq(Version)] /\ noted \in Seq(Entry)
          /\ Aligned(half, noted)
      BY <2>2, <3>1, PushTypes, PushAligned
    <3>3. AsOfIn(half, noted, m) = AsOfIn(versions, ledger, m)
      BY <3>0
    <3>4. /\ versions' = Stored(half, r, w)
          /\ ledger' = Logged(noted, r, "AMENDED", w)
      BY <2>5 DEF TwoStored
    <3> HIDE DEF half, noted
    <3>5. AsOfIn(Stored(half, r, w), Logged(noted, r, "AMENDED", w), m) = AsOfIn(half, noted, m)
      BY <3>1, <3>2, PushKeepsPast
    <3>6. QED
      BY <3>3, <3>4, <3>5
  <2>6. QED
    BY <2>1, <2>2, <2>3, <2>4, <2>5, StepShape
<1>2. QED
  BY <1>1, ReplayCorrect, PTL DEF Spec, PastIsFixed

\* No stored version is ever altered or dropped.
THEOREM HistoryAlwaysGrows == Spec => HistoryOnlyGrows
<1>1. RegistryInv /\ [Next]_vars
      => [\A r \in Rules :
            /\ Len(versions[r]) <= Len(versions'[r])
            /\ \A i \in 1..Len(versions[r]) : versions'[r][i] = versions[r][i]]_vars
  <2>1. SUFFICES ASSUME RegistryInv, [Next]_vars, NEW x \in Rules
                 PROVE  /\ Len(versions[x]) <= Len(versions'[x])
                        /\ \A i \in 1..Len(versions[x]) :
                             versions'[x][i] = versions[x][i]
    OBVIOUS
  <2>2. versions \in [Rules -> Seq(Version)] /\ Len(versions[x]) \in Nat
    BY <2>1, LenProperties DEF RegistryInv, TypeOK
  <2>3. CASE UNCHANGED <<versions, ledger>> /\ now' \in Nat /\ now <= now'
    BY <2>2, <2>3
  <2>4. ASSUME NEW r \in Rules, NEW t \in Transition, NEW v \in Version,
               OneStored(r, t, v)
        PROVE  /\ Len(versions[x]) <= Len(versions'[x])
               /\ \A i \in 1..Len(versions[x]) : versions'[x][i] = versions[x][i]
    <3>1. versions' = Stored(versions, r, v)
      BY <2>4 DEF OneStored, Record
    <3>2. Len(versions'[x]) = IF x = r THEN Len(versions[x]) + 1 ELSE Len(versions[x])
      BY <2>2, <3>1, StoredLength
    <3>3. \A i \in 1..Len(versions[x]) : versions'[x][i] = versions[x][i]
      BY <2>2, <3>1, StoredBefore
    <3>4. QED
      BY <2>2, <3>2, <3>3
  <2>5. ASSUME NEW r \in Rules, NEW v \in Version, NEW w \in Version,
               TwoStored(r, v, w)
        PROVE  /\ Len(versions[x]) <= Len(versions'[x])
               /\ \A i \in 1..Len(versions[x]) : versions'[x][i] = versions[x][i]
    <3> DEFINE mid == Stored(versions, r, v)
    <3>1. mid \in [Rules -> Seq(Version)]
      BY <2>2, AppendProperties DEF Stored
    <3>2. /\ Len(mid[x]) = IF x = r THEN Len(versions[x]) + 1 ELSE Len(versions[x])
          /\ \A i \in 1..Len(versions[x]) : mid[x][i] = versions[x][i]
      <4>1. Len(mid[x]) = IF x = r THEN Len(versions[x]) + 1 ELSE Len(versions[x])
        BY <2>2, StoredLength
      <4>2. \A i \in 1..Len(versions[x]) : mid[x][i] = versions[x][i]
        BY <2>2, StoredBefore
      <4>3. QED
        BY <4>1, <4>2
    <3>3. versions' = Stored(mid, r, w)
      BY <2>5 DEF TwoStored
    <3> HIDE DEF mid
    <3>4. /\ Len(versions'[x]) = IF x = r THEN Len(mid[x]) + 1 ELSE Len(mid[x])
          /\ \A i \in 1..Len(mid[x]) : versions'[x][i] = mid[x][i]
      <4>1. Len(versions'[x]) = IF x = r THEN Len(mid[x]) + 1 ELSE Len(mid[x])
        BY <3>1, <3>3, StoredLength
      <4>2. \A i \in 1..Len(mid[x]) : versions'[x][i] = mid[x][i]
        BY <3>1, <3>3, StoredBefore
      <4>3. QED
        BY <4>1, <4>2
    <3>5. PICK a, b, c : a = Len(versions[x]) /\ b = Len(mid[x]) /\ c = Len(versions'[x])
      OBVIOUS
    <3>6. a \in Nat /\ (b = a \/ b = a + 1) /\ (c = b \/ c = b + 1)
      BY <2>2, <3>2, <3>4, <3>5
    <3>7. a <= c /\ 1..a \subseteq 1..b
      BY ONLY <3>6
    <3>8. QED
      BY ONLY <3>2, <3>4, <3>5, <3>7
  <2>6. QED
    BY <2>1, <2>3, <2>4, <2>5, StepShape
<1>2. QED
  BY <1>1, RegistryCorrect, PTL DEF Spec, HistoryOnlyGrows

-----------------------------------------------------------------------------
(* The promise.                                                            *)

\* Today's version after one version is stored: the new one for its rule, and
\* nothing else for any other.
LEMMA StoredCurrent ==
  ASSUME NEW vs \in [Rules -> Seq(Version)], NEW r \in Rules, NEW v \in Version,
         NEW x \in Rules
  PROVE  /\ Stored(vs, r, v) \in [Rules -> Seq(Version)]
         /\ Stored(vs, r, v)[r] # <<>>
         /\ Stored(vs, r, v)[r][Len(Stored(vs, r, v)[r])] = v
         /\ x # r => Stored(vs, r, v)[x] = vs[x]
<1>1. Stored(vs, r, v)[r] = Append(vs[r], v) /\ vs[r] \in Seq(Version)
  BY DEF Stored
<1>2. /\ Append(vs[r], v) \in Seq(Version)
      /\ Len(Append(vs[r], v)) = Len(vs[r]) + 1
      /\ Append(vs[r], v)[Len(vs[r]) + 1] = v
      /\ Len(vs[r]) \in Nat
  BY <1>1, AppendProperties, LenProperties
<1>3. Append(vs[r], v) # <<>>
  BY <1>2, EmptySeq
<1>4. Stored(vs, r, v) \in [Rules -> Seq(Version)]
  BY <1>2 DEF Stored
<1>5. x # r => Stored(vs, r, v)[x] = vs[x]
  BY DEF Stored
<1>6. QED
  BY <1>1, <1>2, <1>3, <1>4, <1>5

\* What storing a version adds to everything ever signed.
LEMMA StoredArchive ==
  ASSUME NEW vs \in [Rules -> Seq(Version)], NEW r \in Rules, NEW v \in Version
  PROVE  Archive(Stored(vs, r, v)) =
           IF v.signature = NoSignature
             THEN Archive(vs)
             ELSE Archive(vs) \cup {[rule |-> r, body |-> v.body]}
<1> DEFINE vs2 == Stored(vs, r, v)
           Pairs == [rule : Rules, body : Bodies]
           Holds(h, s, i) == /\ h[s.rule][i].signature # NoSignature
                             /\ h[s.rule][i].body = s.body
<1>1. ASSUME NEW s \in Pairs
      PROVE  (\E i \in 1..Len(vs2[s.rule]) : Holds(vs2, s, i))
               <=> \/ \E i \in 1..Len(vs[s.rule]) : Holds(vs, s, i)
                   \/ /\ v.signature # NoSignature
                      /\ s = [rule |-> r, body |-> v.body]
  <2> DEFINE x == s.rule
  <2>1. x \in Rules /\ s = [rule |-> x, body |-> s.body]
    OBVIOUS
  <2> HIDE DEF x
  <2>2. /\ Len(vs2[x]) = IF x = r THEN Len(vs[x]) + 1 ELSE Len(vs[x])
        /\ Len(vs[x]) \in Nat
        /\ \A i \in 1..Len(vs[x]) : vs2[x][i] = vs[x][i]
        /\ vs2[r][Len(vs[r]) + 1] = v
    BY <2>1, StoredHistory
  <2> HIDE DEF vs2
  <2>3. (x = r /\ v.body = s.body) <=> s = [rule |-> r, body |-> v.body]
    BY <2>1
  <2>4. CASE x = r
    <3>1. 1..Len(vs2[x]) = (1..Len(vs[x])) \cup {Len(vs[x]) + 1}
      BY <2>2, <2>4
    <3>2. QED
      BY <2>2, <2>3, <2>4, <3>1 DEF x
  <2>5. CASE x # r
    BY <2>2, <2>3, <2>5 DEF x
  <2>6. QED
    BY <2>4, <2>5
<1>2. [rule |-> r, body |-> v.body] \in Pairs
  BY DEF Version
<1>3. /\ Archive(vs2) = {s \in Pairs : \E i \in 1..Len(vs2[s.rule]) : Holds(vs2, s, i)}
      /\ Archive(vs) = {s \in Pairs : \E i \in 1..Len(vs[s.rule]) : Holds(vs, s, i)}
  BY DEF Archive
<1> HIDE DEF vs2, Holds, Pairs
<1>4. Archive(vs2) =
        IF v.signature = NoSignature
          THEN Archive(vs)
          ELSE Archive(vs) \cup {[rule |-> r, body |-> v.body]}
  BY <1>1, <1>2, <1>3
<1>5. QED
  BY <1>4 DEF vs2

\* The promise's variables over a history.
StandingIn(vs) ==
  [r \in Rules |-> IF vs[r] # <<>> THEN vs[r][Len(vs[r])].status ELSE "NONE"]

TextIn(vs) ==
  [r \in Rules |-> IF vs[r] # <<>> THEN vs[r][Len(vs[r])].body ELSE NoBody]

\* Storing a version moves the standing and the text of its rule alone.
LEMMA StoredPromise ==
  ASSUME NEW vs \in [Rules -> Seq(Version)], NEW r \in Rules, NEW v \in Version
  PROVE  /\ StandingIn(Stored(vs, r, v)) = [StandingIn(vs) EXCEPT ![r] = v.status]
         /\ TextIn(Stored(vs, r, v)) = [TextIn(vs) EXCEPT ![r] = v.body]
<1> DEFINE vs2 == Stored(vs, r, v)
<1>1. ASSUME NEW x \in Rules
      PROVE  /\ StandingIn(vs2)[x] = IF x = r THEN v.status ELSE StandingIn(vs)[x]
             /\ TextIn(vs2)[x] = IF x = r THEN v.body ELSE TextIn(vs)[x]
  <2>1. /\ vs2[r] # <<>>
        /\ vs2[r][Len(vs2[r])] = v
        /\ x # r => vs2[x] = vs[x]
    BY StoredCurrent
  <2> HIDE DEF vs2
  <2>2. QED
    BY <2>1 DEF StandingIn, TextIn
<1> HIDE DEF vs2
<1>2. /\ StandingIn(vs2) = [StandingIn(vs) EXCEPT ![r] = v.status]
      /\ TextIn(vs2) = [TextIn(vs) EXCEPT ![r] = v.body]
  BY <1>1 DEF StandingIn, TextIn
<1>3. QED
  BY <1>2 DEF vs2

\* Storing again for the same rule: only the second version is seen.
LEMMA StoredTwice ==
  ASSUME NEW vs \in [Rules -> Seq(Version)], NEW r \in Rules,
         NEW v \in Version, NEW w \in Version
  PROVE  LET vs2 == Stored(Stored(vs, r, v), r, w)
         IN /\ StandingIn(vs2) = [StandingIn(vs) EXCEPT ![r] = w.status]
            /\ TextIn(vs2) = [TextIn(vs) EXCEPT ![r] = w.body]
            /\ Archive(vs2) = (IF w.signature = NoSignature
                                 THEN Archive(Stored(vs, r, v))
                                 ELSE Archive(Stored(vs, r, v))
                                        \cup {[rule |-> r, body |-> w.body]})
<1> DEFINE mid == Stored(vs, r, v)
<1>1. mid \in [Rules -> Seq(Version)]
  BY StoredCurrent
<1>2. /\ StandingIn(mid) = [StandingIn(vs) EXCEPT ![r] = v.status]
      /\ TextIn(mid) = [TextIn(vs) EXCEPT ![r] = v.body]
  BY StoredPromise
<1> HIDE DEF mid
<1>3. /\ StandingIn(Stored(mid, r, w)) = [StandingIn(mid) EXCEPT ![r] = w.status]
      /\ TextIn(Stored(mid, r, w)) = [TextIn(mid) EXCEPT ![r] = w.body]
      /\ Archive(Stored(mid, r, w)) = (IF w.signature = NoSignature
                                 THEN Archive(mid)
                                 ELSE Archive(mid) \cup {[rule |-> r, body |-> w.body]})
  BY <1>1, StoredPromise, StoredArchive, SMTT(30)
<1>4. /\ [StandingIn(mid) EXCEPT ![r] = w.status]
            = [StandingIn(vs) EXCEPT ![r] = w.status]
      /\ [TextIn(mid) EXCEPT ![r] = w.body] = [TextIn(vs) EXCEPT ![r] = w.body]
  BY <1>2 DEF StandingIn, TextIn
<1>5. QED
  BY <1>3, <1>4 DEF mid

\* The registry implements the promise: every step of it is a step of the
\* promise or leaves the promise's variables alone.
THEOREM PromiseAlwaysKept == Spec => KeepsPromise
<1>1. Init => Promise!PromiseInit
  BY DEF Init, Promise!PromiseInit, Known, Archive
<1>2. RegistryInv /\ [Next]_vars => [Promise!PromiseNext]_(Promise!promiseVars)
  <2>1. SUFFICES ASSUME RegistryInv, [Next]_vars
                 PROVE  [Promise!PromiseNext]_(Promise!promiseVars)
    OBVIOUS
  <2>2. versions \in [Rules -> Seq(Version)]
    BY <2>1 DEF RegistryInv, TypeOK
  <2>3. /\ StandingIn(versions) = [r \in Rules |-> IF Known(r) THEN Current(r).status
                                                   ELSE "NONE"]
        /\ TextIn(versions) = [r \in Rules |-> IF Known(r) THEN Current(r).body
                                               ELSE NoBody]
    BY DEF StandingIn, TextIn, Known, Current
  <2>4. /\ StandingIn(versions')
             = [r \in Rules |-> IF Known(r) THEN Current(r).status ELSE "NONE"]'
        /\ TextIn(versions')
             = [r \in Rules |-> IF Known(r) THEN Current(r).body ELSE NoBody]'
    BY DEF StandingIn, TextIn, Known, Current
  <2>5. ASSUME NEW r \in Rules, NEW b \in Bodies, Propose(r, b)
        PROVE  Promise!Draft(r, b)
    <3>1. versions' = Stored(versions, r, Draft(b)) /\ Draft(b) \in Version
      BY <2>5, DraftType DEF Propose, Record
    <3> DEFINE d == Draft(b)
    <3>2. /\ d \in Version /\ versions' = Stored(versions, r, d)
          /\ d.status = "PROPOSED" /\ d.body = b /\ d.signature = NoSignature
      BY <3>1 DEF Draft
    <3> HIDE DEF d
    <3>4. /\ StandingIn(versions') = [StandingIn(versions) EXCEPT ![r] = "PROPOSED"]
          /\ TextIn(versions') = [TextIn(versions) EXCEPT ![r] = b]
          /\ Archive(versions') = Archive(versions)
      BY <2>2, <3>2, StoredPromise, StoredArchive
    <3>3. StandingIn(versions)[r] # "CERTIFIED"
      BY <2>5 DEF Propose, Is, StandingIn, Known, Current
    <3>5. QED
      BY <2>3, <2>4, <3>3, <3>4 DEF Promise!Draft
  <2>6. ASSUME NEW r \in Rules, Certify(r)
        PROVE  Promise!Sign(r)
    <3> DEFINE c == Current(r)
    <3>1. /\ Known(r) /\ c \in Version
          /\ c.status = "PROPOSED" /\ c.body \notin Blocked
      BY <2>1, <2>6, CurrentType DEF Certify, Version, Status
    <3>2. versions' = Stored(versions, r, Certified(c))
      BY <2>6 DEF Certify, Record
    <3>3. Certified(c) \in Version /\ Certified(c).status = "CERTIFIED"
          /\ Certified(c).body = c.body /\ Certified(c).signature # NoSignature
      <4>1. [body |-> c.body, number |-> c.number] \in Signature
        BY <3>1 DEF Version, Signature
      <4>2. QED
        BY <3>1, <4>1, LifecycleAssumption DEF Certified, Version, Status
    <3>4. StandingIn(versions)[r] = c.status /\ TextIn(versions)[r] = c.body
      BY <3>1 DEF StandingIn, TextIn, Known, Current
    <3> HIDE DEF c
    <3>5. /\ StandingIn(versions') = [StandingIn(versions) EXCEPT ![r] = "CERTIFIED"]
          /\ TextIn(versions') = [TextIn(versions) EXCEPT ![r] = c.body]
          /\ Archive(versions')
               = Archive(versions) \cup {[rule |-> r, body |-> c.body]}
      BY <2>2, <3>2, <3>3, StoredPromise, StoredArchive
    <3>6. TextIn(versions') = TextIn(versions)
      BY <3>4, <3>5 DEF TextIn
    <3>7. QED
      BY <2>3, <2>4, <3>1, <3>4, <3>5, <3>6 DEF Promise!Sign
  <2>7. ASSUME NEW r \in Rules, Reject(r)
        PROVE  Promise!Refuse(r)
    <3> DEFINE c == Current(r)
    <3>1. /\ Known(r) /\ c \in Version
          /\ c.status \in {"PROPOSED", "REJECTED"} /\ c.signature = NoSignature
      BY <2>1, <2>7, CurrentType DEF Reject, Version, Status, Sound
    <3>2. versions' = Stored(versions, r, Rejected(c))
      BY <2>7 DEF Reject, Record
    <3>3. Rejected(c) \in Version /\ Rejected(c).status = "REJECTED"
          /\ Rejected(c).body = c.body /\ Rejected(c).signature = NoSignature
      BY <3>1 DEF Rejected, Version, Status
    <3>4. StandingIn(versions)[r] = c.status /\ TextIn(versions)[r] = c.body
      BY <3>1 DEF StandingIn, TextIn, Known, Current
    <3> HIDE DEF c
    <3>5. /\ StandingIn(versions') = [StandingIn(versions) EXCEPT ![r] = "REJECTED"]
          /\ TextIn(versions') = [TextIn(versions) EXCEPT ![r] = c.body]
          /\ Archive(versions') = Archive(versions)
      BY <2>2, <3>2, <3>3, StoredPromise, StoredArchive
    <3>6. TextIn(versions') = TextIn(versions)
      BY <3>4, <3>5 DEF TextIn
    <3>7. QED
      BY <2>3, <2>4, <3>1, <3>4, <3>5, <3>6 DEF Promise!Refuse
  <2>8. ASSUME NEW r \in Rules, NEW b \in Bodies, NEW level \in Levels,
               Amend(r, b, level)
        PROVE  Promise!Revise(r, b)
    <3> DEFINE c == Current(r)
               w == Amended(c, b, level)
    <3>1. Known(r) /\ c \in Version /\ w \in Version
      BY <2>1, <2>8, CurrentType, VersionTypes
         DEF Amend, AmendUnsigned, AmendSigned, Is
    <3>2. w.status = "PROPOSED" /\ w.body = b /\ w.signature = NoSignature
      BY DEF Amended
    <3>3. StandingIn(versions)[r] = c.status /\ c.status # "NONE"
      BY <3>1 DEF StandingIn, Known, Current, Version, Status
    <3>4. CASE AmendUnsigned(r, b, level)
      <4>1. versions' = Stored(versions, r, w)
        BY <3>4 DEF AmendUnsigned, Record
      <4> HIDE DEF w, c
      <4>2. /\ StandingIn(versions') = [StandingIn(versions) EXCEPT ![r] = "PROPOSED"]
            /\ TextIn(versions') = [TextIn(versions) EXCEPT ![r] = b]
            /\ Archive(versions') = Archive(versions)
        BY <2>2, <3>1, <3>2, <4>1, StoredPromise, StoredArchive
      <4>3. QED
        BY <2>3, <2>4, <3>3, <4>2 DEF Promise!Revise
    <3>5. CASE AmendSigned(r, b, level)
      <4> DEFINE o == Superseded(c)
      <4>1. versions' = Stored(Stored(versions, r, o), r, w)
        BY <3>5 DEF AmendSigned
      <4>2. o \in Version /\ o.body = c.body /\ o.signature = c.signature
        BY <3>1, VersionTypes DEF Superseded, Version
      <4>3. [rule |-> r, body |-> c.body] \in Archive(versions)
        <5>1. c.status = "CERTIFIED"
          BY <3>5 DEF AmendSigned, Is
        <5>2. c.signature = [body |-> c.body, number |-> c.number]
          BY <2>1, <3>1, <5>1, CurrentType DEF Sound, Verifies
        <5>3. c.signature # NoSignature
          BY <3>1, <5>2, LifecycleAssumption DEF Version, Signature
        <5>4. Len(versions[r]) \in 1..Len(versions[r])
          BY <2>1, <3>1, CurrentType
        <5>5. QED
          BY <3>1, <5>3, <5>4 DEF Archive, Current, Version
      <4> HIDE DEF o, w, c
      <4>4. /\ StandingIn(versions') = [StandingIn(versions) EXCEPT ![r] = "PROPOSED"]
            /\ TextIn(versions') = [TextIn(versions) EXCEPT ![r] = b]
            /\ Archive(versions') = Archive(Stored(versions, r, o))
        BY <2>2, <3>1, <3>2, <4>1, <4>2, StoredTwice
      <4>5. Archive(versions') = Archive(versions)
        <5>1. Archive(Stored(versions, r, o)) =
                IF o.signature = NoSignature
                  THEN Archive(versions)
                  ELSE Archive(versions) \cup {[rule |-> r, body |-> o.body]}
          BY <2>2, <4>2, StoredArchive
        <5>2. Archive(versions) \cup {[rule |-> r, body |-> o.body]}
                = Archive(versions)
          BY <4>2, <4>3
        <5>3. QED
          BY <4>4, <5>1, <5>2
      <4>6. QED
        BY <2>3, <2>4, <3>3, <4>4, <4>5 DEF Promise!Revise
    <3>6. QED
      BY <2>8, <3>4, <3>5 DEF Amend
  <2>9. ASSUME UNCHANGED versions
        PROVE  UNCHANGED Promise!promiseVars
    BY <2>9 DEF Promise!promiseVars, Known, Current, Archive
  <2>10. QED
    <3>1. CASE Tick \/ UNCHANGED vars
      BY <2>9, <3>1 DEF Tick, vars
    <3>2. QED
      BY <2>1, <2>5, <2>6, <2>7, <2>8, <3>1 DEF Next, Promise!PromiseNext
<1>3. QED
  BY <1>1, <1>2, RegistryCorrect, PTL DEF Spec, KeepsPromise, Promise!PromiseSpec
-----------------------------------------------------------------------------
(* The file the registry is saved to.                                      *)

Outside == {"start", "done", "dead"}

\* The inodes the file is read from, now or after a power loss.
ReadsWhole(i) == OneWriting(data[i]) /\ OneWriting(kept[i])

\* What the one writer inside has done so far: its temporary file is neither what a
\* reader sees nor what the platter has, and holds what was written to it.
Progress(w) ==
  LET i == temp[Process[w]]
  IN  /\ pc[w] = "open" => i = Nothing
      /\ pc[w] \in {"first", "second", "sync"} =>
           i \in Inodes /\ file[w] = i /\ i # target /\ i # keptTarget
      /\ pc[w] = "second" => data[i][1] = w
      /\ pc[w] = "sync" => data[i] = Whole(w)
      /\ pc[w] = "replace" => i \in Inodes /\ data[i] = Whole(w) /\ kept[i] = Whole(w)
      /\ pc[w] \in {"syncdir", "release"} => i = Nothing

\* One writer at a time is inside, and only its process has a temporary file.
LockInv ==
  /\ \A w \in Writers :
       /\ pc[w] \notin Outside <=> lock = w
       /\ lock = w => \A p \in Processes \ {Process[w]} : temp[p] = Nothing
  /\ lock = Nothing => \A p \in Processes : temp[p] = Nothing

WriteInv ==
  /\ WriteTypeOK
  /\ ReadsWhole(target) /\ ReadsWhole(keptTarget)
  /\ LockInv
  /\ \A w \in Writers : lock = w => Progress(w)

LEMMA WriteInitInv == WriteInit => WriteInv
<1> SUFFICES ASSUME WriteInit PROVE WriteInv
  OBVIOUS
<1> USE WriteAssumption DEF WriteInit
<1>1. WriteTypeOK
  BY DEF WriteTypeOK, Contents, Whole, Empty, Places
<1>2. ReadsWhole(target) /\ ReadsWhole(keptTarget)
  BY DEF ReadsWhole, OneWriting
<1>3. LockInv /\ \A w \in Writers : lock # w
  BY DEF LockInv, Outside
<1> QED BY <1>1, <1>2, <1>3 DEF WriteInv

\* A writer that has got past the lock holds it, alone.
LEMMA InsideAlone ==
  ASSUME WriteInv, NEW w \in Writers, pc[w] \notin Outside
  PROVE  /\ lock = w /\ Progress(w)
         /\ \A x \in Writers \ {w} : pc[x] \in Outside
         /\ \A p \in Processes \ {Process[w]} : temp[p] = Nothing
         /\ Process[w] \in Processes
BY WriteAssumption DEF WriteInv, LockInv

\* A step of the writer inside that keeps it inside keeps the lock's invariant.
LEMMA LockKept ==
  ASSUME WriteInv, NEW w \in Writers, pc[w] \notin Outside,
         NEW to \in Places \ Outside, pc' = [pc EXCEPT ![w] = to], lock' = lock,
         \A p \in Processes \ {Process[w]} : temp'[p] = temp[p]
  PROVE  LockInv' /\ \A x \in Writers : lock' = x => x = w
<1>1. lock = w /\ \A x \in Writers \ {w} : pc[x] \in Outside
  BY InsideAlone
<1>2. \A x \in Writers : pc'[x] \notin Outside <=> lock' = x
  BY <1>1 DEF WriteInv, WriteTypeOK
<1>3. \A p \in Processes \ {Process[w]} : temp'[p] = Nothing
  BY InsideAlone
<1>4. lock' # Nothing
  BY <1>1, WriteAssumption
<1> QED BY <1>1, <1>2, <1>3, <1>4 DEF LockInv

LEMMA EnterStep ==
  ASSUME Locked = TRUE, WriteInv, NEW w \in Writers, Enter(w) PROVE WriteInv'
<1> USE DEF Enter, Goes, disk
<1>1. lock = Nothing /\ lock' = w /\ pc' = [pc EXCEPT ![w] = "open"]
  OBVIOUS
<1>2. \A p \in Processes : temp[p] = Nothing
  BY <1>1 DEF WriteInv, LockInv
<1>3. WriteTypeOK'
  BY DEF WriteInv, WriteTypeOK, Places
<1>4. ReadsWhole(target)' /\ ReadsWhole(keptTarget)'
  BY DEF WriteInv, ReadsWhole
<1>5. LockInv'
  <2>1. \A x \in Writers : pc[x] \in Outside
    BY <1>1, WriteAssumption DEF WriteInv, LockInv
  <2>2. \A x \in Writers : pc'[x] \notin Outside <=> lock' = x
    BY <1>1, <2>1 DEF WriteInv, WriteTypeOK, Outside
  <2> QED BY <1>1, <1>2, <2>2, WriteAssumption DEF LockInv
<1>6. Progress(w)'
  BY <1>1, <1>2, WriteAssumption DEF Progress, WriteInv, WriteTypeOK
<1> QED BY <1>1, <1>3, <1>4, <1>5, <1>6 DEF WriteInv

LEMMA OpenTempStep ==
  ASSUME WriteInv, NEW w \in Writers, OpenTemp(w) PROVE WriteInv'
<1> USE DEF Goes
<1>1. pc[w] = "open" /\ pc[w] \notin Outside /\ pc' = [pc EXCEPT ![w] = "first"]
  BY DEF OpenTemp, Outside
<1>2. temp[Process[w]] = Nothing /\ Process[w] \in Processes
  BY <1>1, InsideAlone DEF Progress
<1>3. PICK i \in Inodes : /\ Free(i)
                          /\ temp' = [temp EXCEPT ![Process[w]] = i]
                          /\ file' = [file EXCEPT ![w] = i]
                          /\ data' = [data EXCEPT ![i] = Empty]
  BY <1>2 DEF OpenTemp
<1>4. UNCHANGED <<kept, target, keptTarget, lock, losses>>
  BY DEF OpenTemp
<1>5. i # target /\ i # keptTarget
  BY <1>3 DEF Free
<1>6. WriteTypeOK'
  BY <1>1, <1>3, <1>4 DEF WriteInv, WriteTypeOK, Places, Contents, Empty, Whole
<1>7. ReadsWhole(target)' /\ ReadsWhole(keptTarget)'
  BY <1>3, <1>4, <1>5 DEF WriteInv, WriteTypeOK, ReadsWhole, OneWriting
<1>8. LockInv' /\ \A x \in Writers : lock' = x => x = w
  <2>1. "first" \in Places \ Outside
    BY DEF Places, Outside
  <2> QED BY <1>1, <1>3, <1>4, <2>1, LockKept DEF WriteInv, WriteTypeOK
<1>9. Progress(w)'
  BY <1>1, <1>2, <1>3, <1>4, <1>5 DEF Progress, WriteInv, WriteTypeOK
<1> QED BY <1>6, <1>7, <1>8, <1>9 DEF WriteInv

LEMMA FirstPartStep ==
  ASSUME WriteInv, NEW w \in Writers, WritePart(w, "first", 1, "second") PROVE WriteInv'
<1> USE DEF Goes, WritePart
<1>1. pc[w] = "first" /\ pc[w] \notin Outside /\ pc' = [pc EXCEPT ![w] = "second"]
  BY DEF Outside
<1> DEFINE i == temp[Process[w]]
<1>2. i \in Inodes /\ file[w] = i /\ i # target /\ i # keptTarget
  BY <1>1, InsideAlone DEF Progress
<1>3. data' = [data EXCEPT ![i] = [data[i] EXCEPT ![1] = w]]
  BY <1>2
<1>4. data[i] \in Contents /\ [data[i] EXCEPT ![1] = w] \in Contents
  BY <1>2 DEF WriteInv, WriteTypeOK, Contents
<1>5. WriteTypeOK'
  BY <1>1, <1>2, <1>3, <1>4 DEF WriteInv, WriteTypeOK, Places
<1>6. ReadsWhole(target)' /\ ReadsWhole(keptTarget)'
  BY <1>2, <1>3 DEF WriteInv, WriteTypeOK, ReadsWhole, OneWriting
<1>7. LockInv' /\ \A x \in Writers : lock' = x => x = w
  <2>1. "second" \in Places \ Outside
    BY DEF Places, Outside
  <2> QED BY <1>1, <2>1, LockKept
<1>8. Progress(w)'
  <2>1. data'[i][1] = w
    BY <1>2, <1>3, <1>4 DEF WriteInv, WriteTypeOK, Contents, Parts
  <2> QED BY <1>1, <1>2, <2>1 DEF Progress, WriteInv, WriteTypeOK
<1> QED BY <1>5, <1>6, <1>7, <1>8 DEF WriteInv

LEMMA SecondPartStep ==
  ASSUME WriteInv, NEW w \in Writers, WritePart(w, "second", 2, "sync") PROVE WriteInv'
<1> USE DEF Goes, WritePart
<1>1. pc[w] = "second" /\ pc[w] \notin Outside /\ pc' = [pc EXCEPT ![w] = "sync"]
  BY DEF Outside
<1> DEFINE i == temp[Process[w]]
<1>2. i \in Inodes /\ file[w] = i /\ i # target /\ i # keptTarget /\ data[i][1] = w
  BY <1>1, InsideAlone DEF Progress
<1>3. data' = [data EXCEPT ![i] = [data[i] EXCEPT ![2] = w]]
  BY <1>2
<1>4. data[i] \in Contents /\ [data[i] EXCEPT ![2] = w] \in Contents
  BY <1>2 DEF WriteInv, WriteTypeOK, Contents
<1>5. WriteTypeOK'
  BY <1>1, <1>2, <1>3, <1>4 DEF WriteInv, WriteTypeOK, Places
<1>6. ReadsWhole(target)' /\ ReadsWhole(keptTarget)'
  BY <1>2, <1>3 DEF WriteInv, WriteTypeOK, ReadsWhole, OneWriting
<1>7. LockInv' /\ \A x \in Writers : lock' = x => x = w
  <2>1. "sync" \in Places \ Outside
    BY DEF Places, Outside
  <2> QED BY <1>1, <2>1, LockKept
<1>8. Progress(w)'
  <2>1. [data[i] EXCEPT ![2] = w] = Whole(w)
    BY <1>2, <1>4 DEF Contents, Parts, Whole
  <2>2. data'[i] = Whole(w)
    BY <1>2, <1>3, <2>1 DEF WriteInv, WriteTypeOK
  <2> QED BY <1>1, <1>2, <2>2 DEF Progress, WriteInv, WriteTypeOK
<1> QED BY <1>5, <1>6, <1>7, <1>8 DEF WriteInv

LEMMA WriteRaisesStep ==
  ASSUME WriteInv, NEW w \in Writers, WriteRaises(w) PROVE WriteInv'
<1> USE DEF WriteRaises, disk
<1>1. pc[w] \notin Outside /\ pc' = [pc EXCEPT ![w] = "cleanup"]
  BY DEF Outside
<1>2. WriteTypeOK'
  BY DEF WriteInv, WriteTypeOK, Places
<1>3. ReadsWhole(target)' /\ ReadsWhole(keptTarget)'
  BY DEF WriteInv, ReadsWhole
<1>4. LockInv' /\ \A x \in Writers : lock' = x => x = w
  <2>1. "cleanup" \in Places \ Outside
    BY DEF Places, Outside
  <2> QED BY <1>1, <2>1, LockKept
<1>5. Progress(w)'
  BY <1>1 DEF Progress, WriteInv, WriteTypeOK
<1> QED BY <1>2, <1>3, <1>4, <1>5 DEF WriteInv

LEMMA SyncStep ==
  ASSUME WriteInv, NEW w \in Writers, Sync(w) PROVE WriteInv'
<1> USE DEF Goes, Sync
<1>1. pc[w] = "sync" /\ pc[w] \notin Outside /\ pc' = [pc EXCEPT ![w] = "replace"]
  BY DEF Outside
<1> DEFINE i == temp[Process[w]]
<1>2. /\ i \in Inodes /\ file[w] = i /\ i # target /\ i # keptTarget
      /\ data[i] = Whole(w)
  BY <1>1, InsideAlone DEF Progress
<1>3. kept' = [kept EXCEPT ![i] = data[i]]
  BY <1>2
<1>4. WriteTypeOK'
  BY <1>1, <1>2, <1>3 DEF WriteInv, WriteTypeOK, Places
<1>5. ReadsWhole(target)' /\ ReadsWhole(keptTarget)'
  BY <1>2, <1>3 DEF WriteInv, WriteTypeOK, ReadsWhole, OneWriting
<1>6. LockInv' /\ \A x \in Writers : lock' = x => x = w
  <2>1. "replace" \in Places \ Outside
    BY DEF Places, Outside
  <2> QED BY <1>1, <2>1, LockKept
<1>7. Progress(w)'
  BY <1>1, <1>2, <1>3 DEF Progress, WriteInv, WriteTypeOK
<1> QED BY <1>4, <1>5, <1>6, <1>7 DEF WriteInv

LEMMA ReplaceStep ==
  ASSUME WriteInv, NEW w \in Writers, Replace(w) PROVE WriteInv'
<1> USE DEF Replace
<1> DEFINE i == temp[Process[w]]
<1>1. pc[w] = "replace" /\ pc[w] \notin Outside
  BY DEF Outside
<1>2. /\ i \in Inodes /\ data[i] = Whole(w) /\ kept[i] = Whole(w)
      /\ Process[w] \in Processes /\ i # Nothing
  BY <1>1, InsideAlone, WriteAssumption DEF Progress
<1>3. pc' = [pc EXCEPT ![w] = "syncdir"] /\ target' = i
  BY <1>2
<1>4. WriteTypeOK'
  BY <1>2, <1>3 DEF WriteInv, WriteTypeOK, Places
<1>5. ReadsWhole(target)' /\ ReadsWhole(keptTarget)'
  BY <1>2, <1>3 DEF WriteInv, ReadsWhole, OneWriting
<1>6. LockInv' /\ \A x \in Writers : lock' = x => x = w
  <2>1. "syncdir" \in Places \ Outside
    BY DEF Places, Outside
  <2> QED BY <1>1, <1>3, <2>1, LockKept DEF WriteInv, WriteTypeOK
<1>7. Progress(w)'
  BY <1>2, <1>3 DEF Progress, WriteInv, WriteTypeOK
<1> QED BY <1>4, <1>5, <1>6, <1>7 DEF WriteInv

LEMMA SyncDirectoryStep ==
  ASSUME WriteInv, NEW w \in Writers, SyncDirectory(w) PROVE WriteInv'
<1> USE DEF Goes, SyncDirectory
<1>1. pc[w] \notin Outside /\ pc' = [pc EXCEPT ![w] = "cleanup"]
  BY DEF Outside
<1>2. WriteTypeOK'
  BY DEF WriteInv, WriteTypeOK, Places
<1>3. ReadsWhole(target)' /\ ReadsWhole(keptTarget)'
  BY DEF WriteInv, ReadsWhole
<1>4. LockInv' /\ \A x \in Writers : lock' = x => x = w
  <2>1. "cleanup" \in Places \ Outside
    BY DEF Places, Outside
  <2> QED BY <1>1, <2>1, LockKept
<1>5. Progress(w)'
  BY <1>1 DEF Progress, WriteInv, WriteTypeOK
<1> QED BY <1>2, <1>3, <1>4, <1>5 DEF WriteInv

LEMMA CleanupStep ==
  ASSUME WriteInv, NEW w \in Writers, Cleanup(w) PROVE WriteInv'
<1> USE DEF Goes, Cleanup
<1>1. pc[w] \notin Outside /\ pc' = [pc EXCEPT ![w] = "release"]
  BY DEF Outside
<1>2. WriteTypeOK'
  BY DEF WriteInv, WriteTypeOK, Places
<1>3. ReadsWhole(target)' /\ ReadsWhole(keptTarget)'
  BY DEF WriteInv, ReadsWhole
<1>4. LockInv' /\ \A x \in Writers : lock' = x => x = w
  <2>1. "release" \in Places \ Outside
    BY DEF Places, Outside
  <2> QED BY <1>1, <2>1, LockKept DEF WriteInv, WriteTypeOK
<1>5. Progress(w)'
  BY <1>1, InsideAlone DEF Progress, WriteInv, WriteTypeOK
<1> QED BY <1>2, <1>3, <1>4, <1>5 DEF WriteInv

LEMMA LeaveStep ==
  ASSUME Locked = TRUE, WriteInv, NEW w \in Writers, Leave(w) PROVE WriteInv'
<1> USE DEF Goes, Leave, disk
<1>1. pc[w] = "release" /\ pc[w] \notin Outside /\ pc' = [pc EXCEPT ![w] = "done"] /\ lock' = Nothing
  BY DEF Outside
<1>2. WriteTypeOK'
  BY <1>1 DEF WriteInv, WriteTypeOK, Places
<1>3. ReadsWhole(target)' /\ ReadsWhole(keptTarget)'
  BY DEF WriteInv, ReadsWhole
<1>4. \A x \in Writers : pc'[x] \in Outside /\ lock' # x
  BY <1>1, InsideAlone, WriteAssumption DEF WriteInv, WriteTypeOK, Outside
<1>5. \A p \in Processes : temp'[p] = Nothing
  BY <1>1, InsideAlone DEF Progress
<1> QED BY <1>2, <1>3, <1>4, <1>5 DEF WriteInv, LockInv

LEMMA FlushDataStep ==
  ASSUME WriteInv, NEW j \in Inodes, FlushData(j) PROVE WriteInv'
<1> USE DEF FlushData
<1>1. WriteTypeOK'
  BY DEF WriteInv, WriteTypeOK
<1>2. ReadsWhole(target)' /\ ReadsWhole(keptTarget)'
  BY DEF WriteInv, WriteTypeOK, ReadsWhole, OneWriting
<1>3. LockInv'
  BY DEF WriteInv, LockInv
<1>4. ASSUME NEW w \in Writers, lock' = w PROVE Progress(w)'
  BY <1>4 DEF WriteInv, WriteTypeOK, Progress
<1> QED BY <1>1, <1>2, <1>3, <1>4 DEF WriteInv

LEMMA FlushNameStep ==
  ASSUME WriteInv, FlushName PROVE WriteInv'
<1> USE DEF FlushName
<1>1. WriteTypeOK'
  BY DEF WriteInv, WriteTypeOK
<1>2. ReadsWhole(target)' /\ ReadsWhole(keptTarget)'
  BY DEF WriteInv, ReadsWhole
<1>3. LockInv'
  BY DEF WriteInv, LockInv
<1>4. ASSUME NEW w \in Writers, lock' = w PROVE Progress(w)'
  BY <1>4 DEF WriteInv, Progress
<1> QED BY <1>1, <1>2, <1>3, <1>4 DEF WriteInv

LEMMA PowerLossStep ==
  ASSUME WriteInv, PowerLoss PROVE WriteInv'
<1> USE DEF PowerLoss
<1>1. WriteTypeOK'
  BY WriteAssumption DEF WriteInv, WriteTypeOK, Places
<1>2. ReadsWhole(target)' /\ ReadsWhole(keptTarget)'
  BY DEF WriteInv, ReadsWhole
<1>3. \A w \in Writers : pc'[w] \in Outside /\ lock' # w
  BY WriteAssumption DEF Outside
<1>4. LockInv'
  BY <1>3 DEF LockInv
<1> QED BY <1>1, <1>2, <1>3, <1>4 DEF WriteInv

LEMMA WriteStep == ASSUME Locked = TRUE PROVE WriteInv /\ [WriteNext]_writeVars => WriteInv'
<1> SUFFICES ASSUME WriteInv, [WriteNext]_writeVars PROVE WriteInv'
  OBVIOUS
<1>1. CASE UNCHANGED writeVars
  BY <1>1 DEF writeVars, disk, WriteInv, WriteTypeOK, ReadsWhole, OneWriting, LockInv, Progress
<1>2. ASSUME NEW w \in Writers,
             \/ Enter(w) \/ OpenTemp(w)
             \/ WritePart(w, "first", 1, "second") \/ WritePart(w, "second", 2, "sync")
             \/ WriteRaises(w) \/ Sync(w) \/ Replace(w) \/ SyncDirectory(w)
             \/ Cleanup(w) \/ Leave(w)
      PROVE  WriteInv'
  BY <1>2, EnterStep, OpenTempStep, FirstPartStep, SecondPartStep, WriteRaisesStep,
     SyncStep, ReplaceStep, SyncDirectoryStep, CleanupStep, LeaveStep
<1>3. ASSUME NEW i \in Inodes, FlushData(i) PROVE WriteInv'
  BY <1>3, FlushDataStep
<1> QED BY <1>1, <1>2, <1>3, FlushNameStep, PowerLossStep DEF WriteNext

\* As long as the writers take store_lock, a reader at any moment, and whoever reads
\* after a power loss at any moment, finds a whole file: what _write_atomically
\* promises, for any number of threads and processes.
THEOREM FileAlwaysWhole == ASSUME Locked = TRUE PROVE WriteSpec => []FileIsWhole
<1>1. WriteInv => FileIsWhole
  BY DEF WriteInv, ReadsWhole, FileIsWhole, ReaderSeesWhole, PlatterIsWhole
<1> QED BY <1>1, WriteInitInv, WriteStep, PTL DEF WriteSpec

-----------------------------------------------------------------------------
(* Numbers.                                                                *)

LEMMA LeastOf ==
  ASSUME NEW N \in SUBSET Nat, N # {}
  PROVE  \E n \in N : \A m \in N : n <= m
<1>1. PICK n \in N : \A m \in N : ~ (<<m, n>> \in OpToRel(<, Nat))
  BY NatLessThanWellFounded, WFMin
<1>2. \A m \in N : ~ (m < n)
  BY <1>1 DEF OpToRel
<1> QED BY <1>2

\* Induction up to n, over the numbers of which something holds.
LEMMA UpTo ==
  ASSUME NEW n \in Nat, NEW G, 0 \in G, \A k \in 1..n : k - 1 \in G => k \in G
  PROVE  \A k \in 0..n : k \in G
<1> SUFFICES ASSUME NEW j \in 0..n, j \notin G PROVE FALSE
  OBVIOUS
<1> DEFINE Bad == {k \in 0..n : k \notin G}
<1>1. Bad \in SUBSET Nat /\ Bad # {}
  OBVIOUS
<1>2. PICK k \in Bad : \A m \in Bad : k <= m
  BY <1>1, LeastOf
<1>3. k \in 1..n /\ k - 1 \in 0..n
  OBVIOUS
<1>4. k - 1 \in G
  BY <1>2, <1>3
<1> QED BY <1>3, <1>4

LEMMA MinOf ==
  ASSUME NEW N \in SUBSET Nat, N # {}
  PROVE  Min(N) \in N /\ \A m \in N : Min(N) <= m
<1>1. \E n \in N : \A m \in N : n <= m
  BY LeastOf
<1> QED BY <1>1 DEF Min

-----------------------------------------------------------------------------
(* The table of months.                                                    *)

L == Len(MonthLengths)

LEMMA Table ==
  /\ L \in Nat /\ L > 0 /\ Months = 1..L
  /\ FirstMonth \in 1..12 /\ FirstWeekday \in 0..6
  /\ \A m \in Months : MonthLengths[m] \in 28..31
  /\ None \notin Int
BY CalendarAssumption DEF L, Months

LEMMA FirstDayIs ==
  /\ FirstDay \in [1..(L + 1) -> Nat]
  /\ FirstDay[1] = 0
  /\ \A m \in Months : FirstDay[m + 1] = FirstDay[m] + MonthLengths[m]
<1> USE Table
<1> DEFINE Starts(f, k) == /\ f \in [1..(k + 1) -> Nat] /\ f[1] = 0
                           /\ \A m \in 1..k : f[m + 1] = f[m] + MonthLengths[m]
           G == {k \in 0..L : \E f : Starts(f, k)}
<1>1. 0 \in G
  <2> DEFINE f == [m \in 1..1 |-> 0]
  <2>1. Starts(f, 0)
    OBVIOUS
  <2> HIDE DEF f
  <2> QED BY <2>1
<1>2. ASSUME NEW k \in 1..L, k - 1 \in G PROVE k \in G
  <2>1. PICK f : Starts(f, k - 1)
    BY <1>2
  <2>2. f \in [1..k -> Nat] /\ f[1] = 0
        /\ \A m \in 1..(k - 1) : f[m + 1] = f[m] + MonthLengths[m]
    BY <2>1
  <2> DEFINE h == [m \in 1..(k + 1) |-> IF m = k + 1 THEN f[k] + MonthLengths[k] ELSE f[m]]
  <2>3. f[k] \in Nat /\ MonthLengths[k] \in Nat
    BY <2>2
  <2>4. h \in [1..(k + 1) -> Nat]
    BY <2>2, <2>3
  <2>5. h[1] = 0
    BY <2>2
  <2>6. \A m \in 1..k : h[m + 1] = h[m] + MonthLengths[m]
    <3> SUFFICES ASSUME NEW m \in 1..k PROVE h[m + 1] = h[m] + MonthLengths[m]
      OBVIOUS
    <3>1. CASE m = k
      BY <3>1
    <3>2. CASE m # k
      BY <3>2, <2>2
    <3> QED BY <3>1, <3>2
  <2> HIDE DEF h
  <2>7. Starts(h, k)
    BY <2>4, <2>5, <2>6
  <2>8. \E g : Starts(g, k)
    BY <2>7
  <2>9. k \in 0..L
    OBVIOUS
  <2> HIDE DEF Starts
  <2> QED BY <2>8, <2>9
<1>3. \A k \in 0..L : k \in G
  <2> HIDE DEF G
  <2> QED BY <1>1, <1>2, UpTo
<1>4. PICK f : Starts(f, L)
  <2>1. L \in G
    BY <1>3
  <2> HIDE DEF Starts
  <2> QED BY <2>1
<1> DEFINE E(g) == [m \in 1..(L + 1) |->
                      IF m = 1 THEN 0 ELSE g[m - 1] + MonthLengths[m - 1]]
<1>5. f = E(f)
  <2>1. f \in [1..(L + 1) -> Nat] /\ f[1] = 0
    BY <1>4
  <2>2. ASSUME NEW m \in 1..(L + 1), m # 1 PROVE f[m] = f[m - 1] + MonthLengths[m - 1]
    <3>1. m - 1 \in 1..L
      BY <2>2
    <3>2. f[(m - 1) + 1] = f[m - 1] + MonthLengths[m - 1]
      BY <1>4, <3>1
    <3> QED BY <3>2
  <2> QED BY <2>1, <2>2
<1>6. FirstDay = E(FirstDay)
  <2>1. FirstDay = CHOOSE g : g = E(g)
    BY DEF FirstDay, L
  <2> HIDE DEF E
  <2> QED BY <1>5, <2>1
<1>7. FirstDay[1] = 0
  BY <1>6
<1>8. ASSUME NEW m \in Months PROVE FirstDay[m + 1] = FirstDay[m] + MonthLengths[m]
  <2>1. m + 1 \in 1..(L + 1) /\ m + 1 # 1 /\ (m + 1) - 1 = m
    OBVIOUS
  <2>2. E(FirstDay)[m + 1] = FirstDay[m] + MonthLengths[m]
    BY <2>1
  <2> QED BY <1>6, <2>2
<1>9. \A k \in 0..L : FirstDay[k + 1] \in Nat
  <2> DEFINE N == {k \in 0..L : FirstDay[k + 1] \in Nat}
  <2>1. 0 \in N
    BY <1>7
  <2>2. ASSUME NEW k \in 1..L, k - 1 \in N PROVE k \in N
    <3>1. FirstDay[(k - 1) + 1] \in Nat /\ (k - 1) + 1 = k
      BY <2>2
    <3>2. FirstDay[k + 1] \in Nat
      <4>1. k \in Months
        OBVIOUS
      <4>2. FirstDay[k + 1] = FirstDay[k] + MonthLengths[k] /\ MonthLengths[k] \in 28..31
        BY <1>8, <4>1
      <4>3. MonthLengths[k] \in Nat
        BY <4>2
      <4> QED BY <3>1, <4>2, <4>3
    <3>3. k \in 0..L
      OBVIOUS
    <3> QED BY <3>2, <3>3
  <2> HIDE DEF N
  <2>3. \A k \in 0..L : k \in N
    BY <2>1, <2>2, UpTo
  <2> QED BY <2>3 DEF N
<1>10. \A m \in 1..(L + 1) : FirstDay[m] \in Nat
  <2> SUFFICES ASSUME NEW m \in 1..(L + 1) PROVE FirstDay[m] \in Nat
    OBVIOUS
  <2>1. m - 1 \in 0..L
    OBVIOUS
  <2>2. FirstDay[(m - 1) + 1] \in Nat
    BY <1>9, <2>1
  <2> QED BY <2>2
<1>11. FirstDay = [m \in 1..(L + 1) |-> FirstDay[m]]
  BY <1>6
<1> HIDE DEF E, G, Starts
<1> QED BY <1>7, <1>8, <1>10, <1>11

LEMMA StartsTyped ==
  \A m \in Months : /\ FirstDay[m] \in Nat /\ FirstDay[m + 1] \in Nat
                     /\ MonthLengths[m] \in 28..31
                     /\ FirstDay[m + 1] = FirstDay[m] + MonthLengths[m]
<1> SUFFICES ASSUME NEW m \in Months
             PROVE  /\ FirstDay[m] \in Nat /\ FirstDay[m + 1] \in Nat
                    /\ MonthLengths[m] \in 28..31
                    /\ FirstDay[m + 1] = FirstDay[m] + MonthLengths[m]
  OBVIOUS
<1>1. m \in 1..(L + 1) /\ m + 1 \in 1..(L + 1)
  BY Table
<1> QED BY <1>1, FirstDayIs, Table

LEMMA MonthOrder ==
  ASSUME NEW i \in 1..(L + 1), NEW j \in 1..(L + 1), i <= j
  PROVE  FirstDay[i] <= FirstDay[j]
<1> USE Table
<1> DEFINE G == {k \in 0..L : i + k <= L + 1 => FirstDay[i] <= FirstDay[i + k]}
<1>0. FirstDay[i] \in Nat
  BY FirstDayIs
<1>1. 0 \in G
  BY <1>0
<1>2. ASSUME NEW k \in 1..L, k - 1 \in G PROVE k \in G
  <2> SUFFICES ASSUME i + k <= L + 1 PROVE FirstDay[i] <= FirstDay[i + k]
    OBVIOUS
  <2> DEFINE p == i + (k - 1)
  <2>1. FirstDay[i] <= FirstDay[p]
    BY <1>2
  <2>2. p \in Months /\ p + 1 = i + k
    OBVIOUS
  <2> HIDE DEF G, p
  <2>3. FirstDay[p] \in Nat /\ MonthLengths[p] \in 28..31
        /\ FirstDay[p + 1] = FirstDay[p] + MonthLengths[p]
    BY <2>2, StartsTyped
  <2>4. FirstDay[i + k] = FirstDay[p] + MonthLengths[p]
    BY <2>2, <2>3
  <2> QED BY <1>0, <2>1, <2>3, <2>4
<1>3. \A k \in 0..L : k \in G
  <2> HIDE DEF G
  <2> QED BY <1>1, <1>2, UpTo
<1>4. j - i \in 0..L /\ i + (j - i) = j /\ j <= L + 1
  OBVIOUS
<1>5. i + (j - i) <= L + 1 => FirstDay[i] <= FirstDay[i + (j - i)]
  BY <1>3, <1>4
<1> HIDE DEF G
<1> QED BY <1>4, <1>5

LEMMA LastDayIs ==
  /\ \A m \in Months : /\ LastDay[m] = FirstDay[m + 1] - 1
                        /\ LastDay[m] \in Nat /\ FirstDay[m] <= LastDay[m]
                        /\ LastDay[m] = FirstDay[m] + MonthLengths[m] - 1
                        /\ LastDay[m] <= TableEnd
  /\ TableEnd \in Nat /\ TableEnd = FirstDay[L + 1] - 1 /\ Days = 0..TableEnd
  /\ L \in Months
<1> USE Table
<1>1. ASSUME NEW m \in Months
      PROVE  /\ LastDay[m] = FirstDay[m + 1] - 1
             /\ LastDay[m] \in Nat /\ FirstDay[m] <= LastDay[m]
             /\ LastDay[m] = FirstDay[m] + MonthLengths[m] - 1
  <2>1. LastDay[m] = FirstDay[m + 1] - 1
    BY DEF LastDay
  <2>2. /\ FirstDay[m] \in Nat /\ FirstDay[m + 1] \in Nat
        /\ MonthLengths[m] \in 28..31
        /\ FirstDay[m + 1] = FirstDay[m] + MonthLengths[m]
    BY StartsTyped
  <2>3. PICK a, b, l : a = FirstDay[m] /\ b = FirstDay[m + 1] /\ l = MonthLengths[m]
    OBVIOUS
  <2>4. /\ a \in Nat /\ b \in Nat /\ l \in 28..31 /\ b = a + l
        /\ LastDay[m] = b - 1
    BY <2>1, <2>2, <2>3
  <2>5. b - 1 \in Nat /\ a <= b - 1 /\ b - 1 = a + l - 1
    BY ONLY <2>4
  <2> QED BY <2>1, <2>3, <2>4, <2>5
<1>2. L \in Months
  OBVIOUS
<1>3. TableEnd \in Nat /\ TableEnd = FirstDay[L + 1] - 1 /\ Days = 0..TableEnd
  <2>1. TableEnd = LastDay[L] /\ Days = 0..TableEnd
    BY DEF TableEnd, Days, L
  <2> QED BY <1>1, <1>2, <2>1
<1>4. ASSUME NEW m \in Months PROVE LastDay[m] <= TableEnd
  <2>1. FirstDay[m + 1] <= FirstDay[L + 1]
    <3>1. m + 1 \in 1..(L + 1) /\ L + 1 \in 1..(L + 1) /\ m + 1 <= L + 1
      OBVIOUS
    <3> QED BY <3>1, MonthOrder
  <2>2. FirstDay[m + 1] \in Nat /\ FirstDay[L + 1] \in Nat
    BY <1>2, StartsTyped
  <2> QED BY <2>1, <2>2, <1>1, <1>3
<1> QED BY <1>1, <1>2, <1>3, <1>4

\* Every day of the table is in one month.
LEMMA MonthIs ==
  ASSUME NEW d \in Days
  PROVE  /\ MonthOf[d] \in Months
         /\ FirstDay[MonthOf[d]] <= d /\ d <= LastDay[MonthOf[d]]
<1> USE Table
<1> DEFINE After == {k \in 1..(L + 1) : d < FirstDay[k]}
<1>0. d \in Nat /\ d <= TableEnd
  BY LastDayIs
<1>1. L + 1 \in After /\ After \in SUBSET Nat
  <2>1. FirstDay[L + 1] \in Nat /\ L + 1 \in 1..(L + 1)
    BY StartsTyped, LastDayIs
  <2> QED BY <2>1, <1>0, LastDayIs
<1>2. PICK k \in After : \A j \in After : k <= j
  BY <1>1, LeastOf
<1>3. k # 1
  BY <1>0, FirstDayIs
<1> DEFINE m == k - 1
<1>4. m \in Months /\ m \notin After /\ m \in 1..(L + 1) /\ m + 1 = k
  <2>1. k \in 1..(L + 1)
    OBVIOUS
  <2> QED BY <1>2, <1>3, <2>1
<1>5. d < FirstDay[m + 1]
  BY <1>4
<1>6. ~ (d < FirstDay[m])
  BY <1>4
<1> HIDE DEF After, m
<1>7. d \in FirstDay[m]..LastDay[m]
  <2>1. /\ FirstDay[m] \in Nat /\ FirstDay[m + 1] \in Nat
        /\ LastDay[m] = FirstDay[m + 1] - 1
    BY <1>4, StartsTyped, LastDayIs
  <2> QED BY <1>0, <1>5, <1>6, <2>1
<1>8. MonthOf[d] = CHOOSE n \in Months : d \in FirstDay[n]..LastDay[n]
  BY DEF MonthOf
<1>9. MonthOf[d] \in Months /\ d \in FirstDay[MonthOf[d]]..LastDay[MonthOf[d]]
  BY <1>4, <1>7, <1>8
<1> QED BY <1>9

LEMMA MonthMono ==
  ASSUME NEW d \in Days, NEW e \in Days, d <= e
  PROVE  MonthOf[d] <= MonthOf[e]
<1> USE Table
<1> DEFINE m == MonthOf[d]
           n == MonthOf[e]
<1>1. /\ m \in Months /\ FirstDay[m] <= d
      /\ n \in Months /\ e <= LastDay[n]
      /\ d \in Nat /\ e \in Nat
  BY MonthIs, LastDayIs
<1> HIDE DEF m, n
<1> SUFFICES ASSUME n < m PROVE FALSE
  BY <1>1 DEF m, n
<1>2. n + 1 \in 1..(L + 1) /\ m \in 1..(L + 1) /\ n + 1 <= m
  BY <1>1
<1>3. FirstDay[n + 1] <= FirstDay[m]
  BY <1>2, MonthOrder
<1>4. /\ FirstDay[n + 1] \in Nat /\ FirstDay[m] \in Nat
      /\ LastDay[n] = FirstDay[n + 1] - 1
  BY <1>1, StartsTyped, LastDayIs
<1> QED BY <1>1, <1>3, <1>4

LEMMA InMonth ==
  ASSUME NEW m \in Months, NEW d \in FirstDay[m]..LastDay[m]
  PROVE  d \in Days /\ MonthOf[d] = m
<1> USE Table
<1>1. /\ FirstDay[m] \in Nat /\ LastDay[m] \in Nat /\ LastDay[m] <= TableEnd
      /\ FirstDay[m + 1] \in Nat /\ LastDay[m] = FirstDay[m + 1] - 1
      /\ TableEnd \in Nat /\ Days = 0..TableEnd
  BY StartsTyped, LastDayIs
<1>2. d \in Days /\ d \in Nat /\ FirstDay[m] <= d /\ d < FirstDay[m + 1]
  BY <1>1
<1> DEFINE k == MonthOf[d]
<1>3. /\ k \in Months /\ FirstDay[k] <= d /\ d <= LastDay[k]
  BY <1>2, MonthIs
<1> HIDE DEF k
<1>4. /\ FirstDay[k] \in Nat /\ FirstDay[k + 1] \in Nat
      /\ d < FirstDay[k + 1]
  <2>1. FirstDay[k] \in Nat /\ FirstDay[k + 1] \in Nat
    BY <1>3, StartsTyped
  <2>2. d <= FirstDay[k + 1] - 1 /\ d \in Nat
    BY <1>2, <1>3, LastDayIs
  <2>3. PICK b : b = FirstDay[k + 1]
    OBVIOUS
  <2>4. b \in Nat /\ d <= b - 1
    BY <2>1, <2>2, <2>3
  <2>5. d < b
    BY ONLY <2>2, <2>4
  <2> QED BY <2>1, <2>3, <2>5
<1>5. ASSUME k < m PROVE FALSE
  <2>1. k + 1 \in 1..(L + 1) /\ m \in 1..(L + 1) /\ k + 1 <= m
    BY <1>3, <1>5
  <2>2. FirstDay[k + 1] <= FirstDay[m]
    BY <2>1, MonthOrder
  <2> QED BY <1>1, <1>2, <1>4, <2>2
<1>6. ASSUME m < k PROVE FALSE
  <2>1. m + 1 \in 1..(L + 1) /\ k \in 1..(L + 1) /\ m + 1 <= k
    BY <1>3, <1>6
  <2>2. FirstDay[m + 1] <= FirstDay[k]
    BY <2>1, MonthOrder
  <2> QED BY <1>1, <1>2, <1>3, <1>4, <2>2
<1>7. k = m
  BY <1>3, <1>5, <1>6
<1> QED BY <1>2, <1>7 DEF k

-----------------------------------------------------------------------------
(* Periods of months.                                                      *)

Monthly == {"MONTH", "QUARTER", "HALF_YEAR", "YEAR"}

LEMMA PeriodKinds == Periods = {"DAY", "WEEK"} \cup Monthly
BY DEF Periods, Monthly

LEMMA NumberIs ==
  ASSUME NEW m \in Nat, m > 0
  PROVE  /\ NumberOf(m) \in 1..12
         /\ \A k \in 0..11 : NumberOf(m) + k <= 12 => NumberOf(m + k) = NumberOf(m) + k
<1>1. FirstMonth \in 1..12
  BY Table
<1> DEFINE x == FirstMonth + m - 2
<1>2. x \in Nat /\ NumberOf(m) = (x % 12) + 1
  BY <1>1 DEF NumberOf
<1>3. ASSUME NEW k \in 0..11 PROVE NumberOf(m + k) = ((x + k) % 12) + 1
  <2>1. FirstMonth + (m + k) - 2 = x + k
    BY <1>1
  <2> QED BY <2>1 DEF NumberOf
<1> HIDE DEF x
<1>4. x % 12 \in 0..11
  BY <1>2
<1>5. ASSUME NEW k \in 0..11, (x % 12) + k <= 11 PROVE (x + k) % 12 = (x % 12) + k
  BY <1>2, <1>5
<1> QED BY <1>2, <1>3, <1>4, <1>5

LEMMA ClosingIs ==
  ASSUME NEW n \in 1..12, NEW period \in Monthly
  PROVE  /\ ClosingMonth(n, period) \in n..12
         /\ \A k \in n..ClosingMonth(n, period) :
              ClosingMonth(k, period) = ClosingMonth(n, period)
         /\ ClosingMonth(n, period) = n <=>
              CASE period = "MONTH" -> TRUE
                [] period = "QUARTER" -> n % 3 = 0
                [] period = "HALF_YEAR" -> n \in {6, 12}
                [] period = "YEAR" -> n = 12
<1>1. CASE period = "MONTH"
  BY <1>1 DEF ClosingMonth
<1>2. CASE period = "QUARTER"
  <2>1. \A k \in 1..12 : ClosingMonth(k, period) = ((k - 1) \div 3 + 1) * 3
    BY <1>2 DEF ClosingMonth
  <2>2. \A k \in 1..12 : ClosingMonth(k, period) \in k..12
    BY <2>1
  <2>3. \A k \in 1..12 : ClosingMonth(k, period) = k <=> k % 3 = 0
    BY <2>1
  <2>4. \A k \in n..ClosingMonth(n, period) : ClosingMonth(k, period) = ClosingMonth(n, period)
    <3>1. ClosingMonth(n, period) \in n..12 /\ ClosingMonth(n, period) = ((n - 1) \div 3 + 1) * 3
      BY <2>1, <2>2
    <3> SUFFICES ASSUME NEW k \in n..ClosingMonth(n, period)
                 PROVE ClosingMonth(k, period) = ClosingMonth(n, period)
      OBVIOUS
    <3>2. k \in 1..12 /\ n <= k /\ k <= ((n - 1) \div 3 + 1) * 3
      BY <3>1
    <3>3. ((k - 1) \div 3 + 1) * 3 = ((n - 1) \div 3 + 1) * 3
      BY <3>2
    <3> QED BY <2>1, <3>1, <3>2, <3>3
  <2> QED BY <1>2, <2>2, <2>3, <2>4
<1>3. CASE period = "HALF_YEAR"
  BY <1>3 DEF ClosingMonth
<1>4. CASE period = "YEAR"
  BY <1>4 DEF ClosingMonth
<1> QED BY <1>1, <1>2, <1>3, <1>4 DEF Monthly

\* The month that closes the period of month m.
CloseOf(m, period) == m + ClosingMonth(NumberOf(m), period) - NumberOf(m)

LEMMA CloseIs ==
  ASSUME NEW m \in Nat, m > 0, NEW period \in Monthly
  PROVE  /\ CloseOf(m, period) \in m..(m + 11)
         /\ CloseOf(m, period) + NumberOf(m) - m <= 12
         /\ \A j \in m..CloseOf(m, period) : CloseOf(j, period) = CloseOf(m, period)
<1> DEFINE n == NumberOf(m)
           c == ClosingMonth(n, period)
<1>1. n \in 1..12 /\ \A k \in 0..11 : n + k <= 12 => NumberOf(m + k) = n + k
  BY NumberIs
<1>2. c \in n..12 /\ \A k \in n..c : ClosingMonth(k, period) = c
  BY <1>1, ClosingIs
<1>3. CloseOf(m, period) = m + c - n
  BY DEF CloseOf
<1> HIDE DEF n, c
<1>4. m + c - n \in m..(m + 11) /\ (m + c - n) + n - m <= 12
  BY <1>1, <1>2
<1>5. ASSUME NEW j \in m..(m + c - n) PROVE CloseOf(j, period) = m + c - n
  <2>1. j - m \in 0..11 /\ n + (j - m) <= 12 /\ m + (j - m) = j
    BY <1>1, <1>2
  <2>2. NumberOf(m + (j - m)) = n + (j - m)
    BY <1>1, <2>1
  <2>3. n + (j - m) \in n..c
    BY <1>1, <1>2
  <2>4. ClosingMonth(n + (j - m), period) = c
    BY <1>2, <2>3
  <2>5. CloseOf(j, period) = j + c - (n + (j - m))
    BY <2>1, <2>2, <2>4 DEF CloseOf
  <2> QED BY <2>5, <1>1, <1>2
<1> QED BY <1>3, <1>4, <1>5 DEF n

LEMMA CloseMono ==
  ASSUME NEW i \in Nat, NEW j \in Nat, i > 0, i <= j, NEW period \in Monthly
  PROVE  CloseOf(i, period) <= CloseOf(j, period)
<1>1. CloseOf(i, period) \in i..(i + 11) /\ CloseOf(j, period) \in j..(j + 11)
  BY CloseIs
<1>2. CASE j <= CloseOf(i, period)
  <2>1. CloseOf(j, period) = CloseOf(i, period)
    BY <1>1, <1>2, CloseIs
  <2> QED BY <1>1, <2>1
<1>3. CASE ~ (j <= CloseOf(i, period))
  BY <1>1, <1>3
<1> QED BY <1>2, <1>3

\* The days of a leap year before month n.
DaysBefore(n) ==
  CASE n = 1 -> 0 [] n = 2 -> 31 [] n = 3 -> 60 [] n = 4 -> 91 [] n = 5 -> 121
    [] n = 6 -> 152 [] n = 7 -> 182 [] n = 8 -> 213 [] n = 9 -> 244
    [] n = 10 -> 274 [] n = 11 -> 305 [] n = 12 -> 335 [] n = 13 -> 366

\* No part of a year has more than 366 days.
LEMMA YearIs ==
  ASSUME NEW m \in Months, NEW k \in 0..12, m + k <= L + 1, NumberOf(m) + k <= 13
  PROVE  FirstDay[m + k] <= FirstDay[m] + 366
<1>n. PICK n : n = NumberOf(m)
  OBVIOUS
<1> DEFINE G == {i \in 0..k : FirstDay[m + i] <= FirstDay[m] + DaysBefore(n + i) - DaysBefore(n)}
<1>z. m \in Nat /\ m > 0 /\ L \in Nat /\ Months = 1..L
  BY Table
<1>0. n \in 1..12 /\ (\A i \in 0..11 : n + i <= 12 => NumberOf(m + i) = n + i)
      /\ n + k <= 13
  BY <1>z, <1>n, NumberIs
<1>1. FirstDay[m] \in Nat
  BY StartsTyped
<1>2. \A i \in 1..13 : DaysBefore(i) \in 0..366
  BY DEF DaysBefore
<1>3. 0 \in G
  <2>1. m + 0 = m /\ n + 0 = n
    BY <1>z, <1>0
  <2>2. n \in 1..13
    BY <1>0
  <2>3. DaysBefore(n) \in 0..366
    BY <1>2, <2>2
  <2> QED BY <1>1, <2>1, <2>3
<1>4. ASSUME NEW i \in 1..k, i - 1 \in G PROVE i \in G
  <2>1. PICK p, q : p = m + (i - 1) /\ q = n + (i - 1)
    OBVIOUS
  <2>2. FirstDay[p] <= FirstDay[m] + DaysBefore(q) - DaysBefore(n)
    BY <1>4, <2>1
  <2> HIDE DEF G
  <2>3. p \in Months /\ p + 1 = m + i
    BY <1>z, <2>1
  <2>4. q \in 1..12 /\ q + 1 = n + i /\ i - 1 \in 0..11 /\ n + (i - 1) <= 12
    BY <1>0, <2>1
  <2>5. NumberOf(p) = q
    BY <1>0, <2>1, <2>4
  <2>6. /\ FirstDay[p] \in Nat /\ MonthLengths[p] \in 28..31
        /\ FirstDay[p + 1] = FirstDay[p] + MonthLengths[p]
    BY <2>3, StartsTyped
  <2>7. MonthLengths[p] \in CASE q = 2 -> {28, 29} [] q \in {4, 6, 9, 11} -> {30}
                               [] OTHER -> {31}
    BY <2>3, <2>5, CalendarAssumption
  <2>8. MonthLengths[p] <= DaysBefore(q + 1) - DaysBefore(q)
    BY <2>4, <2>6, <2>7 DEF DaysBefore
  <2>9. q + 1 \in 1..13 /\ q \in 1..13 /\ n \in 1..13
    BY <1>0, <2>4
  <2>10. PICK x \in 0..366, y \in 0..366, z \in 0..366 :
           x = DaysBefore(q + 1) /\ y = DaysBefore(q) /\ z = DaysBefore(n)
    BY <1>2, <2>9
  <2>11. FirstDay[p + 1] <= FirstDay[m] + x - z
    BY <1>1, <2>2, <2>6, <2>8, <2>10
  <2>12. FirstDay[m + i] <= FirstDay[m] + DaysBefore(n + i) - DaysBefore(n)
    BY <2>3, <2>4, <2>10, <2>11
  <2>13. i \in 0..k
    OBVIOUS
  <2> QED BY <2>12, <2>13 DEF G
<1>5. \A i \in 0..k : i \in G
  <2> HIDE DEF G
  <2> QED BY <1>3, <1>4, UpTo
<1>6. FirstDay[m + k] <= FirstDay[m] + DaysBefore(n + k) - DaysBefore(n)
  BY <1>5
<1>7. PICK x \in 0..366, y \in 0..366 : x = DaysBefore(n + k) /\ y = DaysBefore(n)
  <2>1. n + k \in 1..13 /\ n \in 1..13
    BY <1>0
  <2> QED BY <1>2, <2>1
<1>8. FirstDay[m + k] \in Nat
  <2>1. m + k \in 1..(L + 1)
    BY <1>z
  <2> QED BY <2>1, FirstDayIs
<1> HIDE DEF G
<1>9. FirstDay[m + k] <= FirstDay[m] + x - y
  BY <1>6, <1>7
<1> QED BY <1>1, <1>7, <1>8, <1>9

-----------------------------------------------------------------------------
(* The end of a period.                                                    *)

LEMMA WeekdayIs ==
  ASSUME NEW d \in Nat
  PROVE  /\ Weekday(d) \in 0..6
         /\ \A k \in 0..6 : Weekday(d) + k <= 6 => Weekday(d + k) = Weekday(d) + k
         /\ Weekday(d + (6 - Weekday(d)) + 1) = 0
<1>1. FirstWeekday \in 0..6
  BY Table
<1>2. PICK x : x = FirstWeekday + d
  OBVIOUS
<1>3. x \in Nat /\ Weekday(d) = x % 7
  BY <1>1, <1>2 DEF Weekday
<1>4. x % 7 \in 0..6
  BY <1>3
<1>5. ASSUME NEW k \in 0..6, Weekday(d) + k <= 6 PROVE Weekday(d + k) = Weekday(d) + k
  <2>1. FirstWeekday + (d + k) = x + k
    BY <1>1, <1>2
  <2>2. (x % 7) + k <= 6
    BY <1>3, <1>5
  <2>3. (x + k) % 7 = (x % 7) + k
    BY <1>3, <2>2
  <2> QED BY <1>3, <2>1, <2>3 DEF Weekday
<1>6. Weekday(d + (6 - Weekday(d)) + 1) = 0
  <2>0. PICK r \in 0..6 : r = x % 7
    BY <1>4
  <2>1. FirstWeekday + (d + (6 - Weekday(d)) + 1) = x + 7 - r
    BY <1>1, <1>2, <1>3, <2>0
  <2>2. (x + 7 - r) % 7 = 0
    BY <1>3, <2>0
  <2> QED BY <2>1, <2>2 DEF Weekday
<1> QED BY <1>3, <1>4, <1>5, <1>6

LEMMA EndOfMonths ==
  ASSUME NEW d \in Days, NEW period \in Monthly
  PROVE  EndOfPeriod(d, period) = LastDay[CloseOf(MonthOf[d], period)]
<1>1. period # "DAY" /\ period # "WEEK"
  BY DEF Monthly
<1> QED BY <1>1 DEF EndOfPeriod, CloseOf, MonthNumber

LEMMA EndIs ==
  ASSUME NEW d \in Days, NEW period \in Periods, MonthOf[d] + 11 \in Months
  PROVE  /\ EndOfPeriod(d, period) \in Days
         /\ d <= EndOfPeriod(d, period) /\ EndOfPeriod(d, period) <= d + 365
         /\ \A x \in d..EndOfPeriod(d, period) :
              EndOfPeriod(x, period) = EndOfPeriod(d, period)
<1>1. d \in Nat /\ d <= TableEnd /\ TableEnd \in Nat /\ Days = 0..TableEnd
  BY LastDayIs
<1>2. PICK m : m = MonthOf[d]
  OBVIOUS
<1>3. /\ m \in Months /\ FirstDay[m] <= d /\ d <= LastDay[m] /\ m + 11 \in Months
      /\ L \in Nat /\ Months = 1..L
  BY <1>2, MonthIs, Table
<1>4. CASE period = "DAY"
  <2>1. \A x : EndOfPeriod(x, period) = x
    BY <1>4 DEF EndOfPeriod
  <2> QED BY <1>1, <2>1
<1>5. CASE period = "WEEK"
  <2>1. \A x : EndOfPeriod(x, period) = x + (6 - Weekday(x))
    BY <1>5 DEF EndOfPeriod
  <2>2. PICK w : w = Weekday(d)
    OBVIOUS
  <2>3. w \in 0..6 /\ \A k \in 0..6 : w + k <= 6 => Weekday(d + k) = w + k
    BY <1>1, <2>2, WeekdayIs
  <2>4. EndOfPeriod(d, period) = d + (6 - w)
    BY <2>1, <2>2
  <2>5. d + (6 - w) <= TableEnd
    <3>1. m + 1 \in Months
      BY <1>3
    <3>2. LastDay[m] = FirstDay[m + 1] - 1 /\ LastDay[m + 1] <= TableEnd
          /\ LastDay[m + 1] = FirstDay[m + 1] + MonthLengths[m + 1] - 1
      BY <1>3, <3>1, LastDayIs
    <3>3. /\ FirstDay[m + 1] \in Nat /\ MonthLengths[m + 1] \in 28..31
      BY <3>1, StartsTyped
    <3>4. w \in 0..6 /\ d <= LastDay[m] /\ d \in Nat /\ TableEnd \in Nat
      BY <1>1, <1>3, <2>3
    <3>5. PICK x, y : x = FirstDay[m + 1] /\ y = MonthLengths[m + 1]
      OBVIOUS
    <3>6. x \in Nat /\ y \in 28..31 /\ d <= x - 1 /\ x + y - 1 <= TableEnd
      BY <3>2, <3>3, <3>4, <3>5
    <3> QED BY <3>4, <3>6
  <2>6. ASSUME NEW x \in d..(d + (6 - w)) PROVE EndOfPeriod(x, period) = d + (6 - w)
    <3>1. x - d \in 0..6 /\ w + (x - d) <= 6 /\ d + (x - d) = x
      BY <1>1, <2>3
    <3>2. Weekday(d + (x - d)) = w + (x - d)
      BY <2>3, <3>1
    <3>3. EndOfPeriod(x, period) = x + (6 - (w + (x - d)))
      BY <2>1, <3>1, <3>2
    <3> QED BY <1>1, <2>3, <3>3
  <2> QED BY <1>1, <2>3, <2>4, <2>5, <2>6
<1>6. CASE period \in Monthly
  <2>1. PICK c : c = CloseOf(m, period)
    OBVIOUS
  <2>2. /\ c \in m..(m + 11) /\ c + NumberOf(m) - m <= 12
        /\ \A j \in m..c : CloseOf(j, period) = c
    <3>1. m \in Nat /\ m > 0
      BY <1>3
    <3> QED BY <1>6, <2>1, <3>1, CloseIs
  <2>3. c \in Months /\ EndOfPeriod(d, period) = LastDay[c]
    BY <1>2, <1>3, <1>6, <2>1, <2>2, EndOfMonths
  <2>4. /\ LastDay[c] = FirstDay[c + 1] - 1 /\ LastDay[c] \in Nat
        /\ LastDay[c] <= TableEnd /\ FirstDay[c] <= LastDay[c]
        /\ FirstDay[m] \in Nat /\ FirstDay[c + 1] \in Nat /\ FirstDay[c] \in Nat
        /\ LastDay[m] = FirstDay[m + 1] - 1 /\ FirstDay[m + 1] \in Nat
    BY <1>3, <2>3, LastDayIs, StartsTyped
  <2>5. d <= LastDay[c]
    <3>1. FirstDay[m + 1] <= FirstDay[c + 1]
      <4>1. m + 1 \in 1..(L + 1) /\ c + 1 \in 1..(L + 1) /\ m + 1 <= c + 1
        BY <1>3, <2>2, <2>3
      <4> QED BY <4>1, MonthOrder
    <3> QED BY <1>1, <1>3, <2>4, <3>1
  <2>6. LastDay[c] <= d + 365
    <3>1. NumberOf(m) \in 1..12
      BY <1>3, NumberIs
    <3>2. PICK k \in 0..12 : k = c + 1 - m
      BY <1>3, <2>2
    <3>3. m + k <= L + 1 /\ NumberOf(m) + k <= 13 /\ m + k = c + 1
      <4>1. m \in Nat /\ L \in Nat /\ c \in Nat /\ c <= L /\ c + NumberOf(m) - m <= 12
        BY <1>3, <2>2, <2>3
      <4>2. PICK n : n = NumberOf(m)
        OBVIOUS
      <4>3. n \in 1..12 /\ c + n - m <= 12
        BY <3>1, <4>1, <4>2
      <4>4. m + k = c + 1 /\ m + k <= L + 1 /\ n + k <= 13
        BY ONLY <3>2, <4>1, <4>3
      <4> QED BY <4>2, <4>4
    <3>4. FirstDay[m + k] <= FirstDay[m] + 366
      BY <1>3, <3>3, YearIs
    <3>5. FirstDay[c + 1] <= FirstDay[m] + 366
      BY <3>3, <3>4
    <3>6. PICK a, b : a = FirstDay[m] /\ b = FirstDay[c + 1]
      OBVIOUS
    <3>7. a \in Nat /\ b \in Nat /\ a <= d /\ d \in Nat /\ b <= a + 366 /\ LastDay[c] = b - 1
      BY <1>1, <1>3, <2>4, <3>5, <3>6
    <3>8. b - 1 <= d + 365
      BY ONLY <3>7
    <3> QED BY <3>7, <3>8
  <2>7. ASSUME NEW x \in d..LastDay[c] PROVE EndOfPeriod(x, period) = LastDay[c]
    <3>1. x \in Days /\ LastDay[c] \in Days /\ d <= x /\ x <= LastDay[c]
      BY <1>1, <2>4
    <3>2. LastDay[c] \in FirstDay[c]..LastDay[c]
      BY <2>4
    <3>3. MonthOf[LastDay[c]] = c
      BY <2>3, <3>2, InMonth
    <3>4. m <= MonthOf[x] /\ MonthOf[x] <= c
      BY <1>2, <3>1, <3>3, MonthMono
    <3>5. MonthOf[x] \in m..c
      BY <1>3, <2>3, <3>1, <3>4, MonthIs
    <3> QED BY <1>6, <2>2, <3>1, <3>5, EndOfMonths
  <2> QED BY <1>1, <2>3, <2>4, <2>5, <2>6, <2>7
<1> QED BY <1>4, <1>5, <1>6, PeriodKinds

LEMMA EndMono ==
  ASSUME NEW d \in Days, NEW f \in Days, d <= f, NEW period \in Periods,
         MonthOf[f] + 11 \in Months
  PROVE  EndOfPeriod(d, period) <= EndOfPeriod(f, period)
<1>1. MonthOf[d] + 11 \in Months
  BY MonthIs, MonthMono, Table
<1>2. /\ EndOfPeriod(d, period) \in Days /\ EndOfPeriod(f, period) \in Days
      /\ f <= EndOfPeriod(f, period)
      /\ \A x \in d..EndOfPeriod(d, period) : EndOfPeriod(x, period) = EndOfPeriod(d, period)
  BY <1>1, EndIs
<1>3. d \in Nat /\ f \in Nat /\ EndOfPeriod(d, period) \in Nat /\ EndOfPeriod(f, period) \in Nat
  BY <1>2, LastDayIs
<1>4. CASE f <= EndOfPeriod(d, period)
  <2>1. f \in d..EndOfPeriod(d, period)
    BY <1>3, <1>4
  <2>2. EndOfPeriod(f, period) = EndOfPeriod(d, period)
    BY <1>2, <2>1
  <2> QED BY <1>3, <2>2
<1>5. CASE ~ (f <= EndOfPeriod(d, period))
  BY <1>2, <1>3, <1>5
<1> QED BY <1>4, <1>5

-----------------------------------------------------------------------------
(* The dates in a window.                                                  *)

Moves(next, top, end) == \A d \in 0..top : d <= end => next[d] \in (d + 1)..top
Loops(f, next, top, end) ==
  \A d \in 0..top : f[d] = IF d > end THEN {} ELSE {d} \cup f[next[d]]

\* When every pass moves on, a loop up to the end of a window does what it is said
\* to do.
LEMMA LoopIs ==
  ASSUME NEW top \in Nat, NEW end \in Nat, NEW next, NEW F, NEW W,
         Moves(next, top, end), Loops(F, next, top, end), Loops(W, next, top, end)
  PROVE  \A d \in 0..top : F[d] = W[d]
<1> USE DEF Moves, Loops
<1> DEFINE G == {k \in 0..(top + 1) : \A d \in 0..top : d > top - k => F[d] = W[d]}
<1>1. 0 \in G
  OBVIOUS
<1>2. ASSUME NEW k \in 1..(top + 1), k - 1 \in G PROVE k \in G
  <2> SUFFICES ASSUME NEW d \in 0..top, d > top - k PROVE F[d] = W[d]
    OBVIOUS
  <2>1. \A e \in 0..top : e > top - (k - 1) => F[e] = W[e]
    BY <1>2
  <2> HIDE DEF G
  <2>2. CASE d > end
    BY <2>2
  <2>3. CASE ~ (d > end)
    <3>1. next[d] \in (d + 1)..top
      BY <2>3
    <3>2. next[d] \in 0..top /\ next[d] > top - (k - 1)
      BY <3>1
    <3>3. F[next[d]] = W[next[d]]
      BY <2>1, <3>2
    <3> QED BY <2>3, <3>3
  <2> QED BY <2>2, <2>3
<1>3. \A k \in 0..(top + 1) : k \in G
  <2>1. top + 1 \in Nat
    OBVIOUS
  <2> HIDE DEF G
  <2> QED BY <1>1, <1>2, <2>1, UpTo
<1>4. top + 1 \in G
  BY <1>3
<1> QED BY <1>4

\* The first days of weeks and months.
Begins(period, k) ==
  IF period = "WEEK" THEN Weekday(k) = 0 ELSE FirstDay[MonthOf[k]] = k

LEMMA NextPassIs ==
  ASSUME NEW d \in Days, NEW period
  PROVE  /\ NextPass(period, d) \in (d + 1)..(TableEnd + 7)
         /\ \A k \in (d + 1)..(NextPass(period, d) - 1) : k \in Days => ~Begins(period, k)
         /\ NextPass(period, d) \in Days => Begins(period, NextPass(period, d))
<1>1. d \in Nat /\ d <= TableEnd /\ TableEnd \in Nat /\ Days = 0..TableEnd
  BY LastDayIs
<1>2. CASE period = "WEEK"
  <2>1. PICK w \in 0..6 : w = Weekday(d)
    BY <1>1, WeekdayIs
  <2>2. NextPass(period, d) = d + (6 - w) + 1
    BY <1>2, <2>1 DEF NextPass
  <2>3. Begins(period, d + (6 - w) + 1)
    BY <1>1, <1>2, <2>1, WeekdayIs DEF Begins
  <2>4. ASSUME NEW k \in (d + 1)..(d + (6 - w)) PROVE ~Begins(period, k)
    <3>1. k - d \in 0..6 /\ w + (k - d) <= 6 /\ d + (k - d) = k /\ k - d >= 1
      BY <1>1
    <3>2. Weekday(d + (k - d)) = w + (k - d)
      BY <1>1, <2>1, <3>1, WeekdayIs
    <3> QED BY <1>2, <3>1, <3>2 DEF Begins
  <2> QED BY <1>1, <2>2, <2>3, <2>4
<1>3. CASE period # "WEEK"
  <2>1. PICK m : m = MonthOf[d]
    OBVIOUS
  <2>2. m \in Months /\ FirstDay[m] <= d /\ d <= LastDay[m] /\ L \in Nat /\ Months = 1..L
    BY <2>1, MonthIs, Table
  <2>3. NextPass(period, d) = LastDay[m] + 1
    BY <1>3, <2>1 DEF NextPass
  <2>4. /\ LastDay[m] \in Nat /\ LastDay[m] <= TableEnd /\ FirstDay[m] \in Nat
        /\ FirstDay[m + 1] = LastDay[m] + 1 /\ TableEnd = FirstDay[L + 1] - 1
        /\ FirstDay[m + 1] \in Nat
    <3>1. /\ LastDay[m] \in Nat /\ LastDay[m] <= TableEnd
          /\ LastDay[m] = FirstDay[m + 1] - 1 /\ TableEnd = FirstDay[L + 1] - 1
      BY <2>2, LastDayIs
    <3>2. FirstDay[m] \in Nat /\ FirstDay[m + 1] \in Nat
      BY <2>2, StartsTyped
    <3> QED BY <3>1, <3>2
  <2>5. ASSUME NEW k \in (d + 1)..LastDay[m] PROVE ~Begins(period, k)
    <3>1. k \in FirstDay[m]..LastDay[m] /\ FirstDay[m] < k
      BY <1>1, <2>2, <2>4
    <3>2. MonthOf[k] = m
      BY <2>2, <3>1, InMonth
    <3> QED BY <1>3, <2>4, <3>1, <3>2 DEF Begins
  <2>6. ASSUME LastDay[m] + 1 \in Days PROVE Begins(period, LastDay[m] + 1)
    <3>1. m # L
      BY <1>1, <2>4, <2>6
    <3>2. m + 1 \in Months
      BY <2>2, <3>1
    <3>3. FirstDay[m + 1] \in FirstDay[m + 1]..LastDay[m + 1]
      BY <3>2, StartsTyped, LastDayIs
    <3>4. MonthOf[FirstDay[m + 1]] = m + 1
      BY <3>2, <3>3, InMonth
    <3> QED BY <1>3, <2>4, <3>4 DEF Begins
  <2> QED BY <1>1, <2>2, <2>3, <2>4, <2>5, <2>6
<1> QED BY <1>2, <1>3

\* A pass is made for the first day of the window and for the first day of every
\* week, or month, after it.
LEMMA PassesAre ==
  ASSUME NEW period, NEW start \in Nat, NEW end \in Days, start <= end
  PROVE  Passes(period, start, end) = {k \in start..end : k = start \/ Begins(period, k)}
<1>1. end \in Nat /\ end <= TableEnd /\ TableEnd \in Nat /\ Days = 0..TableEnd
  BY LastDayIs
<1> DEFINE top == TableEnd + 7
           next == [d \in 0..top |-> NextPass(period, d)]
           W == [d \in 0..top |-> {k \in d..end : k = d \/ Begins(period, k)}]
           E(f) == [d \in 0..top |-> IF d > end THEN {} ELSE {d} \cup f[NextPass(period, d)]]
<1>2. Moves(next, top, end)
  BY <1>1, NextPassIs DEF Moves
<1>3. ASSUME NEW d \in 0..top
      PROVE  W[d] = IF d > end THEN {} ELSE {d} \cup W[NextPass(period, d)]
  <2>1. CASE d > end
    BY <1>1, <2>1
  <2>2. CASE ~ (d > end)
    <3>1. d \in Days /\ d <= end
      BY <1>1, <2>2
    <3>2. PICK n : n = NextPass(period, d)
      OBVIOUS
    <3>3. /\ n \in (d + 1)..top
          /\ \A k \in (d + 1)..(n - 1) : k \in Days => ~Begins(period, k)
          /\ n \in Days => Begins(period, n)
      BY <3>1, <3>2, NextPassIs
    <3>4. n \in 0..top /\ n \in Nat
      BY <1>1, <3>1, <3>3
    <3>5. W[n] = {k \in n..end : k = n \/ Begins(period, k)}
      BY <3>4
    <3>6. W[d] = {k \in d..end : k = d \/ Begins(period, k)}
      OBVIOUS
    <3> HIDE DEF W, top
    <3>7. ASSUME NEW k \in d..end, Begins(period, k), k # d PROVE k \in n..end
      <4>1. k \in Days /\ k \in Nat /\ d < k
        BY <1>1, <3>1, <3>7
      <4>2. k \notin (d + 1)..(n - 1)
        BY <3>3, <3>7, <4>1
      <4> QED BY <1>1, <3>1, <3>4, <4>1, <4>2
    <3>8. ASSUME NEW k \in n..end PROVE k \in d..end /\ (k = n => Begins(period, k))
      <4>1. k \in d..end /\ k \in Days
        BY <1>1, <3>1, <3>3
      <4> QED BY <3>3, <4>1
    <3>9. {k \in d..end : k = d \/ Begins(period, k)}
            = {d} \cup {k \in n..end : k = n \/ Begins(period, k)}
      <4>1. d \in d..end
        BY <1>1, <3>1
      <4> QED BY <3>7, <3>8, <4>1
    <3> QED BY <2>2, <3>2, <3>5, <3>6, <3>9
  <2> QED BY <2>1, <2>2
<1>4. W = E(W)
  BY <1>3
<1> DEFINE F == CHOOSE f : f = E(f)
<1>5. F = E(F)
  <2> HIDE DEF E, W
  <2> QED BY <1>4
<1>6. Passes(period, start, end) = F[start]
  BY DEF Passes
<1>7. start \in 0..top
  BY <1>1
<1>8. Loops(F, next, top, end)
  <2> HIDE DEF F
  <2> SUFFICES ASSUME NEW d \in 0..top
               PROVE  F[d] = IF d > end THEN {} ELSE {d} \cup F[next[d]]
    BY DEF Loops
  <2>1. E(F)[d] = IF d > end THEN {} ELSE {d} \cup F[NextPass(period, d)]
    OBVIOUS
  <2> QED BY <1>5, <2>1
<1>9. Loops(W, next, top, end)
  <2> SUFFICES ASSUME NEW d \in 0..top
               PROVE  W[d] = IF d > end THEN {} ELSE {d} \cup W[next[d]]
    BY DEF Loops
  <2>1. next[d] = NextPass(period, d)
    OBVIOUS
  <2> HIDE DEF W, next
  <2> QED BY <1>3, <2>1
<1>10. F[start] = W[start]
  <2>1. top \in Nat
    BY <1>1
  <2> HIDE DEF F, W, next, top
  <2> QED BY <1>1, <1>2, <1>7, <1>8, <1>9, <2>1, LoopIs
<1> HIDE DEF F
<1> QED BY <1>6, <1>7, <1>10

LEMMA WeekEndsAre ==
  ASSUME NEW start \in Nat, NEW end \in Days
  PROVE  WeekEnds(start, end) = {d \in start..end : EndOfPeriod(d, "WEEK") = d}
<1>1. end \in Nat /\ end <= TableEnd /\ TableEnd \in Nat /\ Days = 0..TableEnd
  BY LastDayIs
<1>2. \A d : EndOfPeriod(d, "WEEK") = d + (6 - Weekday(d))
  BY DEF EndOfPeriod
<1> SUFFICES ASSUME start <= end
             PROVE  WeekEnds(start, end) = {d \in start..end : EndOfPeriod(d, "WEEK") = d}
  BY <1>1 DEF WeekEnds
<1>3. Passes("WEEK", start, end) = {k \in start..end : k = start \/ Weekday(k) = 0}
  BY PassesAre DEF Begins
<1>4. ASSUME NEW k \in start..end
      PROVE  LET e == k + (6 - Weekday(k)) IN e \in Nat /\ EndOfPeriod(e, "WEEK") = e
  <2>1. PICK w \in 0..6 : w = Weekday(k)
    BY WeekdayIs
  <2>2. Weekday(k + (6 - w)) = w + (6 - w)
    <3>1. 6 - w \in 0..6 /\ w + (6 - w) <= 6
      OBVIOUS
    <3> QED BY <2>1, <3>1, WeekdayIs
  <2> QED BY <1>2, <2>1, <2>2
<1>5. ASSUME NEW e \in start..end, EndOfPeriod(e, "WEEK") = e
      PROVE  \E k \in Passes("WEEK", start, end) : e = k + (6 - Weekday(k))
  <2>1. Weekday(e) = 6
    <3>1. Weekday(e) \in 0..6
      BY WeekdayIs
    <3> QED BY <1>2, <1>5, <3>1
  <2>2. CASE start + 6 < e
    <3>1. e - 7 \in Nat
      BY <2>2
    <3>2. PICK w \in 0..6 : w = Weekday(e - 7)
      BY <3>1, WeekdayIs
    <3>3. Weekday((e - 7) + (6 - w) + 1) = 0
      BY <3>1, <3>2, WeekdayIs
    <3>4. w = 6
      <4>1. (e - 7) + (6 - w) + 1 = e - w /\ e - w \in Nat /\ (e - w) + w = e
        BY <2>2
      <4>2. Weekday((e - w) + w) = 0 + w
        BY <3>3, <4>1, WeekdayIs
      <4> QED BY <2>1, <4>1, <4>2
    <3>5. (e - 7) + (6 - w) + 1 = e - 6 /\ e - 6 \in start..end
      BY <1>1, <2>2, <3>4
    <3>6. e - 6 \in Passes("WEEK", start, end) /\ Weekday(e - 6) = 0
      BY <1>3, <3>3, <3>5
    <3>7. e = (e - 6) + (6 - 0)
      OBVIOUS
    <3> QED BY <3>6, <3>7
  <2>3. CASE ~ (start + 6 < e)
    <3>1. PICK w \in 0..6 : w = Weekday(start)
      BY WeekdayIs
    <3>2. e - start \in 0..6 /\ start + (e - start) = e
      BY <2>3
    <3>3. start \in Passes("WEEK", start, end)
      BY <1>1, <1>3
    <3>4. CASE w + (e - start) <= 6
      <4>1. Weekday(start + (e - start)) = w + (e - start)
        BY <3>1, <3>2, <3>4, WeekdayIs
      <4>2. e = start + (6 - w)
        BY <2>1, <3>1, <3>2, <4>1
      <4> QED BY <3>1, <3>3, <4>2
    <3>5. CASE ~ (w + (e - start) <= 6)
      <4>1. PICK f : f = start + (6 - w) + 1
        OBVIOUS
      <4>2. f \in Nat /\ e - f \in 0..6 /\ f + (e - f) = e /\ e - f # 6 /\ Weekday(f) = 0
        BY <3>1, <3>2, <3>5, <4>1, WeekdayIs
      <4>3. Weekday(f + (e - f)) = 0 + (e - f)
        BY <4>2, WeekdayIs
      <4> QED BY <2>1, <4>2, <4>3
    <3> QED BY <3>4, <3>5
  <2> QED BY <2>2, <2>3
<1>6. Passes("WEEK", start, end) \subseteq start..end
  BY <1>3
<1> QED BY <1>4, <1>5, <1>6 DEF WeekEnds

LEMMA MonthEndsAre ==
  ASSUME NEW start \in Nat, NEW end \in Days, MonthOf[end] + 11 \in Months,
         NEW period \in Monthly
  PROVE  MonthEnds(period, start, end) = {d \in start..end : EndOfPeriod(d, period) = d}
<1>1. end \in Nat /\ end <= TableEnd /\ TableEnd \in Nat /\ Days = 0..TableEnd
  BY LastDayIs
<1> SUFFICES ASSUME start <= end
             PROVE  MonthEnds(period, start, end) = {d \in start..end : EndOfPeriod(d, period) = d}
  BY <1>1 DEF MonthEnds
<1>2. Passes(period, start, end) =
        {k \in start..end : k = start \/ FirstDay[MonthOf[k]] = k}
  <2>1. period # "WEEK"
    BY DEF Monthly
  <2> QED BY <2>1, PassesAre DEF Begins
\* What closes a period is the end of its month.
<1>3. ASSUME NEW k \in start..end, NEW e \in start..end, MonthOf[e] = MonthOf[k]
      PROVE  e = Closes(k, period) <=> EndOfPeriod(e, period) = e
  <2>1. PICK m : m = MonthOf[k]
    OBVIOUS
  <2>2. k \in Days /\ e \in Days
    BY <1>1
  <2>3. m \in Months /\ FirstDay[m] <= e /\ e <= LastDay[m]
        /\ L \in Nat /\ Months = 1..L
    BY <1>3, <2>1, <2>2, MonthIs, Table
  <2>4. m + 11 \in Months
    <3>1. m <= MonthOf[end] /\ MonthOf[end] \in Months
      <4>1. k <= end /\ end \in Days
        BY <1>1
      <4> QED BY <2>1, <2>2, <4>1, MonthMono, MonthIs
    <3> QED BY <2>3, <3>1
  <2>5. PICK n, c : n = NumberOf(m) /\ c = ClosingMonth(n, period)
    OBVIOUS
  <2>0. n \in 1..12 /\ c \in n..12
    <3>1. m \in Nat /\ m > 0
      BY <2>3
    <3>2. n \in 1..12
      BY <2>5, <3>1, NumberIs
    <3> QED BY <2>5, <3>2, ClosingIs
  <2>6. /\ (c = n <=> CASE period = "MONTH" -> TRUE
                        [] period = "QUARTER" -> n % 3 = 0
                        [] period = "HALF_YEAR" -> n \in {6, 12}
                        [] period = "YEAR" -> n = 12)
    BY <2>0, <2>5, ClosingIs
  <2>7. EndOfPeriod(e, period) = LastDay[m + c - n]
    BY <1>3, <2>1, <2>2, <2>5, EndOfMonths DEF CloseOf
  <2>8. m + c - n \in Months /\ LastDay[m] \in Nat /\ LastDay[m] # None
    <3>1. m + c - n \in Months
      BY <2>0, <2>3, <2>4
    <3>2. LastDay[m] \in Nat
      BY <2>3, LastDayIs
    <3> QED BY <3>1, <3>2, Table
  <2>9. Closes(k, period) = IF c = n THEN LastDay[m] ELSE None
    BY <2>1, <2>5, <2>6 DEF Closes, MonthNumber, Monthly
  <2>10. e # None
    BY <2>2, <1>1, Table
  <2>11. CASE c = n
    <3>1. m + c - n = m
      BY <2>0, <2>3, <2>11
    <3> QED BY <2>7, <2>9, <2>11, <3>1
  <2>12. CASE c # n
    <3>1. m + c - n # m
      BY <2>0, <2>3, <2>12
    <3>2. EndOfPeriod(e, period) # e
      <4>1. FirstDay[m + c - n] <= LastDay[m + c - n] /\ LastDay[m + c - n] \in Nat
            /\ FirstDay[m + c - n] \in Nat
        BY <2>8, LastDayIs, StartsTyped
      <4>2. LastDay[m + c - n] \in FirstDay[m + c - n]..LastDay[m + c - n]
        BY <4>1
      <4>3. MonthOf[LastDay[m + c - n]] = m + c - n
        BY <2>8, <4>2, InMonth
      <4> QED BY <1>3, <2>1, <2>7, <3>1, <4>3
    <3> QED BY <2>9, <2>10, <2>12, <3>2
  <2> QED BY <2>11, <2>12
<1>4. ASSUME NEW k \in Passes(period, start, end), Closes(k, period) \in start..end
      PROVE  EndOfPeriod(Closes(k, period), period) = Closes(k, period)
  <2>1. k \in start..end /\ k \in Days
    BY <1>1, <1>2
  <2>2. MonthOf[k] \in Months
    BY <2>1, MonthIs
  <2>3. LastDay[MonthOf[k]] \in FirstDay[MonthOf[k]]..LastDay[MonthOf[k]]
    BY <2>2, LastDayIs, StartsTyped
  <2>4. Closes(k, period) # None
    BY <1>4, Table
  <2>5. Closes(k, period) = LastDay[MonthOf[k]]
    BY <2>4 DEF Closes
  <2>6. MonthOf[Closes(k, period)] = MonthOf[k]
    BY <2>2, <2>3, <2>5, InMonth
  <2> QED BY <1>3, <1>4, <2>1, <2>6
<1>5. ASSUME NEW e \in start..end, EndOfPeriod(e, period) = e
      PROVE  \E k \in Passes(period, start, end) : e = Closes(k, period)
  <2>1. e \in Days /\ e \in Nat
    BY <1>1
  <2>2. PICK m : m = MonthOf[e]
    OBVIOUS
  <2>3. m \in Months /\ FirstDay[m] <= e /\ e <= LastDay[m] /\ FirstDay[m] \in Nat
        /\ LastDay[m] \in Nat
    BY <2>1, <2>2, MonthIs, StartsTyped, LastDayIs
  <2>4. PICK k \in Nat : k = IF FirstDay[m] < start THEN start ELSE FirstDay[m]
    BY <2>3
  <2>5. k \in start..end /\ k \in FirstDay[m]..LastDay[m]
    BY <1>1, <2>3, <2>4
  <2>6. MonthOf[k] = m
    BY <2>3, <2>5, InMonth
  <2>7. k \in Passes(period, start, end)
    BY <1>2, <2>3, <2>4, <2>5, <2>6
  <2> QED BY <1>3, <1>5, <2>2, <2>5, <2>6, <2>7
<1> QED BY <1>4, <1>5 DEF MonthEnds

\* What was owed in a window: the days in it on which a period closes.
LEMMA OccasionsAre ==
  ASSUME NEW start \in Nat, NEW end \in Days, MonthOf[end] + 11 \in Months,
         NEW period \in Periods
  PROVE  OccasionsIn(period, start, end) =
           {d \in start..end : /\ EndOfPeriod(d, period) = d
                               /\ period = "DAY" => Weekday(d) < 5}
<1>1. CASE period = "DAY"
  <2>1. \A d : EndOfPeriod(d, period) = d
    BY <1>1 DEF EndOfPeriod
  <2> QED BY <1>1, <2>1 DEF OccasionsIn
<1>2. CASE period = "WEEK"
  BY <1>2, WeekEndsAre DEF OccasionsIn
<1>3. CASE period \in Monthly
  <2>1. period # "DAY" /\ period # "WEEK"
    BY <1>3 DEF Monthly
  <2> QED BY <1>3, <2>1, MonthEndsAre DEF OccasionsIn
<1> QED BY <1>1, <1>2, <1>3, PeriodKinds

\* Every period closes in 366 days, wherever they begin.
LEMMA OccasionsExist ==
  ASSUME NEW start \in Days, NEW end \in Days, MonthOf[end] + 11 \in Months,
         start + 365 <= end, NEW period \in Periods
  PROVE  OccasionsIn(period, start, end) # {}
<1>1. start \in Nat /\ end \in Nat
  BY LastDayIs
<1>2. CASE period = "DAY"
  <2>1. \A d : EndOfPeriod(d, period) = d
    BY <1>2 DEF EndOfPeriod
  <2>2. \E d \in start..end : Weekday(d) < 5
    <3>1. PICK w \in 0..6 : w = Weekday(start)
      BY <1>1, WeekdayIs
    <3>2. CASE w < 5
      <4>1. start \in start..end
        BY <1>1
      <4> QED BY <3>1, <3>2, <4>1
    <3>3. CASE ~ (w < 5)
      <4>1. start + (6 - w) + 1 \in start..end /\ Weekday(start + (6 - w) + 1) = 0
        BY <1>1, <3>1, <3>3, WeekdayIs
      <4> QED BY <4>1
    <3> QED BY <3>2, <3>3
  <2> QED BY <1>1, <1>2, <2>1, <2>2, OccasionsAre
<1>3. CASE period # "DAY"
  <2>1. MonthOf[start] + 11 \in Months
    BY <1>1, MonthIs, MonthMono, Table
  <2>2. PICK e : e = EndOfPeriod(start, period)
    OBVIOUS
  <2>3. e \in Nat /\ start <= e /\ e <= start + 365 /\ EndOfPeriod(e, period) = e
    <3>1. /\ e \in Days /\ start <= e /\ e <= start + 365
          /\ \A x \in start..e : EndOfPeriod(x, period) = e
      BY <2>1, <2>2, EndIs
    <3>2. e \in Nat /\ e \in start..e
      BY <1>1, <3>1, LastDayIs
    <3> QED BY <3>1, <3>2
  <2>4. e \in start..end
    BY <1>1, <2>3
  <2> QED BY <1>1, <1>3, <2>3, <2>4, OccasionsAre
<1> QED BY <1>2, <1>3

-----------------------------------------------------------------------------
(* Working days.                                                           *)

Open(a, b) == {k \in (a + 1)..b : IsWorkingDay(k)}
Count(a, b) == Cardinality(Open(a, b))

LEMMA CountIs ==
  ASSUME NEW a \in Nat, NEW b \in Nat
  PROVE  /\ IsFiniteSet(Open(a, b)) /\ Count(a, b) \in Nat
         /\ b <= a => Count(a, b) = 0
         /\ a <= b => Count(a, b + 1) = Count(a, b) + (IF IsWorkingDay(b + 1) THEN 1 ELSE 0)
         /\ a < b => Count(a, b) = Count(a + 1, b) + (IF IsWorkingDay(a + 1) THEN 1 ELSE 0)
         /\ \A c \in Nat : a <= c => Count(c, b) <= Count(a, b)
<1>1. \A x, y \in Nat : IsFiniteSet(Open(x, y)) /\ Count(x, y) \in Nat
  <2> SUFFICES ASSUME NEW x \in Nat, NEW y \in Nat
               PROVE  IsFiniteSet(Open(x, y)) /\ Count(x, y) \in Nat
    OBVIOUS
  <2>1. IsFiniteSet((x + 1)..y)
    BY FS_Interval
  <2>2. Open(x, y) \subseteq (x + 1)..y
    BY DEF Open
  <2>3. IsFiniteSet(Open(x, y))
    BY <2>1, <2>2, FS_Subset
  <2> QED BY <2>3, FS_CardinalityType DEF Count
<1>2. ASSUME b <= a PROVE Count(a, b) = 0
  <2>1. Open(a, b) = {}
    BY <1>2 DEF Open
  <2> QED BY <2>1, FS_EmptySet DEF Count
<1>3. ASSUME a <= b
      PROVE  Count(a, b + 1) = Count(a, b) + (IF IsWorkingDay(b + 1) THEN 1 ELSE 0)
  <2>1. CASE IsWorkingDay(b + 1)
    <3>1. Open(a, b + 1) = Open(a, b) \cup {b + 1} /\ b + 1 \notin Open(a, b)
      BY <1>3, <2>1 DEF Open
    <3> QED BY <1>1, <2>1, <3>1, FS_AddElement DEF Count
  <2>2. CASE ~IsWorkingDay(b + 1)
    <3>1. Open(a, b + 1) = Open(a, b)
      BY <1>3, <2>2 DEF Open
    <3> QED BY <1>1, <2>2, <3>1 DEF Count
  <2> QED BY <2>1, <2>2
<1>4. ASSUME a < b
      PROVE  Count(a, b) = Count(a + 1, b) + (IF IsWorkingDay(a + 1) THEN 1 ELSE 0)
  <2>0. a + 1 \in Nat
    OBVIOUS
  <2>1. CASE IsWorkingDay(a + 1)
    <3>1. Open(a, b) = Open(a + 1, b) \cup {a + 1} /\ a + 1 \notin Open(a + 1, b)
      BY <1>4, <2>1 DEF Open
    <3> QED BY <1>1, <2>0, <2>1, <3>1, FS_AddElement DEF Count
  <2>2. CASE ~IsWorkingDay(a + 1)
    <3>1. Open(a, b) = Open(a + 1, b)
      BY <1>4, <2>2 DEF Open
    <3> QED BY <1>1, <2>0, <2>2, <3>1 DEF Count
  <2> QED BY <2>1, <2>2
<1>5. ASSUME NEW c \in Nat, a <= c PROVE Count(c, b) <= Count(a, b)
  <2>1. Open(c, b) \subseteq Open(a, b)
    BY <1>5 DEF Open
  <2> QED BY <1>1, <2>1, FS_Subset DEF Count
<1> QED BY <1>1, <1>2, <1>3, <1>4, <1>5

\* Where a count of working days arrives, or the end of the table.
Reached(d, n) == {t \in d..TableEnd : Count(d, t) >= n}
Arrival(d, n) == IF Reached(d, n) = {} THEN TableEnd ELSE Min(Reached(d, n))

LEMMA ArrivalIs ==
  ASSUME NEW d \in Days, NEW n \in Nat
  PROVE  /\ Arrival(d, n) \in d..TableEnd
         /\ Reached(d, n) # {} => /\ Arrival(d, n) \in Reached(d, n)
                                  /\ \A t \in Reached(d, n) : Arrival(d, n) <= t
<1>1. d \in Nat /\ d <= TableEnd /\ TableEnd \in Nat
  BY LastDayIs
<1>2. Reached(d, n) \in SUBSET (d..TableEnd) /\ Reached(d, n) \in SUBSET Nat
  BY <1>1 DEF Reached
<1>3. CASE Reached(d, n) = {}
  BY <1>1, <1>3 DEF Arrival
<1>4. CASE Reached(d, n) # {}
  <2>1. Arrival(d, n) = Min(Reached(d, n))
    BY <1>4 DEF Arrival
  <2> QED BY <1>2, <1>4, <2>1, MinOf
<1> QED BY <1>3, <1>4

\* The loop takes the first day of the count off it.
LEMMA ArrivalSteps ==
  ASSUME NEW d \in Days, NEW n \in Nat
  PROVE  Arrival(d, n) =
           IF n = 0 \/ d = TableEnd THEN d
           ELSE Arrival(d + 1, IF IsWorkingDay(d + 1) THEN n - 1 ELSE n)
<1>1. d \in Nat /\ d <= TableEnd /\ TableEnd \in Nat /\ Days = 0..TableEnd
  BY LastDayIs
<1>2. CASE n = 0
  <2>1. Count(d, d) = 0
    BY <1>1, CountIs
  <2>2. d \in Reached(d, n)
    BY <1>1, <1>2, <2>1 DEF Reached
  <2>3. Arrival(d, n) \in d..TableEnd /\ Arrival(d, n) <= d
    BY <2>2, ArrivalIs
  <2> QED BY <1>1, <1>2, <2>3
<1>3. CASE n # 0 /\ d = TableEnd
  <2>1. Arrival(d, n) \in d..TableEnd
    BY ArrivalIs
  <2> QED BY <1>1, <1>3, <2>1
<1>4. CASE n # 0 /\ d # TableEnd
  <2>1. PICK r : r = IF IsWorkingDay(d + 1) THEN n - 1 ELSE n
    OBVIOUS
  <2>2. d + 1 \in Nat /\ d < TableEnd /\ r \in Nat
    BY <1>1, <1>4, <2>1
  <2>3. ASSUME NEW t \in Nat, d < t, t <= TableEnd
        PROVE  Count(d, t) >= n <=> Count(d + 1, t) >= r
    <3>1. Count(d, t) = Count(d + 1, t) + (IF IsWorkingDay(d + 1) THEN 1 ELSE 0)
      BY <1>1, <2>3, CountIs
    <3>2. Count(d, t) \in Nat /\ Count(d + 1, t) \in Nat
      BY <1>1, <2>2, CountIs
    <3> QED BY <2>1, <3>1, <3>2
  <2>4. Count(d, d) = 0
    BY <1>1, CountIs
  <2>5. Reached(d, n) = Reached(d + 1, r)
    BY <1>1, <1>4, <2>2, <2>3, <2>4 DEF Reached
  <2>6. Arrival(d, n) = Arrival(d + 1, r)
    BY <2>5 DEF Arrival
  <2> QED BY <1>4, <2>1, <2>6
<1> QED BY <1>2, <1>3, <1>4

LEMMA AddWorkingDaysIs ==
  ASSUME NEW start \in Days, NEW days \in Nat
  PROVE  AddWorkingDays(start, days) = Arrival(start, days)
<1>1. TableEnd \in Nat /\ Days = 0..TableEnd
  BY LastDayIs
<1> DEFINE E(f) == [d \in Days |-> [remaining \in 0..days |->
                      IF remaining = 0 \/ d = TableEnd THEN d
                      ELSE f[d + 1][IF IsWorkingDay(d + 1) THEN remaining - 1 ELSE remaining]]]
           W == [d \in Days |-> [remaining \in 0..days |-> Arrival(d, remaining)]]
           F == CHOOSE f : f = E(f)
<1>2. AddWorkingDays(start, days) = F[start][days]
  BY DEF AddWorkingDays
<1>3. ASSUME NEW d \in Days, NEW n \in 0..days
      PROVE  /\ n # 0 /\ d # TableEnd =>
                  <<d + 1, IF IsWorkingDay(d + 1) THEN n - 1 ELSE n>> \in Days \X (0..days)
             /\ W[d][n] = Arrival(d, n)
  BY <1>1
<1>4. W = E(W)
  <2> SUFFICES ASSUME NEW d \in Days, NEW n \in 0..days
               PROVE  Arrival(d, n) =
                        IF n = 0 \/ d = TableEnd THEN d
                        ELSE W[d + 1][IF IsWorkingDay(d + 1) THEN n - 1 ELSE n]
    OBVIOUS
  <2>1. n \in Nat
    OBVIOUS
  <2> QED BY <1>3, <2>1, ArrivalSteps
<1>5. F = E(F)
  <2> HIDE DEF E, W
  <2> QED BY <1>4
<1>6. ASSUME NEW f, f = E(f)
      PROVE  \A d \in Days, n \in 0..days :
               f[d][n] = IF n = 0 \/ d = TableEnd THEN d
                         ELSE f[d + 1][IF IsWorkingDay(d + 1) THEN n - 1 ELSE n]
  <2> SUFFICES ASSUME NEW d \in Days, NEW n \in 0..days
               PROVE  f[d][n] = IF n = 0 \/ d = TableEnd THEN d
                                ELSE f[d + 1][IF IsWorkingDay(d + 1) THEN n - 1 ELSE n]
    OBVIOUS
  <2>1. E(f)[d][n] = IF n = 0 \/ d = TableEnd THEN d
                     ELSE f[d + 1][IF IsWorkingDay(d + 1) THEN n - 1 ELSE n]
    OBVIOUS
  <2> HIDE DEF E
  <2> QED BY <1>6, <2>1
<1> DEFINE G == {k \in 0..TableEnd : \A n \in 0..days : F[TableEnd - k][n] = W[TableEnd - k][n]}
<1>7. 0 \in G
  <2> HIDE DEF F, W, E
  <2>1. TableEnd \in Days /\ TableEnd - 0 = TableEnd
    BY <1>1
  <2>2. ASSUME NEW n \in 0..days PROVE F[TableEnd][n] = TableEnd /\ W[TableEnd][n] = TableEnd
    BY <1>4, <1>5, <1>6, <2>1
  <2> QED BY <1>1, <2>1, <2>2
<1>8. ASSUME NEW k \in 1..TableEnd, k - 1 \in G PROVE k \in G
  <2> SUFFICES ASSUME NEW n \in 0..days PROVE F[TableEnd - k][n] = W[TableEnd - k][n]
    <3> HIDE DEF F, W, E
    <3> QED BY <1>1
  <2>1. PICK d \in Days : d = TableEnd - k
    BY <1>1
  <2>2. d + 1 = TableEnd - (k - 1) /\ d # TableEnd /\ d + 1 \in Days
    BY <1>1, <2>1
  <2>3. \A r \in 0..days : F[d + 1][r] = W[d + 1][r]
    BY <1>8, <2>2
  <2> HIDE DEF F, W, E, G
  <2>4. PICK r : r = IF IsWorkingDay(d + 1) THEN n - 1 ELSE n
    OBVIOUS
  <2>5. n # 0 => r \in 0..days
    BY <2>4
  <2>6. F[d][n] = IF n = 0 THEN d ELSE F[d + 1][r]
    BY <1>5, <1>6, <2>2, <2>4
  <2>7. W[d][n] = IF n = 0 THEN d ELSE W[d + 1][r]
    BY <1>4, <1>6, <2>2, <2>4
  <2> QED BY <2>1, <2>3, <2>5, <2>6, <2>7
<1>9. \A k \in 0..TableEnd : k \in G
  <2> HIDE DEF G
  <2> QED BY <1>1, <1>7, <1>8, UpTo
<1>10. TableEnd - start \in G /\ TableEnd - (TableEnd - start) = start
  <2> HIDE DEF F, W, E, G
  <2> QED BY <1>1, <1>9
<1>11. F[start][days] = W[start][days]
  <2> HIDE DEF F, W
  <2> QED BY <1>10
<1>12. W[start][days] = Arrival(start, days)
  BY <1>3
<1> HIDE DEF F, W
<1> QED BY <1>2, <1>11, <1>12

LEMMA WorkingDays ==
  ASSUME NEW start \in Days, NEW days \in Nat, Count(start, TableEnd) >= days
  PROVE  LET due == AddWorkingDays(start, days)
         IN  /\ due \in Days /\ start <= due /\ Count(start, due) = days
             /\ days > 0 => due \in Open(start, due)
             /\ \A t \in start..TableEnd : Count(start, t) >= days => due <= t
<1>1. start \in Nat /\ start <= TableEnd /\ TableEnd \in Nat /\ Days = 0..TableEnd
  BY LastDayIs
<1>2. TableEnd \in Reached(start, days)
  BY <1>1 DEF Reached
<1>3. PICK due : due = AddWorkingDays(start, days)
  OBVIOUS
<1>4. due \in Reached(start, days) /\ \A t \in Reached(start, days) : due <= t
  BY <1>2, <1>3, ArrivalIs, AddWorkingDaysIs
<1>5. due \in start..TableEnd /\ due \in Nat /\ Count(start, due) >= days
  BY <1>1, <1>4 DEF Reached
<1>6. CASE due = start
  <2>1. Count(start, due) = 0
    BY <1>1, <1>6, CountIs
  <2>2. days = 0
    BY <1>5, <2>1
  <2> QED BY <1>1, <1>3, <1>4, <1>5, <2>1, <2>2 DEF Reached
<1>7. CASE due # start
  <2>1. due - 1 \in Nat /\ start <= due - 1 /\ due - 1 \in start..TableEnd /\ (due - 1) + 1 = due
    BY <1>1, <1>5, <1>7
  <2>2. ~ (Count(start, due - 1) >= days)
    BY <1>4, <1>5, <2>1 DEF Reached
  <2>3. Count(start, due) =
          Count(start, due - 1) + (IF IsWorkingDay(due) THEN 1 ELSE 0)
    <3>1. PICK c \in Nat : c = due - 1
      BY <2>1
    <3>2. start <= c /\ c + 1 = due
      BY <2>1, <3>1
    <3>3. Count(start, c + 1) = Count(start, c) + (IF IsWorkingDay(c + 1) THEN 1 ELSE 0)
      BY <1>1, <3>2, CountIs
    <3> QED BY <3>1, <3>2, <3>3
  <2>4. Count(start, due - 1) \in Nat /\ Count(start, due) \in Nat
    BY <1>1, <1>5, <2>1, CountIs
  <2>5. IsWorkingDay(due) /\ Count(start, due) = days
    BY <1>5, <2>2, <2>3, <2>4
  <2>6. due \in Open(start, due)
    BY <1>1, <1>5, <1>7, <2>5 DEF Open
  <2> QED BY <1>1, <1>3, <1>4, <1>5, <2>5, <2>6 DEF Reached
<1> QED BY <1>6, <1>7

LEMMA WorkingDaysMono ==
  ASSUME NEW start \in Days, NEW later \in Days, start <= later, NEW days \in Nat,
         Count(later, TableEnd) >= days
  PROVE  AddWorkingDays(start, days) <= AddWorkingDays(later, days)
<1>1. start \in Nat /\ later \in Nat /\ TableEnd \in Nat /\ Days = 0..TableEnd
  BY LastDayIs
<1>2. PICK t : t = AddWorkingDays(later, days)
  OBVIOUS
<1>3. t \in Days /\ t \in Nat /\ later <= t /\ Count(later, t) = days
  <2>1. t \in Days /\ later <= t /\ Count(later, t) = days
    BY <1>2, WorkingDays
  <2> QED BY <1>1, <2>1
<1>4. Count(start, t) >= days /\ Count(start, TableEnd) >= days
  <2>1. Count(later, t) <= Count(start, t) /\ Count(later, TableEnd) <= Count(start, TableEnd)
        /\ Count(start, t) \in Nat /\ Count(start, TableEnd) \in Nat
        /\ Count(later, TableEnd) \in Nat
    BY <1>1, <1>3, CountIs
  <2> QED BY <1>3, <2>1
<1>5. t \in start..TableEnd
  BY <1>1, <1>3
<1> QED BY <1>2, <1>4, <1>5, WorkingDays

-----------------------------------------------------------------------------
(* Months on.                                                              *)

\* The day of the month, or the last day of a month that has no such day.
Clamp(k, m) == IF k <= MonthLengths[m] THEN k ELSE MonthLengths[m]

LEMMA MonthsOn ==
  ASSUME NEW start \in Days, NEW months \in Nat, MonthOf[start] + months \in Months
  PROVE  LET m == MonthOf[start] + months
             due == AddMonths(start, months)
         IN  /\ due = FirstDay[m] + Clamp(DayOfMonth(start), m) - 1
             /\ DayOfMonth(start) \in 1..31 /\ Clamp(DayOfMonth(start), m) \in 1..MonthLengths[m]
             /\ due \in FirstDay[m]..LastDay[m] /\ due \in Days
             /\ MonthOf[due] = m /\ start <= due
<1>1. PICK n, m, k : n = MonthOf[start] /\ m = n + months /\ k = DayOfMonth(start)
  OBVIOUS
<1>2. /\ n \in Months /\ FirstDay[n] <= start /\ start <= LastDay[n]
      /\ start \in Nat /\ L \in Nat /\ Months = 1..L
  BY <1>1, MonthIs, LastDayIs, Table
<1>3. m \in Months /\ n <= m
  BY <1>1, <1>2
<1>4. PICK a, l, b, r : a = FirstDay[n] /\ l = MonthLengths[n] /\ b = FirstDay[m] /\ r = MonthLengths[m]
  OBVIOUS
<1>5. a \in Nat /\ l \in 28..31 /\ b \in Nat /\ r \in 28..31
  BY <1>2, <1>3, <1>4, StartsTyped
<1>6. LastDay[n] = a + l - 1 /\ LastDay[m] = b + r - 1
  BY <1>2, <1>3, <1>4, LastDayIs
<1>7. k = start - a + 1 /\ k \in 1..l
  <2>1. k = start - a + 1
    BY <1>1, <1>4 DEF DayOfMonth
  <2>2. a <= start /\ start <= a + l - 1 /\ start \in Nat /\ l \in Nat
    <3>1. FirstDay[n] <= start /\ start <= LastDay[n]
      BY <1>2
    <3>2. LastDay[n] = a + l - 1 /\ FirstDay[n] = a
      BY <1>4, <1>6
    <3>3. start \in Nat /\ l \in Nat
      BY <1>2, <1>5
    <3> QED BY <3>1, <3>2, <3>3
  <2>3. a \in Nat /\ l \in 28..31
    BY <1>5
  <2> QED BY ONLY <2>1, <2>2, <2>3
<1>8. Min({k, r}) = IF k <= r THEN k ELSE r
  <2>1. k \in Nat /\ r \in Nat
    BY <1>5, <1>7
  <2>2. Min({k, r}) \in {k, r} /\ Min({k, r}) <= k /\ Min({k, r}) <= r
    <3>1. {k, r} \in SUBSET Nat /\ {k, r} # {}
      BY <2>1
    <3> QED BY <3>1, MinOf
  <2>3. PICK c : c = Min({k, r})
    OBVIOUS
  <2>4. (c = k \/ c = r) /\ c <= k /\ c <= r
    BY <2>2, <2>3
  <2>5. c = IF k <= r THEN k ELSE r
    BY ONLY <2>1, <2>4
  <2> QED BY <2>3, <2>5
<1>9. PICK c : c = Clamp(k, m)
  OBVIOUS
<1>10. c \in 1..r /\ c = Min({k, r})
  BY <1>4, <1>5, <1>7, <1>8, <1>9 DEF Clamp
<1>11. AddMonths(start, months) = b + c - 1
  BY <1>1, <1>4, <1>10 DEF AddMonths
<1>12. b + c - 1 \in FirstDay[m]..LastDay[m]
  BY <1>4, <1>5, <1>6, <1>10
<1>13. b + c - 1 \in Days /\ MonthOf[b + c - 1] = m
  BY <1>3, <1>12, InMonth
<1>14. start <= b + c - 1
  <2>1. CASE m = n
    <3>1. a = b /\ l = r
      BY <1>4, <2>1
    <3>2. k \in 1..l /\ k = start - a + 1 /\ start \in Nat /\ a \in Nat /\ l \in 28..31
      BY <1>2, <1>5, <1>7
    <3>3. k <= r
      BY ONLY <3>1, <3>2
    <3>4. c = k
      BY <1>8, <1>10, <3>3
    <3> QED BY ONLY <3>1, <3>2, <3>4
  <2>2. CASE m # n
    <3>1. n + 1 \in 1..(L + 1) /\ m \in 1..(L + 1) /\ n + 1 <= m
      BY <1>2, <1>3, <2>2
    <3>2. FirstDay[n + 1] <= b
      BY <1>4, <3>1, MonthOrder
    <3>3. FirstDay[n + 1] = a + l
      BY <1>2, <1>4, StartsTyped
    <3> QED BY <1>2, <1>5, <1>6, <1>10, <3>2, <3>3
  <2> QED BY <2>1, <2>2
<1>15. k \in 1..31
  BY <1>5, <1>7
<1> QED BY <1>1, <1>4, <1>9, <1>10, <1>11, <1>12, <1>13, <1>14, <1>15

LEMMA MonthsOnMono ==
  ASSUME NEW start \in Days, NEW later \in Days, start <= later, NEW months \in Nat,
         MonthOf[later] + months \in Months
  PROVE  /\ MonthOf[start] + months \in Months
         /\ AddMonths(start, months) <= AddMonths(later, months)
<1>1. PICK n, q : n = MonthOf[start] + months /\ q = MonthOf[later] + months
  OBVIOUS
<1>2. n \in Months /\ q \in Months /\ n <= q /\ L \in Nat /\ Months = 1..L
  BY <1>1, MonthIs, MonthMono, Table
<1>3. PICK x, y : x = AddMonths(start, months) /\ y = AddMonths(later, months)
  OBVIOUS
<1>4. x \in FirstDay[n]..LastDay[n] /\ y \in FirstDay[q]..LastDay[q]
  BY <1>1, <1>2, <1>3, MonthsOn
<1>5. FirstDay[n] \in Nat /\ LastDay[n] \in Nat /\ FirstDay[q] \in Nat /\ LastDay[q] \in Nat
      /\ LastDay[n] = FirstDay[n + 1] - 1 /\ FirstDay[n + 1] \in Nat
  BY <1>2, LastDayIs, StartsTyped
<1>6. CASE n = q
  <2>1. PICK k, p, r : k = DayOfMonth(start) /\ p = DayOfMonth(later) /\ r = MonthLengths[n]
    OBVIOUS
  <2>2. MonthOf[start] = MonthOf[later]
    BY <1>1, <1>2, <1>6, MonthIs
  <2>3. /\ k \in 1..31 /\ p \in 1..31 /\ r \in 28..31
        /\ x = FirstDay[n] + (IF k <= r THEN k ELSE r) - 1
        /\ y = FirstDay[n] + (IF p <= r THEN p ELSE r) - 1
    <3>1. r \in 28..31
      BY <1>2, <2>1, StartsTyped
    <3>2. MonthOf[start] + months = n /\ MonthOf[later] + months = n
      BY <1>1, <1>6
    <3>3. MonthOf[start] + months \in Months /\ MonthOf[later] + months \in Months
      BY <1>2, <3>2
    <3>4. /\ AddMonths(start, months)
               = FirstDay[MonthOf[start] + months]
                   + Clamp(DayOfMonth(start), MonthOf[start] + months) - 1
          /\ DayOfMonth(start) \in 1..31
      BY <3>3, MonthsOn
    <3>5. /\ AddMonths(later, months)
               = FirstDay[MonthOf[later] + months]
                   + Clamp(DayOfMonth(later), MonthOf[later] + months) - 1
          /\ DayOfMonth(later) \in 1..31
      BY <3>3, MonthsOn
    <3>6. x = FirstDay[n] + Clamp(k, n) - 1 /\ y = FirstDay[n] + Clamp(p, n) - 1
      BY <1>3, <2>1, <3>2, <3>4, <3>5
    <3>7. /\ Clamp(k, n) = IF k <= r THEN k ELSE r
          /\ Clamp(p, n) = IF p <= r THEN p ELSE r
      BY <2>1 DEF Clamp
    <3>8. k \in 1..31 /\ p \in 1..31
      BY <2>1, <3>4, <3>5
    <3> QED BY <3>1, <3>6, <3>7, <3>8
  <2>4. k <= p
    <3>1. k = start - FirstDay[MonthOf[start]] + 1 /\ p = later - FirstDay[MonthOf[start]] + 1
      BY <2>1, <2>2 DEF DayOfMonth
    <3>2. FirstDay[MonthOf[start]] \in Nat /\ start \in Nat /\ later \in Nat
      BY MonthIs, StartsTyped, LastDayIs
    <3> QED BY <3>1, <3>2
  <2>5. FirstDay[n] \in Nat
    BY <1>5
  <2>6. x <= y
    BY <2>3, <2>4, <2>5
  <2> QED BY <1>1, <1>2, <1>3, <2>6
<1>7. CASE n # q
  <2>1. n + 1 \in 1..(L + 1) /\ q \in 1..(L + 1) /\ n + 1 <= q
    BY <1>2, <1>7
  <2>2. FirstDay[n + 1] <= FirstDay[q]
    BY <2>1, MonthOrder
  <2>3. PICK u, v, w : u = LastDay[n] /\ v = FirstDay[q] /\ w = LastDay[q]
    OBVIOUS
  <2>4. u \in Nat /\ v \in Nat /\ w \in Nat /\ u < v
    BY <1>5, <2>2, <2>3
  <2>5. x \in FirstDay[n]..u /\ y \in v..w
    BY <1>4, <2>3
  <2>6. x <= u /\ v <= y /\ x \in Int /\ y \in Int
    BY <1>5, <2>4, <2>5
  <2> QED BY <1>1, <1>2, <1>3, <2>4, <2>6
<1> QED BY <1>1, <1>2, <1>6, <1>7

-----------------------------------------------------------------------------
(* Due dates.                                                              *)

LEMMA DeadlineIs ==
  ASSUME NEW dl, IsDeadline(dl)
  PROVE  /\ dl.date \in Int \cup {None} /\ dl.days \in Int \cup {None}
         /\ dl.hours # None => dl.hours \in Nat
         /\ dl.months # None => dl.months \in Nat
         /\ dl.kind = "ABSOLUTE" => dl.date \in Int
         /\ dl.kind = "END_OF_PERIOD" => dl.period \in Periods
         /\ dl.kind = "RELATIVE" /\ dl.days # None => dl.hours = None /\ dl.months = None
         /\ dl.count # "UNSPECIFIED" => dl.days # None
<1>1. /\ dl.date \in Int \cup {None} /\ dl.days \in Int \cup {None}
      /\ dl.hours \in Int \cup {None} /\ dl.months \in Int \cup {None}
  BY DEF IsDeadline
<1>2. dl.hours # None => dl.hours \in Nat
  BY <1>1 DEF IsDeadline
<1>3. dl.months # None => dl.months \in Nat
  BY <1>1 DEF IsDeadline
<1>4. dl.kind = "ABSOLUTE" => dl.date \in Int
  BY <1>1 DEF IsDeadline
<1>5. ASSUME dl.kind = "RELATIVE", dl.days # None PROVE dl.hours = None /\ dl.months = None
  <2>1. PICK offsets : offsets = {f \in {"days", "hours", "months"} : dl[f] # None}
    OBVIOUS
  <2>2. Cardinality(offsets) = 1
    BY <1>5, <2>1 DEF IsDeadline
  <2>3. IsFiniteSet(offsets)
    <3>1. IsFiniteSet({"days"}) /\ IsFiniteSet({"days"} \cup {"hours"})
          /\ IsFiniteSet(({"days"} \cup {"hours"}) \cup {"months"})
      BY FS_Singleton, FS_AddElement
    <3>2. offsets \subseteq ({"days"} \cup {"hours"}) \cup {"months"}
      BY <2>1
    <3> QED BY <3>1, <3>2, FS_Subset
  <2>4. \E x : offsets = {x}
    BY <2>2, <2>3, FS_Singleton
  <2>5. "days" \in offsets
    BY <1>5, <2>1
  <2>6. "hours" \notin offsets /\ "months" \notin offsets
    BY <2>4, <2>5
  <2> QED BY <2>1, <2>6
<1> QED BY <1>1, <1>2, <1>3, <1>4, <1>5 DEF IsDeadline

LEMMA OffsetIs ==
  ASSUME NEW dl, IsDeadline(dl), NEW d \in Days, OffsetInTable(d, dl)
  PROVE  Offset(d, dl) # None => Offset(d, dl) \in Days /\ d <= Offset(d, dl)
<1>1. /\ d \in Nat /\ d <= TableEnd /\ TableEnd \in Nat /\ Days = 0..TableEnd
      /\ dl.days \in Int \cup {None}
      /\ dl.hours # None => dl.hours \in Nat
      /\ dl.months # None => dl.months \in Nat
  BY LastDayIs, DeadlineIs
<1>2. CASE dl.months # None
  <2>1. Offset(d, dl) = AddMonths(d, dl.months) /\ MonthOf[d] + dl.months \in Months
    BY <1>2 DEF Offset, OffsetInTable
  <2> QED BY <1>1, <1>2, <2>1, MonthsOn
<1>3. CASE dl.months = None /\ dl.hours # None
  <2>1. Offset(d, dl) = d + dl.hours \div 24 /\ d + dl.hours \div 24 \in Days
    BY <1>3 DEF Offset, OffsetInTable
  <2>2. dl.hours \div 24 \in Nat
    BY <1>1, <1>3
  <2> QED BY <1>1, <2>1, <2>2
<1>4. CASE dl.months = None /\ dl.hours = None /\ dl.days \in {None, 0}
  <2>1. Offset(d, dl) = d
    BY <1>4 DEF Offset
  <2> QED BY <1>1, <2>1
<1>5. CASE dl.months = None /\ dl.hours = None /\ dl.days \notin {None, 0}
  <2>1. dl.days \in Int
    BY <1>1, <1>5
  <2>2. Offset(d, dl) = IF dl.count = "UNSPECIFIED" \/ dl.days < 0 THEN None
                        ELSE IF dl.count = "BUSINESS" THEN AddWorkingDays(d, dl.days)
                        ELSE d + dl.days
    BY <1>5 DEF Offset
  <2>3. IF dl.count = "BUSINESS" THEN Count(d, TableEnd) >= dl.days
        ELSE d + dl.days <= TableEnd
    BY <1>5 DEF OffsetInTable, Count, Open
  <2>4. CASE dl.count = "UNSPECIFIED" \/ dl.days < 0
    BY <2>2, <2>4
  <2>5. CASE ~ (dl.count = "UNSPECIFIED" \/ dl.days < 0) /\ dl.count = "BUSINESS"
    <3>1. Offset(d, dl) = AddWorkingDays(d, dl.days) /\ dl.days \in Nat
          /\ Count(d, TableEnd) >= dl.days
      BY <2>1, <2>2, <2>3, <2>5
    <3> QED BY <3>1, WorkingDays
  <2>6. CASE ~ (dl.count = "UNSPECIFIED" \/ dl.days < 0) /\ dl.count # "BUSINESS"
    <3>1. Offset(d, dl) = d + dl.days /\ dl.days \in Nat /\ d + dl.days <= TableEnd
      BY <2>1, <2>2, <2>3, <2>6
    <3> QED BY <1>1, <3>1
  <2> QED BY <2>4, <2>5, <2>6
<1> QED BY <1>2, <1>3, <1>4, <1>5

LEMMA OffsetMono ==
  ASSUME NEW dl, IsDeadline(dl), NEW d \in Days, NEW f \in Days, d <= f,
         OffsetInTable(d, dl), OffsetInTable(f, dl), Offset(d, dl) # None
  PROVE  Offset(f, dl) # None /\ Offset(d, dl) <= Offset(f, dl)
<1>1. /\ d \in Nat /\ f \in Nat /\ TableEnd \in Nat /\ Days = 0..TableEnd
      /\ dl.days \in Int \cup {None}
      /\ dl.hours # None => dl.hours \in Nat
      /\ dl.months # None => dl.months \in Nat
      /\ None \notin Int
  BY LastDayIs, DeadlineIs, Table
<1>2. CASE dl.months # None
  <2>1. /\ Offset(d, dl) = AddMonths(d, dl.months) /\ Offset(f, dl) = AddMonths(f, dl.months)
        /\ MonthOf[f] + dl.months \in Months
    BY <1>2 DEF Offset, OffsetInTable
  <2>2. Offset(f, dl) \in Days
    BY <1>1, <1>2, <2>1, MonthsOn
  <2> QED BY <1>1, <1>2, <2>1, <2>2, MonthsOnMono
<1>3. CASE dl.months = None /\ dl.hours # None
  <2>1. Offset(d, dl) = d + dl.hours \div 24 /\ Offset(f, dl) = f + dl.hours \div 24
    BY <1>3 DEF Offset
  <2>2. dl.hours \div 24 \in Nat
    BY <1>1, <1>3
  <2> QED BY <1>1, <2>1, <2>2
<1>4. CASE dl.months = None /\ dl.hours = None /\ dl.days \in {None, 0}
  <2>1. Offset(d, dl) = d /\ Offset(f, dl) = f
    BY <1>4 DEF Offset
  <2> QED BY <1>1, <2>1
<1>5. CASE dl.months = None /\ dl.hours = None /\ dl.days \notin {None, 0}
  <2>1. dl.days \in Int
    BY <1>1, <1>5
  <2>2. \A e : Offset(e, dl) = IF dl.count = "UNSPECIFIED" \/ dl.days < 0 THEN None
                        ELSE IF dl.count = "BUSINESS" THEN AddWorkingDays(e, dl.days)
                        ELSE e + dl.days
    BY <1>5 DEF Offset
  <2>3. dl.count # "UNSPECIFIED" /\ dl.days \in Nat
    BY <2>1, <2>2
  <2>4. CASE dl.count = "BUSINESS"
    <3>1. Offset(d, dl) = AddWorkingDays(d, dl.days) /\ Offset(f, dl) = AddWorkingDays(f, dl.days)
      BY <2>2, <2>3, <2>4
    <3>2. Count(f, TableEnd) >= dl.days
      BY <1>5, <2>4 DEF OffsetInTable, Count, Open
    <3>3. AddWorkingDays(f, dl.days) \in Days
      BY <2>3, <3>2, WorkingDays
    <3> QED BY <1>1, <2>3, <3>1, <3>2, <3>3, WorkingDaysMono
  <2>5. CASE dl.count # "BUSINESS"
    <3>1. Offset(d, dl) = d + dl.days /\ Offset(f, dl) = f + dl.days
      BY <2>2, <2>3, <2>5
    <3> QED BY <1>1, <2>3, <3>1
  <2> QED BY <2>4, <2>5
<1> QED BY <1>2, <1>3, <1>4, <1>5

\* The days a rule can be asked about: its period and its due date are in the table.
Askable(dl, d) == d \in Days /\ MonthOf[d] + 11 \in Months /\ InTable(d, dl)

LEMMA DueIs ==
  ASSUME NEW dl, IsDeadline(dl), NEW d, Askable(dl, d), DueDate(dl, d) # None
  PROVE  /\ DueDate(dl, d) \in Int
         /\ dl.kind = "RELATIVE" => DueDate(dl, d) \in Days /\ d <= DueDate(dl, d)
<1>1. d \in Days /\ MonthOf[d] + 11 \in Months /\ InTable(d, dl)
      /\ TableEnd \in Nat /\ Days = 0..TableEnd
  BY LastDayIs DEF Askable
<1>2. CASE dl.kind = "ABSOLUTE"
  BY <1>2, DeadlineIs DEF DueDate
<1>3. CASE dl.kind = "RELATIVE"
  <2>1. DueDate(dl, d) = Offset(d, dl) /\ OffsetInTable(d, dl)
    BY <1>1, <1>3 DEF DueDate, InTable
  <2> QED BY <1>1, <2>1, OffsetIs
<1>4. CASE dl.kind = "END_OF_PERIOD"
  <2>1. EndOfPeriod(d, dl.period) \in Days
    BY <1>1, <1>4, DeadlineIs, EndIs
  <2>2. CASE dl.days \in {None, 0}
    <3>1. DueDate(dl, d) = EndOfPeriod(d, dl.period)
      BY <1>4, <2>2 DEF DueDate
    <3> QED BY <1>1, <1>4, <2>1, <3>1
  <2>3. CASE dl.days \notin {None, 0}
    <3>1. DueDate(dl, d) = Offset(EndOfPeriod(d, dl.period), dl)
          /\ OffsetInTable(EndOfPeriod(d, dl.period), dl)
      BY <1>1, <1>4, <2>3 DEF DueDate, InTable
    <3>2. DueDate(dl, d) \in Days
      BY <2>1, <3>1, OffsetIs
    <3> QED BY <1>1, <1>4, <3>2
  <2> QED BY <2>2, <2>3
<1> QED BY <1>2, <1>3, <1>4 DEF DueDate

LEMMA DueMono ==
  ASSUME NEW dl, IsDeadline(dl), NEW d, Askable(dl, d), NEW f, Askable(dl, f),
         d <= f, DueDate(dl, d) # None
  PROVE  DueDate(dl, f) # None /\ DueDate(dl, d) <= DueDate(dl, f)
<1>1. /\ d \in Days /\ MonthOf[d] + 11 \in Months /\ InTable(d, dl)
      /\ f \in Days /\ MonthOf[f] + 11 \in Months /\ InTable(f, dl)
      /\ TableEnd \in Nat /\ Days = 0..TableEnd /\ None \notin Int
  BY LastDayIs, Table DEF Askable
<1>2. CASE dl.kind = "ABSOLUTE"
  <2>1. DueDate(dl, d) = dl.date /\ DueDate(dl, f) = dl.date /\ dl.date \in Int
    BY <1>2, DeadlineIs DEF DueDate
  <2> QED BY <1>1, <2>1
<1>3. CASE dl.kind = "RELATIVE"
  <2>1. /\ DueDate(dl, d) = Offset(d, dl) /\ OffsetInTable(d, dl)
        /\ DueDate(dl, f) = Offset(f, dl) /\ OffsetInTable(f, dl)
    BY <1>1, <1>3 DEF DueDate, InTable
  <2> QED BY <1>1, <2>1, OffsetMono
<1>4. CASE dl.kind = "END_OF_PERIOD"
  <2>1. PICK a, b : a = EndOfPeriod(d, dl.period) /\ b = EndOfPeriod(f, dl.period)
    OBVIOUS
  <2>2. a \in Days /\ b \in Days /\ a <= b
    BY <1>1, <1>4, <2>1, DeadlineIs, EndIs, EndMono
  <2>3. CASE dl.days \in {None, 0}
    <3>1. DueDate(dl, d) = a /\ DueDate(dl, f) = b
      BY <1>4, <2>1, <2>3 DEF DueDate
    <3> QED BY <1>1, <2>2, <3>1
  <2>4. CASE dl.days \notin {None, 0}
    <3>1. /\ DueDate(dl, d) = Offset(a, dl) /\ OffsetInTable(a, dl)
          /\ DueDate(dl, f) = Offset(b, dl) /\ OffsetInTable(b, dl)
      BY <1>1, <1>4, <2>1, <2>4 DEF DueDate, InTable
    <3> QED BY <2>2, <3>1, OffsetMono
  <2> QED BY <2>3, <2>4
<1> QED BY <1>2, <1>3, <1>4 DEF DueDate

-----------------------------------------------------------------------------
(* The state.                                                              *)

EngineInv == EngineTypeOK /\ IsFiniteSet(events)

LEMMA Bounds ==
  /\ Run \in Nat /\ ClockDays \in Nat /\ Window \in Nat /\ Lookback \in Nat /\ Horizon \in Nat
  /\ MaxRecords \in Nat /\ 365 <= Window /\ Window <= Lookback /\ IsFiniteSet(Ids)
BY EngineAssumption

LEMMA Beginning ==
  ASSUME NEW b \in StartDays
  PROVE  /\ b \in Nat /\ b - ClockDays \in Nat /\ b - Lookback \in Nat /\ b - Horizon \in Nat
         /\ b + Run + 1 \in Days /\ b + Run + Horizon \in Days
         /\ MonthOf[b + Run + 1] + 11 \in Months /\ MonthOf[b + Run + Horizon] + 11 \in Months
<1>1. TableEnd \in Nat /\ Days = 0..TableEnd
  BY LastDayIs
<1>2. {b, b - ClockDays, b - Lookback, b - Horizon, b + Run + 1, b + Run + Horizon} \subseteq Days
  BY TableAssumption
<1>3. {MonthOf[b + Run + 1] + 11, MonthOf[b + Run + Horizon] + 11} \subseteq Months
  BY TableAssumption
<1> QED BY <1>1, <1>2, <1>3

\* Every day that is looked at is in the table, with a year after it.
LEMMA Looked ==
  ASSUME NEW d \in Nat, NEW e \in Days, d <= e, MonthOf[e] + 11 \in Months
  PROVE  d \in Days /\ MonthOf[d] + 11 \in Months
<1>1. d \in Days
  BY LastDayIs
<1> QED BY <1>1, MonthIs, MonthMono, Table

LEMMA InTheTable ==
  ASSUME EngineTypeOK
  PROVE  /\ today \in Nat /\ began \in Nat /\ began <= today /\ today <= began + Run
         /\ \A d \in 0..(began + Run + 1) : d \in Days /\ MonthOf[d] + 11 \in Months
         /\ today - Window \in Nat /\ today - Lookback \in Nat
         /\ \A o \in Shapes, d \in (began - ClockDays)..(began + Run + 1) :
              o.deadline # None => Askable(o.deadline, d)
<1>1. began \in StartDays /\ today \in began..(began + Run)
  BY DEF EngineTypeOK
<1>2. /\ began \in Nat /\ began - ClockDays \in Nat /\ began - Lookback \in Nat
      /\ began + Run + 1 \in Days /\ MonthOf[began + Run + 1] + 11 \in Months
  BY <1>1, Beginning
<1>3. today \in Nat /\ began <= today /\ today <= began + Run
  BY <1>1, <1>2, Bounds
<1>4. ASSUME NEW d \in 0..(began + Run + 1)
      PROVE  d \in Days /\ MonthOf[d] + 11 \in Months
  <2>1. d \in Nat /\ d <= began + Run + 1
    BY <1>2, Bounds
  <2> QED BY <1>2, <2>1, Looked
<1>5. today - Window \in Nat /\ today - Lookback \in Nat
  BY <1>2, <1>3, Bounds
<1>6. ASSUME NEW o \in Shapes, NEW d \in (began - ClockDays)..(began + Run + 1),
             o.deadline # None
      PROVE  Askable(o.deadline, d)
  <2>1. d \in 0..(began + Run + 1)
    BY <1>2, Bounds
  <2>2. InTable(d, o.deadline)
    BY <1>1, <1>6, TableAssumption
  <2> QED BY <1>4, <2>1, <2>2 DEF Askable
<1> QED BY <1>2, <1>3, <1>4, <1>5, <1>6

LEMMA RuleIs ==
  ASSUME EngineTypeOK, NEW id \in Ids
  PROVE  /\ rules[id] \in Shapes /\ IsRule(rules[id])
         /\ rules[id].deadline # None => IsDeadline(rules[id].deadline)
<1>1. rules[id] \in Shapes
  BY DEF EngineTypeOK
<1> QED BY <1>1, EngineAssumption DEF IsRule

LEMMA EventIs ==
  ASSUME EngineTypeOK, NEW e \in events
  PROVE  /\ e.id \in Ids /\ e.filed \in Int \cup {None}
         /\ e = [id |-> e.id, occurred |-> e.occurred, filed |-> e.filed]
         /\ e.occurred \in (began - ClockDays)..(began + Run + 1)
<1>1. e \in [id : Ids, occurred : (began - ClockDays)..today,
             filed : ((began - ClockDays)..today) \cup {None}]
  BY DEF EngineTypeOK
<1>2. /\ today \in Nat /\ began \in Nat /\ today <= began + Run
  BY InTheTable
<1> QED BY <1>1, <1>2, Bounds

\* The occasions of a rule in a window that ends by tomorrow.
LEMMA OwedIs ==
  ASSUME EngineTypeOK, NEW id \in Ids, rules[id].deadline # None,
         rules[id].deadline.kind = "END_OF_PERIOD",
         NEW start \in Nat, NEW end \in 0..(began + Run + 1)
  PROVE  LET dl   == rules[id].deadline
             owed == ExpectedOccasions(rules[id], start, end)
         IN  /\ owed = {d \in start..end : /\ EndOfPeriod(d, dl.period) = d
                                           /\ dl.period = "DAY" => Weekday(d) < 5}
             /\ start + 365 <= end => owed # {}
<1>1. rules[id].deadline.period \in Periods
  BY RuleIs, DeadlineIs
<1>2. end \in Days /\ MonthOf[end] + 11 \in Months
  BY InTheTable
<1>3. ExpectedOccasions(rules[id], start, end) =
        OccasionsIn(rules[id].deadline.period, start, end)
  BY DEF ExpectedOccasions
<1>4. start + 365 <= end => start \in Days
  BY <1>2, LastDayIs
<1> QED BY <1>1, <1>2, <1>3, <1>4, OccasionsAre, OccasionsExist

LEMMA InvAlways == EngineSpec => []EngineInv
<1>1. EngineInit => EngineInv
  <2> SUFFICES ASSUME EngineInit PROVE EngineInv
    OBVIOUS
  <2>1. began \in Nat
    BY Beginning DEF EngineInit
  <2>2. IsFiniteSet(events)
    BY FS_EmptySet DEF EngineInit
  <2> QED BY <2>1, <2>2, Bounds DEF EngineInv, EngineTypeOK, EngineInit
<1>2. EngineInv /\ [EngineNext]_engineVars => EngineInv'
  <2> SUFFICES ASSUME EngineInv, [EngineNext]_engineVars PROVE EngineInv'
    OBVIOUS
  <2>1. /\ today \in Nat /\ began \in Nat /\ began <= today /\ today <= began + Run
        /\ EngineTypeOK /\ IsFiniteSet(events) /\ Run \in Nat /\ ClockDays \in Nat
    BY InTheTable, Bounds DEF EngineInv
  <2>2. CASE NextDay
    <3>1. today' \in began..(began + Run)
      BY <2>1, <2>2 DEF NextDay
    <3>2. (began - ClockDays)..today \subseteq (began - ClockDays)..today'
      BY <2>1, <2>2 DEF NextDay
    <3>3. [id : Ids, occurred : (began - ClockDays)..today,
           filed : ((began - ClockDays)..today) \cup {None}]
          \subseteq [id : Ids, occurred : (began - ClockDays)..today',
                     filed : ((began - ClockDays)..today') \cup {None}]
      BY <3>2
    <3> QED BY <2>1, <2>2, <3>1, <3>3 DEF EngineInv, EngineTypeOK, NextDay
  <2>3. ASSUME NEW id \in Ids, NEW occurred \in Recordable,
               NEW filed \in Recordable \cup {None}, RecordOccasion(id, occurred, filed)
        PROVE  EngineInv'
    <3>1. Recordable \subseteq (began - ClockDays)..today
      BY <2>1 DEF Recordable
    <3> DEFINE e == [id |-> id, occurred |-> occurred, filed |-> filed]
               others == {f \in events : f.id # e.id \/ f.occurred # e.occurred}
    <3>2. e \in [id : Ids, occurred : (began - ClockDays)..today,
                 filed : ((began - ClockDays)..today) \cup {None}]
      BY <3>1
    <3>3. events' = others \cup {e} /\ rules' = rules /\ today' = today /\ began' = began
      BY <2>3 DEF RecordOccasion, Supersede
    <3>4. others \subseteq events
      OBVIOUS
    <3> HIDE DEF e, others
    <3>5. IsFiniteSet(events')
      BY <2>1, <3>3, <3>4, FS_Subset, FS_AddElement
    <3> QED BY <2>1, <3>2, <3>3, <3>4, <3>5 DEF EngineInv, EngineTypeOK
  <2>4. CASE UNCHANGED engineVars
    BY <2>1, <2>4 DEF EngineInv, EngineTypeOK, engineVars
  <2> QED BY <2>2, <2>3, <2>4 DEF EngineNext
<1> QED BY <1>1, <1>2, PTL DEF EngineSpec

-----------------------------------------------------------------------------
(* Due dates, at every day.                                                *)

LEMMA SoundNow == EngineTypeOK => DueDatesAreSound
<1> SUFFICES ASSUME EngineTypeOK, NEW id \in Ids, rules[id].deadline # None,
                    DueDate(rules[id].deadline, today) # None
             PROVE  LET dl == rules[id].deadline
                        due == DueDate(dl, today)
                        open == {d \in (today + 1)..due : IsWorkingDay(d)}
                    IN  /\ due <= DueDate(dl, today + 1)
                        /\ dl.kind = "RELATIVE" => due >= today
                        /\ (dl.kind = "RELATIVE" /\ dl.days \notin {None, 0} /\ dl.count = "BUSINESS") =>
                              Cardinality(open) = dl.days /\ due \in open
                        /\ (dl.kind = "RELATIVE" /\ dl.months # None) =>
                              MonthOf[due] = MonthOf[today] + dl.months
  BY DEF DueDatesAreSound
<1>1. PICK dl, due : dl = rules[id].deadline /\ due = DueDate(dl, today)
  OBVIOUS
<1>2. rules[id] \in Shapes /\ IsDeadline(dl) /\ dl # None
  BY <1>1, RuleIs
<1>3. /\ today \in Nat /\ began \in Nat /\ began <= today /\ today <= began + Run
      /\ today \in (began - ClockDays)..(began + Run + 1)
      /\ today + 1 \in (began - ClockDays)..(began + Run + 1)
  BY InTheTable, Bounds
<1>4. Askable(dl, today) /\ Askable(dl, today + 1)
  BY <1>1, <1>2, <1>3, InTheTable
<1>5. due <= DueDate(dl, today + 1)
  BY <1>1, <1>2, <1>3, <1>4, DueMono
<1>6. ASSUME dl.kind = "RELATIVE"
      PROVE  /\ due \in Nat /\ due >= today /\ due = Offset(today, dl)
             /\ OffsetInTable(today, dl) /\ today \in Days
  <2>1. due \in Days /\ today <= due
    BY <1>1, <1>2, <1>4, <1>6, DueIs
  <2>2. due = Offset(today, dl) /\ OffsetInTable(today, dl) /\ today \in Days
    BY <1>1, <1>4, <1>6 DEF DueDate, Askable, InTable
  <2> QED BY <1>3, <2>1, <2>2, LastDayIs
<1>7. ASSUME dl.kind = "RELATIVE", dl.days \notin {None, 0}, dl.count = "BUSINESS"
      PROVE  Cardinality(Open(today, due)) = dl.days /\ due \in Open(today, due)
  <2>1. dl.days \in Int /\ dl.days # 0 /\ dl.hours = None /\ dl.months = None
    BY <1>2, <1>7, DeadlineIs
  <2>2. ~ (dl.days < 0) /\ due = AddWorkingDays(today, dl.days)
    BY <1>1, <1>6, <1>7, <2>1 DEF Offset
  <2>3. Count(today, TableEnd) >= dl.days
    BY <1>6, <1>7, <2>1 DEF OffsetInTable, Count, Open
  <2>4. dl.days \in Nat /\ dl.days > 0
    BY <2>1, <2>2
  <2> QED BY <1>6, <1>7, <2>2, <2>3, <2>4, WorkingDays DEF Count
<1>8. ASSUME dl.kind = "RELATIVE", dl.months # None
      PROVE  MonthOf[due] = MonthOf[today] + dl.months
  <2>1. dl.months \in Nat /\ MonthOf[today] + dl.months \in Months
        /\ due = AddMonths(today, dl.months)
    BY <1>2, <1>6, <1>8, DeadlineIs DEF Offset, OffsetInTable
  <2> QED BY <1>6, <1>8, <2>1, MonthsOn
<1>9. Open(today, due) = {d \in (today + 1)..due : IsWorkingDay(d)}
  BY DEF Open
<1> QED BY <1>1, <1>5, <1>6, <1>7, <1>8, <1>9

\* DueDatesAreSound at every day, for every rule, table of months and holiday list.
THEOREM DueDatesAlwaysSound == EngineSpec => []DueDatesAreSound
<1>1. EngineInv => DueDatesAreSound
  BY SoundNow DEF EngineInv
<1> QED BY <1>1, InvAlways, PTL

-----------------------------------------------------------------------------
(* What a rule without records is found wanting on.                        *)

LEMMA EvaluatedIs ==
  ASSUME EngineTypeOK, NEW id \in Ids, NEW day, Treatment(id, day) = "EVALUATED"
  PROVE  LET o == rules[id]
         IN  /\ o.status = "CERTIFIED" /\ ~WhyNot(o) /\ o.deadline # None /\ o.artifact
             /\ o.modality \in {"MUST", "SHOULD"}
             /\ For(id) = {} => /\ Applicability(o, day - Window, day) = "EXPECTED"
                               /\ o.deadline.kind = "END_OF_PERIOD"
                               /\ ExpectedOccasions(o, day - Window, day) # {}
<1>0. Applicability(rules[id], day - Window, day) \in {"NOT_APPLICABLE", "UNDETERMINED", "EXPECTED"}
  BY DEF Applicability
<1>1. rules[id].status = "CERTIFIED" /\ ~WhyNot(rules[id])
  BY <1>0 DEF Treatment
<1>2. For(id) = {} => Applicability(rules[id], day - Window, day) = "EXPECTED"
  BY <1>0 DEF Treatment
<1>3. rules[id].deadline # None /\ rules[id].artifact /\ rules[id].modality \in {"MUST", "SHOULD"}
  BY <1>1 DEF WhyNot
<1>4. For(id) = {} => /\ rules[id].deadline.kind = "END_OF_PERIOD"
                      /\ ExpectedOccasions(rules[id], day - Window, day) # {}
  BY <1>2 DEF Applicability
<1> QED BY <1>1, <1>2, <1>3, <1>4

LEMMA OwedNow == EngineTypeOK => OwedAndForetold
<1> SUFFICES ASSUME EngineTypeOK, NEW id \in Ids, Findings(id, today) # {}, For(id) = {}
             PROVE  LET o == rules[id]
                        owed == ExpectedOccasions(o, today - Window, today)
                    IN  /\ owed = {d \in (today - Window)..today :
                                     /\ EndOfPeriod(d, o.deadline.period) = d
                                     /\ o.deadline.period = "DAY" => Weekday(d) < 5}
                        /\ o.table \/ Daily(o) \/
                             \A d \in owed \cap (began..today), ahead \in 0..Horizon :
                               d \in Diary(o, d - ahead, Horizon)
  BY DEF OwedAndForetold
<1>1. PICK o : o = rules[id]
  OBVIOUS
<1>2. Treatment(id, today) = "EVALUATED"
  BY DEF Findings
<1>3. /\ o.status = "CERTIFIED" /\ o.deadline # None /\ o.modality \in {"MUST", "SHOULD"}
      /\ o.deadline.kind = "END_OF_PERIOD"
  BY <1>1, <1>2, EvaluatedIs
<1>4. PICK owed : owed = ExpectedOccasions(o, today - Window, today)
  OBVIOUS
<1>5. /\ today \in Nat /\ began \in Nat /\ began <= today /\ today <= began + Run
      /\ today - Window \in Nat /\ today \in 0..(began + Run + 1)
  BY InTheTable, Bounds
<1>6. owed = {d \in (today - Window)..today :
                /\ EndOfPeriod(d, o.deadline.period) = d
                /\ o.deadline.period = "DAY" => Weekday(d) < 5}
  BY <1>1, <1>3, <1>4, <1>5, OwedIs
<1>7. ASSUME ~o.table, ~Daily(o), NEW d \in owed \cap (began..today), NEW ahead \in 0..Horizon
      PROVE  d \in Diary(o, d - ahead, Horizon)
  <2>1. Placed(o)
    BY <1>3, <1>7 DEF Placed
  <2>2. o.deadline.period # "DAY"
    BY <1>3, <1>7, <2>1 DEF Daily
  <2>3. PICK start, end : start = d - ahead /\ end = d - ahead + Horizon
    OBVIOUS
  <2>4. Diary(o, d - ahead, Horizon) = OccasionsIn(o.deadline.period, start, end)
    BY <1>3, <1>7, <2>1, <2>2, <2>3 DEF Diary, DiaryDates, OccasionsIn
  <2>5. /\ began \in StartDays /\ began - Horizon \in Nat /\ Horizon \in Nat
        /\ began + Run + Horizon \in Days /\ MonthOf[began + Run + Horizon] + 11 \in Months
    BY Beginning, Bounds DEF EngineTypeOK
  <2>6. start \in Nat /\ end \in Nat /\ d \in start..end /\ end <= began + Run + Horizon
    BY <1>5, <2>3, <2>5, Bounds
  <2>7. end \in Days /\ MonthOf[end] + 11 \in Months
    BY <2>5, <2>6, Looked
  <2>8. o.deadline.period \in Periods
    BY <1>1, <1>3, RuleIs, DeadlineIs
  <2>9. EndOfPeriod(d, o.deadline.period) = d
    BY <1>6
  <2> QED BY <2>2, <2>4, <2>6, <2>7, <2>8, <2>9, OccasionsAre
<1> QED BY <1>1, <1>4, <1>6, <1>7

\* OwedAndForetold: the engine's own calendar, the occasions and the diary, each
\* worked out by its own loop, agree for every rulebook, window and horizon.
THEOREM OwedAlwaysForetold == EngineSpec => []OwedAndForetold
<1>1. EngineInv => OwedAndForetold
  BY OwedNow DEF EngineInv
<1> QED BY <1>1, InvAlways, PTL

-----------------------------------------------------------------------------
(* A day passes.                                                           *)

LEMMA FindingIs ==
  ASSUME NEW id, NEW outcome, NEW occurred, NEW due, NEW filed
  PROVE  LET f == Finding(id, outcome, occurred, due, filed)
         IN  /\ f.id = id /\ f.outcome = outcome /\ f.occurred = occurred
             /\ f.due = due /\ f.filed = filed
BY DEF Finding

LEMMA DueOf ==
  ASSUME EngineTypeOK, NEW e \in events, rules[e.id].deadline # None,
         DueDate(rules[e.id].deadline, e.occurred) # None
  PROVE  DueDate(rules[e.id].deadline, e.occurred) \in Int
<1>1. e.id \in Ids /\ e.occurred \in (began - ClockDays)..(began + Run + 1)
  BY EventIs
<1>2. rules[e.id] \in Shapes /\ IsDeadline(rules[e.id].deadline)
  BY <1>1, RuleIs
<1>3. Askable(rules[e.id].deadline, e.occurred)
  BY <1>1, <1>2, InTheTable
<1> QED BY <1>2, <1>3, DueIs

\* A rule that was evaluated today is evaluated tomorrow.
LEMMA EvaluatedTomorrow ==
  ASSUME EngineTypeOK, NEW id \in Ids, Treatment(id, today) = "EVALUATED"
  PROVE  Treatment(id, today + 1) = "EVALUATED"
<1>1. PICK o : o = rules[id]
  OBVIOUS
<1>2. /\ o.status = "CERTIFIED" /\ ~WhyNot(o) /\ o.deadline # None /\ o.artifact
      /\ o.modality \in {"MUST", "SHOULD"}
      /\ For(id) = {} => o.deadline.kind = "END_OF_PERIOD"
  BY <1>1, EvaluatedIs
<1>3. CASE For(id) # {}
  BY <1>1, <1>2, <1>3 DEF Treatment
<1>4. CASE For(id) = {}
  <2>1. /\ today \in Nat /\ today - Window \in Nat /\ 365 <= Window /\ Window \in Nat
        /\ today <= began + Run /\ began \in Nat /\ Run \in Nat
    BY InTheTable, Bounds
  <2>2. PICK end, start : end = today + 1 /\ start = end - Window
    OBVIOUS
  <2>3. start \in Nat /\ end \in 0..(began + Run + 1) /\ start + 365 <= end
    BY <2>1, <2>2
  <2>4. ExpectedOccasions(o, start, end) # {}
    BY <1>1, <1>2, <1>4, <2>3, OwedIs
  <2>5. Applicability(o, start, end) = "EXPECTED"
    BY <1>2, <1>4, <2>4 DEF Applicability
  <2>6. Applicability(rules[id], end - Window, end) = "EXPECTED"
    BY <1>1, <2>2, <2>5
  <2>7. rules[id].status = "CERTIFIED" /\ ~WhyNot(rules[id])
    BY <1>1, <1>2
  <2>8. Treatment(id, end) = "EVALUATED"
    BY <1>4, <2>6, <2>7 DEF Treatment
  <2> QED BY <2>2, <2>8
<1> QED BY <1>3, <1>4

LEMMA FindingsTomorrow ==
  ASSUME EngineTypeOK, NEW id \in Ids, NEW f \in Findings(id, today)
  PROVE  \E g \in Findings(id, today + 1) :
           /\ g.outcome = f.outcome
           /\ f.outcome # "NO_EVIDENCE" => g = f
<1>1. Treatment(id, today) = "EVALUATED"
  BY DEF Findings
<1>2. Treatment(id, today + 1) = "EVALUATED"
  BY <1>1, EvaluatedTomorrow
<1>3. CASE For(id) = {}
  <2>1. f = Silence(id, today) /\ Silence(id, today + 1) \in Findings(id, today + 1)
    BY <1>1, <1>2, <1>3 DEF Findings
  <2>2. f.outcome = "NO_EVIDENCE" /\ Silence(id, today + 1).outcome = "NO_EVIDENCE"
    BY <2>1, FindingIs DEF Silence
  <2> QED BY <2>1, <2>2
<1>4. CASE For(id) # {}
  <2>1. PICK e \in For(id) :
          /\ Check(rules[id], e, today) \in {"MISSING", "LATE"}
          /\ f = Finding(id, Check(rules[id], e, today), e.occurred,
                         DueDate(rules[id].deadline, e.occurred), e.filed)
    BY <1>1, <1>4 DEF Findings
  <2>2. e \in events /\ e.id = id
    BY DEF For
  <2>3. rules[id].deadline # None
    BY <1>1, EvaluatedIs
  <2>4. PICK due : due = DueDate(rules[id].deadline, e.occurred)
    OBVIOUS
  <2>5. due # None
    BY <2>1, <2>4 DEF Check
  <2>6. due \in Int /\ today \in Nat
    BY <2>2, <2>3, <2>4, <2>5, DueOf, InTheTable
  <2>7. due <= today => due <= today + 1
    BY <2>6
  <2>8. Check(rules[id], e, today + 1) = Check(rules[id], e, today)
    BY <2>1, <2>4, <2>6, <2>7 DEF Check
  <2>9. f \in Findings(id, today + 1)
    BY <1>2, <1>4, <2>1, <2>8 DEF Findings
  <2> QED BY <2>9
<1> QED BY <1>3, <1>4

LEMMA FindingsPrimed ==
  ASSUME NEW id \in Ids, UNCHANGED <<rules, events>>, NEW day, today' = day
  PROVE  Findings(id, today)' = Findings(id, day)
<1>1. For(id)' = For(id)
  BY DEF For
<1>2. Treatment(id, today)' = Treatment(id, day)
  BY <1>1 DEF Treatment
<1>3. Silence(id, today)' = Silence(id, day)
  BY DEF Silence, Finding
<1> QED BY <1>1, <1>2, <1>3 DEF Findings, Finding

\* FindingsStay: a verdict reached outlives the day, in every year of the table.
THEOREM FindingsAlwaysStay == EngineSpec => FindingsStay
<1>1. ASSUME EngineInv, [EngineNext]_engineVars, today' # today, NEW id \in Ids, NEW f \in Findings(id, today)
      PROVE  \E g \in Findings(id, today)' :
               /\ g.outcome = f.outcome
               /\ f.outcome # "NO_EVIDENCE" => g = f
  <2>1. UNCHANGED <<rules, events>> /\ today' = today + 1
    BY <1>1 DEF EngineNext, NextDay, RecordOccasion, engineVars
  <2>2. Findings(id, today)' = Findings(id, today + 1)
    BY <2>1, FindingsPrimed
  <2>3. EngineTypeOK
    BY <1>1 DEF EngineInv
  <2> QED BY <1>1, <2>2, <2>3, FindingsTomorrow
<1>2. EngineInv /\ [EngineNext]_engineVars =>
        [today' # today =>
           \A id \in Ids : \A f \in Findings(id, today) :
             \E g \in Findings(id, today)' :
               /\ g.outcome = f.outcome
               /\ f.outcome # "NO_EVIDENCE" => g = f]_engineVars
  BY <1>1
<1> QED BY <1>2, InvAlways, PTL DEF EngineSpec, FindingsStay

-----------------------------------------------------------------------------
(* The report.                                                             *)

LEMMA TwoParts ==
  ASSUME NEW S, IsFiniteSet(S), NEW A, NEW B, S = A \cup B, A \cap B = {}
  PROVE  /\ IsFiniteSet(A) /\ IsFiniteSet(B)
         /\ Cardinality(A) \in Nat /\ Cardinality(B) \in Nat
         /\ Cardinality(S) = Cardinality(A) + Cardinality(B)
<1>1. A \in SUBSET S /\ B \in SUBSET S
  OBVIOUS
<1>2. IsFiniteSet(A) /\ IsFiniteSet(B)
  BY <1>1, FS_Subset
<1>3. Cardinality(A \cap B) = 0
  BY FS_EmptySet
<1>4. Cardinality(A) \in Nat /\ Cardinality(B) \in Nat
  BY <1>2, FS_CardinalityType
<1>5. Cardinality(A \cup B) = Cardinality(A) + Cardinality(B) - Cardinality(A \cap B)
  BY <1>2, FS_Union
<1> QED BY <1>2, <1>3, <1>4, <1>5

\* Rules in the rulebook that run put somewhere in its report.
Put(where) == {id \in Ids : Treatment(id, today) = where}

LEMMA CertifiedIs ==
  Cardinality({id \in Ids : rules[id].status = "CERTIFIED"}) =
    Cardinality(Put("EVALUATED")) + Cardinality(Put("UNEVALUABLE"))
      + Cardinality(Put("UNDETERMINED")) + Cardinality(Put("NOT_APPLICABLE"))
<1> DEFINE E == Put("EVALUATED")
           U == Put("UNEVALUABLE")
           D == Put("UNDETERMINED")
           N == Put("NOT_APPLICABLE")
           C == {id \in Ids : rules[id].status = "CERTIFIED"}
<1>1. \A id : Applicability(rules[id], today - Window, today)
               \in {"NOT_APPLICABLE", "UNDETERMINED", "EXPECTED"}
  BY DEF Applicability
<1>2. \A id : rules[id].status = "CERTIFIED"
         <=> Treatment(id, today) \in {"EVALUATED", "UNEVALUABLE", "UNDETERMINED", "NOT_APPLICABLE"}
  BY <1>1 DEF Treatment
<1>3. C = E \cup (U \cup (D \cup N))
  BY <1>2 DEF Put
<1>4. E \cap (U \cup (D \cup N)) = {} /\ U \cap (D \cup N) = {} /\ D \cap N = {}
  BY DEF Put
<1>5. C \in SUBSET Ids
  OBVIOUS
<1> HIDE DEF C, E, U, D, N
<1>6. IsFiniteSet(C)
  BY <1>5, Bounds, FS_Subset
<1>7. /\ Cardinality(C) = Cardinality(E) + Cardinality(U \cup (D \cup N))
      /\ IsFiniteSet(U \cup (D \cup N)) /\ Cardinality(E) \in Nat
  BY <1>3, <1>4, <1>6, TwoParts
<1>8. /\ Cardinality(U \cup (D \cup N)) = Cardinality(U) + Cardinality(D \cup N)
      /\ IsFiniteSet(D \cup N) /\ Cardinality(U) \in Nat
  BY <1>4, <1>7, TwoParts
<1>9. /\ Cardinality(D \cup N) = Cardinality(D) + Cardinality(N)
      /\ Cardinality(D) \in Nat /\ Cardinality(N) \in Nat
  BY <1>4, <1>8, TwoParts
<1>10. Cardinality(C) = Cardinality(E) + Cardinality(U) + Cardinality(D) + Cardinality(N)
  BY <1>7, <1>8, <1>9
<1> QED BY <1>10 DEF C, E, U, D, N

LEMMA CheckIs ==
  ASSUME NEW o, NEW e, NEW day
  PROVE  /\ Check(o, e, day) \in {"NOT_COUNTED", "MISSING", "LATE", "SATISFIED"}
         /\ Check(o, e, day) = "MISSING" => e.filed = None
BY DEF Check

Found == UNION {Findings(id, today) : id \in Ids}
Verdict(e) == Check(rules[e.id], e, today)
Breached == {e \in Counted(today) : Verdict(e) # "SATISFIED"}
FindingOf(e) ==
  Finding(e.id, Verdict(e), e.occurred, DueDate(rules[e.id].deadline, e.occurred), e.filed)

\* What was found wrong in a record is found once.
LEMMA BreachesAre ==
  ASSUME EngineTypeOK
  PROVE  {f \in Found : f.outcome # "NO_EVIDENCE"} = {FindingOf(e) : e \in Breached}
<1>1. ASSUME NEW f \in Found, f.outcome # "NO_EVIDENCE"
      PROVE  \E e \in Breached : f = FindingOf(e)
  <2>1. PICK id \in Ids : f \in Findings(id, today)
    BY DEF Found
  <2>2. Treatment(id, today) = "EVALUATED"
    BY <2>1 DEF Findings
  <2>3. For(id) # {}
    <3>1. SUFFICES ASSUME For(id) = {} PROVE FALSE
      OBVIOUS
    <3>2. f = Silence(id, today)
      BY <2>1, <2>2, <3>1 DEF Findings
    <3> QED BY <1>1, <3>2, FindingIs DEF Silence
  <2>4. PICK e \in For(id) :
          /\ Check(rules[id], e, today) \in {"MISSING", "LATE"}
          /\ f = Finding(id, Check(rules[id], e, today), e.occurred,
                         DueDate(rules[id].deadline, e.occurred), e.filed)
    BY <2>1, <2>2, <2>3 DEF Findings
  <2>5. e \in events /\ e.id = id
    BY DEF For
  <2>6. e \in Breached
    BY <2>2, <2>4, <2>5 DEF Breached, Counted, Verdict
  <2> QED BY <2>4, <2>5, <2>6 DEF FindingOf, Verdict
<1>2. ASSUME NEW e \in Breached
      PROVE  FindingOf(e) \in Found /\ FindingOf(e).outcome # "NO_EVIDENCE"
  <2>1. e \in events /\ Treatment(e.id, today) = "EVALUATED" /\ Verdict(e) \in {"MISSING", "LATE"}
    BY CheckIs DEF Breached, Counted, Verdict
  <2>2. e \in For(e.id) /\ e.id \in Ids
    BY <2>1, EventIs DEF For
  <2>3. FindingOf(e) \in Findings(e.id, today)
    BY <2>1, <2>2 DEF Findings, FindingOf, Verdict
  <2>4. FindingOf(e).outcome = Verdict(e)
    BY FindingIs DEF FindingOf
  <2> QED BY <2>1, <2>2, <2>3, <2>4 DEF Found
<1> QED BY <1>1, <1>2

LEMMA CheckedIs ==
  ASSUME EngineInv
  PROVE  Cardinality(Counted(today)) =
           Cardinality({e \in Counted(today) : Check(rules[e.id], e, today) = "SATISFIED"})
             + Cardinality({f \in Found : f.outcome # "NO_EVIDENCE"})
<1>1. EngineTypeOK /\ IsFiniteSet(events)
  BY DEF EngineInv
<1> DEFINE Sat == {e \in Counted(today) : Check(rules[e.id], e, today) = "SATISFIED"}
           T == {FindingOf(e) : e \in Breached}
           g == [e \in Breached |-> FindingOf(e)]
<1>2. Counted(today) \in SUBSET events
  BY DEF Counted
<1>3. IsFiniteSet(Counted(today))
  BY <1>1, <1>2, FS_Subset
<1>4. Counted(today) = Sat \cup Breached /\ Sat \cap Breached = {}
  BY DEF Breached, Verdict
<1>5. /\ IsFiniteSet(Breached)
      /\ Cardinality(Counted(today)) = Cardinality(Sat) + Cardinality(Breached)
  <2> HIDE DEF Sat
  <2>1. PICK c : c = Counted(today)
    OBVIOUS
  <2>2. IsFiniteSet(c) /\ c = Sat \cup Breached /\ Sat \cap Breached = {}
    BY <1>3, <1>4, <2>1
  <2>3. IsFiniteSet(Breached) /\ Cardinality(c) = Cardinality(Sat) + Cardinality(Breached)
    BY <2>2, TwoParts
  <2> QED BY <2>1, <2>3
<1>6. ASSUME NEW a \in Breached, NEW b \in Breached, FindingOf(a) = FindingOf(b)
      PROVE  a = b
  <2>1. a \in events /\ b \in events
    BY <1>2 DEF Breached
  <2>2. a.id = b.id /\ a.occurred = b.occurred /\ a.filed = b.filed
    BY <1>6, FindingIs DEF FindingOf
  <2>3. /\ a = [id |-> a.id, occurred |-> a.occurred, filed |-> a.filed]
        /\ b = [id |-> b.id, occurred |-> b.occurred, filed |-> b.filed]
    BY <1>1, <2>1, EventIs
  <2>4. [id |-> a.id, occurred |-> a.occurred, filed |-> a.filed] =
          [id |-> b.id, occurred |-> b.occurred, filed |-> b.filed]
    BY <2>2
  <2> QED BY <2>3, <2>4, Zenon
<1>7. g \in Bijection(Breached, T)
  <2>1. g \in [Breached -> T]
    OBVIOUS
  <2>2. \A a, b \in Breached : g[a] = g[b] => a = b
    BY <1>6
  <2>3. \A t \in T : \E e \in Breached : g[e] = t
    OBVIOUS
  <2> HIDE DEF g, T
  <2> QED BY <2>1, <2>2, <2>3 DEF Bijection, Injection, Surjection, IsInjective
<1>8. Cardinality(T) = Cardinality(Breached)
  <2> HIDE DEF g, T
  <2>1. ExistsBijection(Breached, T)
    BY <1>7 DEF ExistsBijection
  <2> QED BY <1>5, <2>1, FS_Bijection
<1>9. {f \in Found : f.outcome # "NO_EVIDENCE"} = T
  BY <1>1, BreachesAre
<1> QED BY <1>5, <1>8, <1>9

LEMMA OffsetSome ==
  ASSUME NEW dl, IsDeadline(dl), NEW d \in Days, OffsetInTable(d, dl),
         dl.days \notin {None, 0} => dl.count # "UNSPECIFIED",
         \/ dl.days \notin {None, 0} => dl.days >= 0
         \/ dl.months # None \/ dl.hours # None
  PROVE  Offset(d, dl) # None
<1>1. /\ TableEnd \in Nat /\ Days = 0..TableEnd /\ d \in Nat /\ None \notin Int
      /\ dl.days \in Int \cup {None}
      /\ dl.hours # None => dl.hours \in Nat
      /\ dl.months # None => dl.months \in Nat
  BY LastDayIs, DeadlineIs, Table
<1>2. CASE dl.months # None
  <2>1. Offset(d, dl) = AddMonths(d, dl.months) /\ MonthOf[d] + dl.months \in Months
    BY <1>2 DEF Offset, OffsetInTable
  <2>2. Offset(d, dl) \in Days
    BY <1>1, <1>2, <2>1, MonthsOn
  <2> QED BY <1>1, <2>2
<1>3. CASE dl.months = None /\ dl.hours # None
  <2>1. Offset(d, dl) = d + dl.hours \div 24 /\ d + dl.hours \div 24 \in Days
    BY <1>3 DEF Offset, OffsetInTable
  <2> QED BY <1>1, <2>1
<1>4. CASE dl.months = None /\ dl.hours = None /\ dl.days \in {None, 0}
  <2>1. Offset(d, dl) = d
    BY <1>4 DEF Offset
  <2> QED BY <1>1, <2>1
<1>5. CASE dl.months = None /\ dl.hours = None /\ dl.days \notin {None, 0}
  <2>1. dl.days \in Nat /\ dl.count # "UNSPECIFIED"
    BY <1>1, <1>5
  <2>2. Offset(d, dl) = IF dl.count = "BUSINESS" THEN AddWorkingDays(d, dl.days)
                        ELSE d + dl.days
    BY <1>5, <2>1 DEF Offset
  <2>3. CASE dl.count = "BUSINESS"
    <3>1. Count(d, TableEnd) >= dl.days
      BY <1>5, <2>3 DEF OffsetInTable, Count, Open
    <3>2. AddWorkingDays(d, dl.days) \in Days
      BY <2>1, <3>1, WorkingDays
    <3> QED BY <1>1, <2>2, <2>3, <3>2
  <2>4. CASE dl.count # "BUSINESS"
    BY <1>1, <2>1, <2>2, <2>4
  <2> QED BY <2>3, <2>4
<1> QED BY <1>2, <1>3, <1>4, <1>5

\* A rule that is evaluated on its records has a due date for each of them,
\* unless its deadline runs backwards.
LEMMA DueExists ==
  ASSUME EngineTypeOK, NEW e \in events, Treatment(e.id, today) = "EVALUATED",
         ~Backward(rules[e.id].deadline)
  PROVE  DueDate(rules[e.id].deadline, e.occurred) # None
<1>1. e.id \in Ids /\ e.occurred \in (began - ClockDays)..(began + Run + 1)
  BY EventIs
<1>2. PICK dl, d : dl = rules[e.id].deadline /\ d = e.occurred
  OBVIOUS
<1>3. /\ rules[e.id] \in Shapes /\ dl # None /\ IsDeadline(dl) /\ ~WhyNot(rules[e.id])
  BY <1>1, <1>2, RuleIs, EvaluatedIs
<1>4. /\ dl.kind # "ON_DEMAND"
      /\ dl.days \notin {None, 0} => dl.count # "UNSPECIFIED"
  BY <1>2, <1>3 DEF WhyNot
<1>5. \/ dl.days \notin {None, 0} => dl.days >= 0
      \/ dl.months # None \/ dl.hours # None
  BY <1>2, <1>3, DeadlineIs DEF Backward
<1>6. d \in Days /\ MonthOf[d] + 11 \in Months /\ InTable(d, dl)
      /\ TableEnd \in Nat /\ Days = 0..TableEnd /\ None \notin Int
  BY <1>1, <1>2, <1>3, InTheTable, LastDayIs, Table DEF Askable
<1>7. CASE dl.kind = "ABSOLUTE"
  <2>1. DueDate(dl, d) = dl.date /\ dl.date \in Int
    BY <1>3, <1>7, DeadlineIs DEF DueDate
  <2> QED BY <1>2, <1>6, <2>1
<1>8. CASE dl.kind = "RELATIVE"
  <2>1. DueDate(dl, d) = Offset(d, dl) /\ OffsetInTable(d, dl)
    BY <1>6, <1>8 DEF DueDate, InTable
  <2> QED BY <1>2, <1>3, <1>4, <1>5, <1>6, <2>1, OffsetSome
<1>9. CASE dl.kind = "END_OF_PERIOD"
  <2>1. PICK end : end = EndOfPeriod(d, dl.period)
    OBVIOUS
  <2>2. end \in Days
    BY <1>3, <1>6, <1>9, <2>1, DeadlineIs, EndIs
  <2>3. CASE dl.days \in {None, 0}
    <3>1. DueDate(dl, d) = end
      BY <1>9, <2>1, <2>3 DEF DueDate
    <3> QED BY <1>2, <1>6, <2>2, <3>1
  <2>4. CASE dl.days \notin {None, 0}
    <3>1. DueDate(dl, d) = Offset(end, dl) /\ OffsetInTable(end, dl)
      BY <1>6, <1>9, <2>1, <2>4 DEF DueDate, InTable
    <3> QED BY <1>2, <1>3, <1>4, <1>5, <2>2, <3>1, OffsetSome
  <2> QED BY <2>3, <2>4
<1>10. dl.kind \in {"ABSOLUTE", "RELATIVE", "END_OF_PERIOD", "ON_DEMAND"}
  BY <1>3 DEF IsDeadline, DeadlineKinds
<1> QED BY <1>4, <1>7, <1>8, <1>9, <1>10

\* The gaps screen and the records screen read the same record.
LEMMA ScreensNow == EngineTypeOK => ScreensAgree
<1> SUFFICES ASSUME EngineTypeOK, NEW id \in Ids, NEW f \in Findings(id, today),
                    NEW signal \in {Signal(id, today)}
             PROVE  /\ Watched(id)
                    /\ f.outcome = "NO_EVIDENCE" => signal = "NEVER_RECORDED"
                    /\ f.outcome = "MISSING" => signal \in {"UNFILED", "GONE_QUIET"}
  BY DEF ScreensAgree
<1>1. Treatment(id, today) = "EVALUATED"
  BY DEF Findings
<1>2. PICK o : o = rules[id]
  OBVIOUS
<1>3. /\ o.status = "CERTIFIED" /\ o.artifact /\ o.deadline # None
      /\ For(id) = {} => o.deadline.kind = "END_OF_PERIOD"
  BY <1>1, <1>2, EvaluatedIs
<1>4. Watched(id)
  BY <1>2, <1>3 DEF Watched
<1>5. o.deadline.kind = "END_OF_PERIOD" => ExpectedOccasions(o, today - Lookback, today) # {}
  <2>1. /\ today \in 0..(began + Run + 1) /\ today - Lookback \in Nat
        /\ (today - Lookback) + 365 <= today
    BY InTheTable, Bounds
  <2> QED BY <1>2, <1>3, <2>1, OwedIs
<1>6. CASE For(id) = {}
  <2>1. f.outcome = "NO_EVIDENCE"
    <3>1. f = Silence(id, today)
      BY <1>1, <1>6 DEF Findings
    <3> QED BY <3>1, FindingIs DEF Silence
  <2>2. signal = "NEVER_RECORDED"
    BY <1>2, <1>3, <1>5, <1>6 DEF Signal
  <2> QED BY <1>4, <2>1, <2>2
<1>7. CASE For(id) # {}
  <2>1. PICK e \in For(id) :
          /\ Check(rules[id], e, today) \in {"MISSING", "LATE"}
          /\ f = Finding(id, Check(rules[id], e, today), e.occurred,
                         DueDate(rules[id].deadline, e.occurred), e.filed)
    BY <1>1, <1>7 DEF Findings
  <2>2. f.outcome = Check(rules[id], e, today)
    BY <2>1, FindingIs
  <2>3. ASSUME f.outcome = "MISSING" PROVE signal \in {"UNFILED", "GONE_QUIET"}
    <3>0. Check(rules[id], e, today) = "MISSING"
      BY <2>2, <2>3
    <3>1. e.filed = None
      BY <3>0 DEF Check
    <3>2. \E g \in For(id) : g.filed = None
      BY <3>1
    <3>3. {g.occurred : g \in For(id)} # {}
      BY <1>7
    <3> QED BY <1>2, <1>3, <1>5, <3>2, <3>3 DEF Signal
  <2> QED BY <1>4, <2>1, <2>2, <2>3
<1> QED BY <1>6, <1>7

\* A rule that was evaluated without a record puts occasions in the report.
LEMMA SilenceCounts ==
  ASSUME EngineTypeOK, NEW id \in Ids, Treatment(id, today) = "EVALUATED", For(id) = {}
  PROVE  LET silent == {f.id : f \in {g \in Found : g.outcome = "NO_EVIDENCE"}}
         IN  Cardinality(UNION {{i} \X ExpectedOccasions(rules[i], today - Window, today) : i \in silent}) > 0
<1> DEFINE silent == {f.id : f \in {g \in Found : g.outcome = "NO_EVIDENCE"}}
           owed(i) == ExpectedOccasions(rules[i], today - Window, today)
           unevidenced == UNION {{i} \X owed(i) : i \in silent}
           box == Ids \X ((today - Window)..today)
<1>1. /\ today \in Nat /\ today - Window \in Nat /\ today \in 0..(began + Run + 1)
  BY InTheTable, Bounds
<1>2. ASSUME NEW i \in silent
      PROVE  i \in Ids /\ owed(i) \subseteq (today - Window)..today /\ owed(i) # {}
  <2>1. PICK f \in Found : f.outcome = "NO_EVIDENCE" /\ f.id = i
    OBVIOUS
  <2>2. PICK j \in Ids : f \in Findings(j, today)
    BY DEF Found
  <2>3. Treatment(j, today) = "EVALUATED"
    BY <2>2 DEF Findings
  <2>4. f.id = j
    BY <2>2, <2>3, FindingIs DEF Findings, Silence
  <2>5. For(j) = {}
    <3>1. SUFFICES ASSUME For(j) # {} PROVE FALSE
      OBVIOUS
    <3>2. PICK e \in For(j) :
            /\ Check(rules[j], e, today) \in {"MISSING", "LATE"}
            /\ f = Finding(j, Check(rules[j], e, today), e.occurred,
                           DueDate(rules[j].deadline, e.occurred), e.filed)
      BY <2>2, <2>3, <3>1 DEF Findings
    <3> QED BY <2>1, <3>2, FindingIs
  <2>6. rules[j].deadline # None /\ rules[j].deadline.kind = "END_OF_PERIOD" /\ owed(j) # {}
    BY <2>3, <2>5, EvaluatedIs
  <2>7. owed(j) \subseteq (today - Window)..today
    BY <1>1, <2>6, OwedIs
  <2> QED BY <2>1, <2>4, <2>6, <2>7
<1>3. id \in silent
  <2>1. Silence(id, today) \in Findings(id, today)
    BY DEF Findings
  <2>2. Silence(id, today).outcome = "NO_EVIDENCE" /\ Silence(id, today).id = id
    BY FindingIs DEF Silence
  <2>3. Silence(id, today) \in Found
    BY <2>1 DEF Found
  <2> QED BY <2>2, <2>3
<1> HIDE DEF silent, owed
<1>4. unevidenced \in SUBSET box
  <2> SUFFICES ASSUME NEW i \in silent, NEW p \in {i} \X owed(i)
               PROVE  p \in Ids \X ((today - Window)..today)
    OBVIOUS
  <2> QED BY <1>2
<1>5. unevidenced # {}
  <2>1. PICK d : d \in owed(id)
    BY <1>2, <1>3
  <2>2. <<id, d>> \in {id} \X owed(id)
    BY <2>1
  <2>3. <<id, d>> \in unevidenced
    BY <1>3, <2>2
  <2> QED BY <2>3
<1>6. IsFiniteSet(box)
  <2>1. IsFiniteSet((today - Window)..today)
    BY <1>1, FS_Interval
  <2> QED BY <2>1, Bounds, FS_Product
<1>7. Cardinality(unevidenced) > 0
  <2> HIDE DEF unevidenced, box
  <2>1. IsFiniteSet(unevidenced)
    BY <1>4, <1>6, FS_Subset
  <2>2. Cardinality(unevidenced) \in Nat /\ Cardinality(unevidenced) # 0
    BY <1>5, <2>1, FS_CardinalityType, FS_EmptySet
  <2> QED BY <2>2
<1> QED BY <1>7 DEF silent, owed

LEMMA UncountedNow == EngineInv => NothingUncounted
<1> SUFFICES ASSUME EngineInv, NEW r, r = Report(today)
             PROVE  LET looked == {e \in events : Treatment(e.id, today) = "EVALUATED"}
                    IN  /\ r.certified = r.evaluated + r.unevaluable + r.undetermined + r.not_applicable
                        /\ r.checked = r.satisfied + r.breaches
                        /\ \A e \in looked :
                             \/ Backward(rules[e.id].deadline)
                             \/ e \in Counted(today) \/ StillTime(e)
                        /\ r.evaluated > 0 /\ looked = {} => r.unevidenced > 0
  BY DEF NothingUncounted
<1>1. EngineTypeOK
  BY DEF EngineInv
<1>2. /\ r.certified = Cardinality({id \in Ids : rules[id].status = "CERTIFIED"})
      /\ r.evaluated = Cardinality(Put("EVALUATED"))
      /\ r.unevaluable = Cardinality(Put("UNEVALUABLE"))
      /\ r.undetermined = Cardinality(Put("UNDETERMINED"))
      /\ r.not_applicable = Cardinality(Put("NOT_APPLICABLE"))
  BY DEF Report, Put
<1>3. /\ r.checked = Cardinality(Counted(today))
      /\ r.satisfied = Cardinality({e \in Counted(today) : Check(rules[e.id], e, today) = "SATISFIED"})
      /\ r.breaches = Cardinality({f \in Found : f.outcome # "NO_EVIDENCE"})
  BY DEF Report, Found
<1>4. LET silent == {f.id : f \in {g \in Found : g.outcome = "NO_EVIDENCE"}}
      IN  r.unevidenced = Cardinality(
            UNION {{i} \X ExpectedOccasions(rules[i], today - Window, today) : i \in silent})
  BY DEF Report, Found
<1>5. r.certified = r.evaluated + r.unevaluable + r.undetermined + r.not_applicable
  BY <1>2, CertifiedIs
<1>6. r.checked = r.satisfied + r.breaches
  BY <1>3, CheckedIs
<1>7. ASSUME NEW e \in events, Treatment(e.id, today) = "EVALUATED",
             ~Backward(rules[e.id].deadline)
      PROVE  e \in Counted(today) \/ StillTime(e)
  <2>1. DueDate(rules[e.id].deadline, e.occurred) # None
    BY <1>1, <1>7, DueExists
  <2>2. Check(rules[e.id], e, today) = "NOT_COUNTED" => StillTime(e)
    BY <2>1 DEF Check, StillTime
  <2> QED BY <1>7, <2>2 DEF Counted
<1>8. ASSUME r.evaluated > 0, {e \in events : Treatment(e.id, today) = "EVALUATED"} = {}
      PROVE  r.unevidenced > 0
  <2>1. Put("EVALUATED") # {}
    <3>1. Cardinality({}) = 0
      BY FS_EmptySet
    <3>2. Cardinality(Put("EVALUATED")) > 0
      BY <1>2, <1>8
    <3> QED BY <3>1, <3>2
  <2>2. PICK id \in Ids : Treatment(id, today) = "EVALUATED"
    BY <2>1 DEF Put
  <2>3. For(id) = {}
    BY <1>8, <2>2 DEF For
  <2> QED BY <1>1, <1>4, <2>2, <2>3, SilenceCounts
<1> QED BY <1>5, <1>6, <1>7, <1>8

\* The report is whole for every rulebook the schema admits, deadlines that run
\* backwards included (execute/engine.py, health.py).
THEOREM ReportAlwaysWhole == EngineSpec => []ReportIsWhole
<1>1. EngineInv => ReportIsWhole
  BY ScreensNow, UncountedNow DEF EngineInv, ReportIsWhole
<1> QED BY <1>1, InvAlways, PTL
=============================================================================
