-------------------------- MODULE RegistryThreads --------------------------
(***************************************************************************)
(* web/app.py: the request threads that certify, reject and edit rules of  *)
(* one Workbench.  The routes are plain functions, so the server runs them *)
(* in a thread pool; they share the registry and its ledger, and nothing   *)
(* locks either.  A call reads the current version, builds a ledger entry, *)
(* appends it, stores the version and saves the whole registry; another    *)
(* thread may run between any two of these steps.                          *)
(*                                                                         *)
(* A hash is a value that names one entry and no other.                    *)
(***************************************************************************)
EXTENDS Integers, FiniteSets, SequencesExt

CONSTANTS
  Threads,                                  \* threads serving requests
  Rules, Bodies, Blocked, NoBody, NoSignature, MaxLedger, MaxTime,
                                            \* as in RuleLifecycle
  NoThread,                                 \* the lock file does not exist
  Genesis,                                  \* the hash before the first entry
  MaxCalls                                  \* bound on the requests served

ASSUME ThreadsAssumption ==
  /\ NoThread \notin Threads
  /\ IsFiniteSet(Threads) /\ IsFiniteSet(Rules)
  /\ MaxCalls \in Nat

\* RuleLifecycle's bound on transitions is never met: there are at most two for
\* every rule to begin with, and two for every call.
ASSUME RoomAssumption ==
  MaxLedger \in Nat /\ 2 * Cardinality(Rules) + 2 * MaxCalls <= MaxLedger

VARIABLES
  versions,   \* RuleRegistry._versions of the shared Workbench
  ledger,     \* its AuditLedger
  disk,       \* rules.json: the versions and the ledger last written
  lock,       \* rules.json.lock: who created it
  pc,         \* Threads -> where the thread's call has got to
  rule,       \* Threads -> the rule its call is about
  todo,       \* Threads -> the versions the call has still to store
  entry,      \* Threads -> the ledger entry under construction
  copy,       \* Threads -> the payload _save_registry has collected
  call,       \* Threads -> which request the thread serves
  alone,      \* the thread whose call nobody has overlapped so far, if any
  served      \* requests taken so far

memory == <<versions, ledger>>
files == <<disk, lock>>
marks == <<call, alone, served>>
locals == <<pc, rule, todo, entry, copy, marks>>
vars == <<memory, files, locals>>

-----------------------------------------------------------------------------
(* The registry a caller who sees only finished calls would describe: an   *)
(* entry whose version is not stored yet is hidden, and so is a superseded *)
(* version whose replacement is not.                                       *)

WholeVersions ==
  [r \in Rules |-> IF Last(versions[r]).status = "SUPERSEDED"
                     THEN Front(versions[r])
                     ELSE versions[r]]

StoredLedger ==
  IF \E t \in Threads : pc[t] = "push" THEN Front(ledger) ELSE ledger

WholeLedger ==
  LET log == IF Last(StoredLedger).to = "SUPERSEDED"
               THEN Front(StoredLedger)
               ELSE StoredLedger
  IN [i \in DOMAIN log |->
        [rule |-> log[i].rule, transition |-> log[i].transition, to |-> log[i].to,
         number |-> log[i].number, at |-> 0]]

Registry == INSTANCE RuleLifecycle WITH
  versions <- WholeVersions, ledger <- WholeLedger, now <- 0

-----------------------------------------------------------------------------
(* Types.                                                                  *)

HashOf(request, transition) == [request |-> request, transition |-> transition]

Hash == [request : Int, transition : Registry!Transition] \cup {Genesis}

Entry == [rule : Rules, transition : Registry!Transition,
          to : Registry!Status, number : Registry!Number,
          sequence : Nat, previous : Hash, hash : Hash]

Registries == [versions : [Rules -> Seq(Registry!Version)], ledger : Seq(Entry)]

Places == {"idle", "length", "head", "append", "push", "rules", "entries",
           "lock", "write", "unlock"}

TypeOK ==
  /\ versions \in [Rules -> Seq(Registry!Version)]
  /\ ledger \in Seq(Entry)
  /\ disk \in Registries
  /\ lock \in Threads \cup {NoThread}
  /\ pc \in [Threads -> Places]
  /\ rule \in [Threads -> Rules]
  /\ todo \in [Threads -> Seq([transition : Registry!Transition,
                               version : Registry!Version])]
  /\ entry \in [Threads -> [sequence : Nat, previous : Hash]]
  /\ copy \in [Threads -> Registries]
  /\ call \in [Threads -> 0..MaxCalls]
  /\ alone \in Threads \cup {NoThread}
  /\ served \in 0..MaxCalls

-----------------------------------------------------------------------------
(* One call.                                                               *)

Goes(t, from, to) == pc[t] = from /\ pc' = [pc EXCEPT ![t] = to]

\* The call returns or raises, and its locals are gone.
NoEntry == [sequence |-> 0, previous |-> Genesis]
NoCopy == [versions |-> [r \in Rules |-> <<>>], ledger |-> <<>>]

Leaves(t, from) ==
  /\ Goes(t, from, "idle")
  /\ call' = [call EXCEPT ![t] = 0]
  /\ alone' = NoThread
  /\ UNCHANGED served
  /\ entry' = [entry EXCEPT ![t] = NoEntry]
  /\ copy' = [copy EXCEPT ![t] = NoCopy]

Store(transition, version) == [transition |-> transition, version |-> version]

\* What a call on the current version v will store, when it is not refused.
Plans(v) ==
  (IF v.status \notin {"CERTIFIED", "REJECTED"} /\ v.body \notin Blocked
     THEN {<<Store("CERTIFIED", Registry!Certified(v))>>} ELSE {})
  \cup
  (IF v.status # "CERTIFIED"
     THEN {<<Store("REJECTED", Registry!Rejected(v))>>} ELSE {})
  \cup
  {(IF v.status = "CERTIFIED"
      THEN <<Store("SUPERSEDED", Registry!Superseded(v))>> ELSE <<>>)
     \o <<Store("AMENDED", Registry!Amended(v, b, level))>>
     : b \in Bodies, level \in Registry!Levels}

\* registry.certify / reject / amend: the checks are made once, against the
\* version that is current when the call begins.
Begin(t, r) ==
  /\ Goes(t, "idle", "length")
  /\ served < MaxCalls
  /\ \E plan \in Plans(Last(versions[r])) : todo' = [todo EXCEPT ![t] = plan]
  /\ rule' = [rule EXCEPT ![t] = r]
  /\ served' = served + 1
  /\ call' = [call EXCEPT ![t] = served']
  /\ alone' = IF \A u \in Threads : pc[u] = "idle" THEN t ELSE NoThread
  /\ UNCHANGED <<memory, files, entry, copy>>

\* AuditLedger.append: sequence=len(self._entries) ...
ReadLength(t) ==
  /\ Goes(t, "length", "head")
  /\ entry' = [entry EXCEPT ![t].sequence = Len(ledger)]
  /\ UNCHANGED <<memory, files, rule, todo, copy, marks>>

\* ... previous_hash=self.head ...
ReadHead(t) ==
  /\ Goes(t, "head", "append")
  /\ entry' = [entry EXCEPT ![t].previous = Last(ledger).hash]
  /\ UNCHANGED <<memory, files, rule, todo, copy, marks>>

\* ... and the entry is appended.
AppendEntry(t) ==
  LET next == Head(todo[t])
  IN /\ Goes(t, "append", "push")
     /\ ledger' = Append(ledger,
          [rule |-> rule[t], transition |-> next.transition,
           to |-> next.version.status, number |-> next.version.number,
           sequence |-> entry[t].sequence, previous |-> entry[t].previous,
           hash |-> HashOf(call[t], next.transition)])
     /\ UNCHANGED <<versions, files, rule, todo, entry, copy, marks>>

\* Mutant: the version takes the place of the one the call looked at.
PushReplaces(t) ==
  /\ pc[t] = "push"
  /\ versions' = [versions EXCEPT
                    ![rule[t]] = Append(Front(@), Head(todo[t]).version)]
  /\ todo' = [todo EXCEPT ![t] = Tail(@)]
  /\ pc' = [pc EXCEPT ![t] = IF Len(todo[t]) > 1 THEN "length" ELSE "rules"]
  /\ UNCHANGED <<ledger, files, rule, entry, copy, marks>>

\* RuleRegistry._push; an amendment of a signed rule then starts over with its
\* second entry, any other call goes on to Workbench.save.
Push(t) ==
  /\ pc[t] = "push"
  /\ versions' = [versions EXCEPT ![rule[t]] = Append(@, Head(todo[t]).version)]
  /\ todo' = [todo EXCEPT ![t] = Tail(@)]
  /\ pc' = [pc EXCEPT ![t] = IF Len(todo[t]) > 1 THEN "length" ELSE "rules"]
  /\ UNCHANGED <<ledger, files, rule, entry, copy, marks>>

\* _save_registry collects the versions first ...
CopyRules(t) ==
  /\ Goes(t, "rules", "entries")
  /\ copy' = [copy EXCEPT ![t].versions = versions]
  /\ UNCHANGED <<memory, files, rule, todo, entry, marks>>

\* Mutant: the ledger is copied as it was when the call made its entry.
CopyLedgerSeen(t) ==
  /\ Goes(t, "entries", "lock")
  /\ copy' = [copy EXCEPT ![t].ledger = SubSeq(ledger, 1, entry[t].sequence + 1)]
  /\ UNCHANGED <<memory, files, rule, todo, entry, marks>>

\* ... the ledger second, and only then asks for the lock.
CopyLedger(t) ==
  /\ Goes(t, "entries", "lock")
  /\ copy' = [copy EXCEPT ![t].ledger = ledger]
  /\ UNCHANGED <<memory, files, rule, todo, entry, marks>>

\* store_lock: creating the lock file is the lock.
Acquire(t) ==
  /\ Goes(t, "lock", "write")
  /\ lock = NoThread
  /\ lock' = t
  /\ UNCHANGED <<memory, disk, rule, todo, entry, copy, marks>>

\* Somebody else held it for ten seconds: StoreBusyError.  What the call did
\* to the registry stays.
GiveUp(t) ==
  /\ Leaves(t, "lock")
  /\ lock # NoThread
  /\ UNCHANGED <<memory, files, rule, todo>>

\* _write_atomically.
Write(t) ==
  /\ Goes(t, "write", "unlock")
  /\ disk' = copy[t]
  /\ UNCHANGED <<memory, lock, rule, todo, entry, copy, marks>>

\* The write raises; the lock file is removed all the same.
WriteFails(t) ==
  /\ Goes(t, "write", "unlock")
  /\ UNCHANGED <<memory, files, rule, todo, entry, copy, marks>>

\* Mutant: the lock file stays behind.
ReleaseForgets(t) ==
  /\ Leaves(t, "unlock")
  /\ UNCHANGED <<memory, files, rule, todo>>

Release(t) ==
  /\ Leaves(t, "unlock")
  /\ lock' = NoThread
  /\ UNCHANGED <<memory, disk, rule, todo>>

-----------------------------------------------------------------------------
(* When the threads start, the store holds a compiled proposal of every     *)
(* rule, and an officer has signed some of them.                           *)

Opening(body, signed) ==
  [i \in 1..Cardinality(Rules) |->
     LET r == SetToSeq(Rules)[i]
     IN <<r, Store("PROPOSED", Registry!Draft(body[r]))>>]
  \o
  [i \in 1..Cardinality(signed) |->
     LET r == SetToSeq(signed)[i]
     IN <<r, Store("CERTIFIED", Registry!Certified(Registry!Draft(body[r])))>>]

OpeningHash(i, acts) == HashOf(-i, acts[i][2].transition)

OpeningEntry(i, acts) ==
  LET stored == acts[i][2]
  IN [rule |-> acts[i][1], transition |-> stored.transition,
      to |-> stored.version.status, number |-> stored.version.number,
      sequence |-> i - 1,
      previous |-> IF i = 1 THEN Genesis ELSE OpeningHash(i - 1, acts),
      hash |-> OpeningHash(i, acts)]

Init ==
  \E body \in [Rules -> Bodies], signed \in SUBSET Rules :
    LET acts == Opening(body, signed)
    IN /\ \A r \in signed : body[r] \notin Blocked
       /\ versions = [r \in Rules |->
            LET draft == Registry!Draft(body[r])
            IN IF r \in signed THEN <<draft, Registry!Certified(draft)>> ELSE <<draft>>]
       /\ ledger = [i \in DOMAIN acts |-> OpeningEntry(i, acts)]
       /\ disk = [versions |-> versions, ledger |-> ledger]
       /\ lock = NoThread
       /\ pc = [t \in Threads |-> "idle"]
       /\ rule = [t \in Threads |-> SetToSeq(Rules)[1]]
       /\ todo = [t \in Threads |-> <<>>]
       /\ entry = [t \in Threads |-> NoEntry]
       /\ copy = [t \in Threads |-> NoCopy]
       /\ call = [t \in Threads |-> 0]
       /\ alone = NoThread
       /\ served = 0

\* Everything a call does after it has begun.
Continue(t) ==
  \/ ReadLength(t)
  \/ ReadHead(t)
  \/ AppendEntry(t)
  \/ Push(t)
  \/ CopyRules(t)
  \/ CopyLedger(t)
  \/ Acquire(t)
  \/ GiveUp(t)
  \/ Write(t)
  \/ WriteFails(t)
  \/ Release(t)

Next == \E t \in Threads : Continue(t) \/ \E r \in Rules : Begin(t, r)

Spec == Init /\ [][Next]_vars

\* The operating system runs every thread; requests need not come.
FairSpec == Spec /\ \A t \in Threads : WF_vars(Continue(t))
-----------------------------------------------------------------------------
(* Properties.                                                             *)

\* How often a status and number occur among the versions of a rule, and
\* among the entries of a log.
Stored(vs, r, status, number) ==
  Cardinality({i \in DOMAIN vs[r] : vs[r][i].status = status
                                    /\ vs[r][i].number = number})

Entered(log, r, status, number) ==
  Cardinality({i \in DOMAIN log : /\ log[i].rule = r
                                  /\ log[i].to = status
                                  /\ log[i].number = number})

Recorded(vs, log) ==
  \A r \in Rules : \A i \in DOMAIN vs[r] :
    LET v == vs[r][i]
    IN Stored(vs, r, v.status, v.number) <= Entered(log, r, v.status, v.number)

\* Nothing is unrecorded (lifecycle.py:14-16), in memory and in the store:
\* however the threads interleave, no version is there without its entry.
NothingUnrecorded ==
  Recorded(versions, ledger) /\ Recorded(disk.versions, disk.ledger)

\* The store is always something the registry once was, never a mixture that
\* drops or reorders what it kept.
StoreIsPast ==
  /\ IsPrefix(disk.ledger, ledger)
  /\ \A r \in Rules : IsPrefix(disk.versions[r], versions[r])

\* Every request is answered, and leaves the store unlocked behind it
\* (test_hardening.py:71-82).
Answered == \A t \in Threads : pc[t] # "idle" ~> pc[t] = "idle" /\ lock # t

\* A call nobody overlaps is one transition of RuleLifecycle, each of its steps
\* but one leaving the finished registry as it was.
CallIsTransition == [][alone # NoThread => Registry!Next]_(Registry!vars)

\* What a save copies while other threads go on is a state of the registry with
\* its whole account.
StoreIsSound == NothingUnrecorded /\ StoreIsPast
=============================================================================
