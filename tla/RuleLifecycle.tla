--------------------------- MODULE RuleLifecycle ---------------------------
(***************************************************************************)
(* certify/lifecycle.py: the rule registry and its audit ledger, one call  *)
(* at a time.  What several request threads do to the same registry is     *)
(* the subject of RegistryThreads.                                         *)
(*                                                                         *)
(* A body stands for everything a signature covers except the version      *)
(* number (Obligation.signing_payload); Blocked are the bodies with at     *)
(* least one blocking issue.  The MAC is taken to be collision free, so a  *)
(* signature is the record of what was signed.                             *)
(***************************************************************************)
EXTENDS Integers, Sequences, FiniteSets

CONSTANTS
  Rules,        \* obligation ids
  Bodies,       \* normative contents of a rule
  Blocked,      \* the bodies blocking_issues() refuses
  NoBody,       \* the body of a rule nobody has drafted
  NoSignature,  \* certification = None
  MaxLedger,    \* bound on the number of transitions
  MaxTime       \* bound on the clock

Number == Nat \X Nat                      \* 1.minor.patch
FirstNumber == <<0, 0>>                   \* "1.0.0"
Signature == [body : Bodies, number : Number]

ASSUME LifecycleAssumption ==
  /\ Blocked \subseteq Bodies
  /\ NoBody \notin Bodies
  /\ NoSignature \notin Signature
  /\ MaxLedger \in Nat
  /\ MaxTime \in Nat

VARIABLES
  versions,     \* Rules -> every version of the rule, oldest first
  ledger,       \* the transitions, oldest first
  now           \* the UTC clock entries are stamped with

vars == <<versions, ledger, now>>

Status == {"PROPOSED", "CERTIFIED", "REJECTED", "SUPERSEDED"}
Transition == Status \cup {"AMENDED"}

Version == [status : Status, body : Bodies, number : Number,
            signature : Signature \cup {NoSignature}]

Entry == [rule : Rules, transition : Transition, to : Status,
          number : Number, at : Nat]

TypeOK ==
  /\ versions \in [Rules -> Seq(Version)]
  /\ ledger \in Seq(Entry)
  /\ now \in Nat
-----------------------------------------------------------------------------
(* Reading the registry.  The operators take the versions and the ledger   *)
(* as arguments, so that they also describe the state after a step.        *)

Known(r) == versions[r] # <<>>
Current(r) == versions[r][Len(versions[r])]
Is(r, status) == Known(r) /\ Current(r).status = status

\* How many of the first k transitions of a log concern r.
CountIn(log, r, k) == Cardinality({i \in 1..k : log[i].rule = r})

\* Mutant: a transition stamped exactly m is missed.
HappenedBefore(log, r, m) ==
  Cardinality({i \in 1..Len(log) : log[i].rule = r /\ log[i].at < m})

\* How many transitions of r had happened by the moment m.
Happened(log, r, m) ==
  Cardinality({i \in 1..Len(log) : log[i].rule = r /\ log[i].at <= m})

Smaller(a, b) == IF a <= b THEN a ELSE b

\* Mutant: the version is looked up by the number the entry quotes.
AsOfByNumber(vs, log, m) ==
  [r \in {x \in Rules : Happened(log, x, m) > 0 /\ vs[x] # <<>>} |->
     LET due == {i \in 1..Len(log) : log[i].rule = r /\ log[i].at <= m}
         last == CHOOSE i \in due : \A j \in due : j <= i
         named == {k \in 1..Len(vs[r]) : vs[r][k].number = log[last].number}
     IN vs[r][CHOOSE k \in named : \A l \in named : l <= k]]

\* RuleRegistry.as_of: replay by position, never by version number.
AsOfIn(vs, log, m) ==
  [r \in {x \in Rules : Happened(log, x, m) > 0 /\ vs[x] # <<>>} |->
     vs[r][Smaller(Happened(log, r, m), Len(vs[r]))]]

AsOf(m) == AsOfIn(versions, ledger, m)

\* Obligation.verify_signature: the MAC still matches the content.
Verifies(v) == v.signature = [body |-> v.body, number |-> v.number]
-----------------------------------------------------------------------------
(* Transitions.  Each records first and stores second; nothing is ever     *)
(* overwritten.                                                            *)

Room(n) == Len(ledger) + n <= MaxLedger

Logged(log, r, transition, v) ==
  Append(log, [rule |-> r, transition |-> transition, to |-> v.status,
               number |-> v.number, at |-> now])

Stored(vs, r, v) == [vs EXCEPT ![r] = Append(@, v)]

Record(r, transition, v) ==
  /\ ledger' = Logged(ledger, r, transition, v)
  /\ versions' = Stored(versions, r, v)
  /\ UNCHANGED now

Draft(b) == [status |-> "PROPOSED", body |-> b, number |-> FirstNumber,
             signature |-> NoSignature]

\* Refused only when the rule is signed today: a draft lands on top of a
\* rejected rule, and of a proposal an officer has already amended.
Propose(r, b) ==
  /\ Room(1)
  /\ ~Is(r, "CERTIFIED")
  /\ Record(r, "PROPOSED", Draft(b))

Certified(v) ==
  [v EXCEPT !.status = "CERTIFIED",
            !.signature = [body |-> v.body, number |-> v.number]]

Certify(r) ==
  /\ Room(1)
  /\ Known(r)
  /\ Current(r).status \notin {"CERTIFIED", "REJECTED"}
  /\ Current(r).body \notin Blocked
  /\ Record(r, "CERTIFIED", Certified(Current(r)))

Rejected(v) == [v EXCEPT !.status = "REJECTED"]

\* Mutant: a signed rule may be rejected.
RejectSigned(r) ==
  /\ Room(1)
  /\ Known(r)
  /\ Record(r, "REJECTED", Rejected(Current(r)))

Reject(r) ==
  /\ Room(1)
  /\ Known(r)
  /\ Current(r).status # "CERTIFIED"
  /\ Record(r, "REJECTED", Rejected(Current(r)))

BumpVersion(n, level) ==
  IF level = "patch" THEN <<n[1], n[2] + 1>> ELSE <<n[1] + 1, 0>>

Levels == {"minor", "patch"}

\* Mutant: the copy keeps the certification of the version it came from.
AmendedKeepsSignature(v, b, level) ==
  [v EXCEPT !.status = "PROPOSED", !.body = b,
            !.number = BumpVersion(v.number, level)]

Amended(v, b, level) ==
  [status |-> "PROPOSED", body |-> b, number |-> BumpVersion(v.number, level),
   signature |-> NoSignature]

Superseded(v) == [v EXCEPT !.status = "SUPERSEDED"]

AmendUnsigned(r, b, level) ==
  /\ Room(1)
  /\ Known(r)
  /\ Current(r).status # "CERTIFIED"
  /\ Record(r, "AMENDED", Amended(Current(r), b, level))

\* Mutants of the two-version transition: the superseded copy is stored
\* without an entry; the two versions are stored in the wrong order; the
\* signed version is marked superseded where it stands.
SupersedeUnlogged(r, b, level) ==
  LET old == Current(r)
      new == Amended(old, b, level)
  IN /\ Room(2)
     /\ Is(r, "CERTIFIED")
     /\ ledger' = Logged(ledger, r, "AMENDED", new)
     /\ versions' = Stored(Stored(versions, r, Superseded(old)), r, new)
     /\ UNCHANGED now

SupersedeSwapped(r, b, level) ==
  LET old == Current(r)
      new == Amended(old, b, level)
  IN /\ Room(2)
     /\ Is(r, "CERTIFIED")
     /\ ledger' = Logged(Logged(ledger, r, "AMENDED", new),
                         r, "SUPERSEDED", Superseded(old))
     /\ versions' = Stored(Stored(versions, r, new), r, Superseded(old))
     /\ UNCHANGED now

SupersedeInPlace(r, b, level) ==
  LET old == Current(r)
      new == Amended(old, b, level)
      n == Len(versions[r])
  IN /\ Room(2)
     /\ Is(r, "CERTIFIED")
     /\ ledger' = Logged(ledger, r, "AMENDED", new)
     /\ versions' = Stored([versions EXCEPT ![r][n] = Superseded(old)], r, new)
     /\ UNCHANGED now

\* A signed rule gains two versions: the superseded copy, which keeps its
\* signature, and the new proposal.
AmendSigned(r, b, level) ==
  LET old == Current(r)
      new == Amended(old, b, level)
  IN /\ Room(2)
     /\ Is(r, "CERTIFIED")
     /\ ledger' = Logged(Logged(ledger, r, "SUPERSEDED", Superseded(old)),
                         r, "AMENDED", new)
     /\ versions' = Stored(Stored(versions, r, Superseded(old)), r, new)
     /\ UNCHANGED now

\* RuleRegistry.amend; the officer's edit may be any body that validates.
Amend(r, b, level) == AmendUnsigned(r, b, level) \/ AmendSigned(r, b, level)

Tick ==
  /\ now < MaxTime
  /\ now' = now + 1
  /\ UNCHANGED <<versions, ledger>>

Init ==
  /\ versions = [r \in Rules |-> <<>>]
  /\ ledger = <<>>
  /\ now = 0

Next ==
  \/ \E r \in Rules, b \in Bodies : Propose(r, b)
  \/ \E r \in Rules : Certify(r)
  \/ \E r \in Rules : Reject(r)
  \/ \E r \in Rules, b \in Bodies, level \in Levels : Amend(r, b, level)
  \/ Tick

Spec == Init /\ [][Next]_vars
-----------------------------------------------------------------------------
(* Properties.                                                             *)

\* as_of replays by counting, which is right only if the Nth ledger entry
\* for a rule produced the Nth version of it (lifecycle.py:96-101).
Aligned(vs, log) ==
  /\ \A r \in Rules : CountIn(log, r, Len(log)) = Len(vs[r])
  /\ \A i \in 1..Len(log) :
       LET v == vs[log[i].rule][CountIn(log, log[i].rule, i)]
       IN v.status = log[i].to /\ v.number = log[i].number

NthEntryNthVersion == Aligned(versions, ledger)

\* A signature sits on signed or superseded versions only, covers them still,
\* and no such version has an open question.
Sound(v) ==
  IF v.status \in {"CERTIFIED", "SUPERSEDED"}
    THEN Verifies(v) /\ v.body \notin Blocked
    ELSE v.signature = NoSignature

SoundHistory(vs) == \A r \in Rules : \A i \in 1..Len(vs[r]) : Sound(vs[r][i])

\* Every version that was ever signed was free of blocking issues and is still
\* covered by its signature, and nothing unsigned carries one
\* (verify_signatures reports no tampered rule).
SignaturesHold == SoundHistory(versions)

\* A superseded version is always followed by the version that replaced it,
\* so the text in force is never a superseded one.
SupersededIsReplaced ==
  \A r \in Rules : \A i \in 1..Len(versions[r]) :
    versions[r][i].status = "SUPERSEDED" =>
      i < Len(versions[r]) /\ versions[r][i + 1].status = "PROPOSED"

\* Asked for the present, as_of answers with the rulebook in force.
PresentIsCurrent ==
  AsOf(now) = [r \in {x \in Rules : Known(x)} |-> Current(r)]

\* What as_of answers about a moment that has passed never changes again,
\* whatever is proposed, signed, refused or amended later.
PastIsFixed ==
  [][\A m \in 0..MaxTime : m < now => AsOf(m)' = AsOf(m)]_vars

\* No version, once stored, is altered or dropped by a later transition.
HistoryOnlyGrows ==
  [][\A r \in Rules :
       /\ Len(versions[r]) <= Len(versions'[r])
       /\ \A i \in 1..Len(versions[r]) : versions'[r][i] = versions[r][i]]_vars
-----------------------------------------------------------------------------
(* The refinement of RulebookPromise.                                      *)

\* Everything ever signed, as (rule, body) pairs.
Archive(vs) ==
  {s \in [rule : Rules, body : Bodies] :
     \E i \in 1..Len(vs[s.rule]) :
       /\ vs[s.rule][i].signature # NoSignature
       /\ vs[s.rule][i].body = s.body}

Promise == INSTANCE RulebookPromise WITH
  standing <- [r \in Rules |-> IF Known(r) THEN Current(r).status ELSE "NONE"],
  text <- [r \in Rules |-> IF Known(r) THEN Current(r).body ELSE NoBody],
  archive <- Archive(versions)

\* The registry keeps the rulebook's promise: a text with an open question is
\* never signed, a signed text gives way only to an amendment, and every
\* signature stays in the archive (lifecycle.py:8-16).
KeepsPromise == Promise!PromiseSpec
=============================================================================
