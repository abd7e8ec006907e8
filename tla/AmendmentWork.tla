---------------------------- MODULE AmendmentWork ----------------------------
(***************************************************************************)
(* What an amended circular asks of a firm.  Two editions are compared     *)
(* clause by clause (diff/tree_diff.py), the comparison is laid over the   *)
(* rules (diff/impact.py, analyse/references.py, change.py), and a person  *)
(* approves it as one plan or raises its actions one by one                *)
(* (orchestrate.py, web/app.py).  Each action becomes a task that only the *)
(* rulebook itself can close (remediate/amendment.py).                     *)
(*                                                                         *)
(* Requests read the plans and the tasks, change their copies and write    *)
(* each file back whole, without a lock.  An officer's act on a rule and a *)
(* finished compile are atomic here; RulebookStore takes them apart.       *)
(***************************************************************************)
EXTENDS Integers, FiniteSets, FiniteSetsExt

CONSTANTS
  Threads,     \* request threads
  Clauses,     \* clause numbers, in the order they sort
  Texts,       \* what a clause may say
  Gone,        \* the clause is not in that edition
  None,
  Names,       \* Texts -> the clause numbers a text refers to
  Duties,      \* the texts an extractor may draw a rule from
  Editions,    \* pairs of an edition and the later one, each [Clauses -> Texts or Gone]
  MaxActs,     \* bound on officers' acts and compiles
  MaxCalls,    \* bound on requests
  MaxTime,     \* bound on the clock
  MaxCrashes   \* bound on crashes of the server

Words == Texts \cup {Gone}

ASSUME AmendmentAssumption ==
  /\ Clauses \subseteq Nat /\ IsFiniteSet(Clauses)
  /\ Gone \notin Texts
  /\ Names \in [Texts -> SUBSET Clauses] /\ Duties \subseteq Texts
  /\ Editions \subseteq [Clauses -> Words] \X [Clauses -> Words]
  /\ MaxActs \in Nat /\ MaxCalls \in Nat /\ MaxTime \in Nat /\ MaxCrashes \in Nat

VARIABLES
  edition,     \* the two editions compared, the earlier one first
  rules,       \* the rule compiled from each clause; its anchor is the clause
  now,         \* the clock
  tasks,       \* remediation.json
  plan,        \* plans.json: the decision on this amendment, or None
  pc, call,    \* Threads -> where the request has got to, what it was asked
  copy,        \* Threads -> its RemediationStore
  decided,     \* Threads -> its PlanStore
  alone,       \* whether requests have met no other request so far
  unread,      \* re-read tasks raised and not followed by a signature yet
  acts, calls, crashes

requests == <<pc, call, copy, decided>>
vars == <<edition, rules, now, tasks, plan, requests, alone, unread,
          acts, calls, crashes>>

-----------------------------------------------------------------------------
(* diff_trees: what became of each clause of the edition b in the edition a. *)

Went(b, a) == {c \in Clauses : b[c] # Gone /\ a[c] = Gone}
Came(b, a) == {c \in Clauses : b[c] = Gone /\ a[c] # Gone}

\* Where the words of a clause that went may have landed: the first is taken.
Landings(b, a, c) == {d \in Came(b, a) : a[d] = b[c]}
Moved(b, a) == {c \in Went(b, a) : Landings(b, a, c) # {}}
NowAt(b, a, c) == Min(Landings(b, a, c))
Landed(b, a) == {NowAt(b, a, c) : c \in Moved(b, a)}

\* Mutant: words found under another number count as words kept.
DiffByWords(b, a) ==
  [c \in Clauses |->
     CASE c \in Moved(b, a) -> "UNCHANGED"
       [] c \in Went(b, a) \ Moved(b, a) -> "REMOVED"
       [] c \in Landed(b, a) -> "LANDED"
       [] c \in Came(b, a) \ Landed(b, a) -> "ADDED"
       [] OTHER -> IF b[c] = a[c] THEN "UNCHANGED" ELSE "MODIFIED"]

\* A landing is part of the entry on where it came from.
Diff(b, a) ==
  [c \in Clauses |->
     CASE c \in Moved(b, a) -> "RENUMBERED"
       [] c \in Went(b, a) \ Moved(b, a) -> "REMOVED"
       [] c \in Landed(b, a) -> "LANDED"
       [] c \in Came(b, a) \ Landed(b, a) -> "ADDED"
       [] OTHER -> IF b[c] = a[c] THEN "UNCHANGED" ELSE "MODIFIED"]

-----------------------------------------------------------------------------
(* build_graph on the later edition a, and dependents_of.                  *)

\* A pointer at a clause the edition lacks is broken and no link.
Cites(a, c, d) ==
  /\ a[c] # Gone /\ a[d] # Gone
  /\ d \in Names[a[c]] /\ c # d

DependentsOf(a, d) ==
  LET within[n \in 0..4] ==
        IF n = 0 THEN {d}
        ELSE within[n - 1] \cup {c \in Clauses : \E e \in within[n - 1] : Cites(a, c, e)}
  IN within[4] \ {d}

-----------------------------------------------------------------------------
(* assess_impact and plan_for_firm.                                        *)

Statuses == {"NONE", "PROPOSED", "CERTIFIED", "REJECTED"}
Is(c, status) == rules[c].status = status
Live(c) == Is(c, "PROPOSED") \/ Is(c, "CERTIFIED")

HitBy(diff) == {c \in Clauses : diff[c] \in {"MODIFIED", "REMOVED", "RENUMBERED"}}

\* What each comparison finds, whatever the rules: the diff and the clauses that
\* a clause it hit is cited by.
Comparison ==
  [e \in Editions |->
     LET diff == Diff(e[1], e[2])
     IN [diff |-> diff,
         reread |-> (UNION {DependentsOf(e[2], d) : d \in HitBy(diff)}) \ HitBy(diff)]]

before == edition[1]
after == edition[2]
Change(c) == Comparison[edition].diff[c]
Hit == HitBy(Comparison[edition].diff)
Reread == Comparison[edition].reread

\* What a rule that is hit is to be done with.
Kind(c) ==
  CASE Change(c) = "MODIFIED"   -> "RECERTIFY"
    [] Change(c) = "REMOVED"    -> "WITHDRAW"
    [] Change(c) = "RENUMBERED" -> "REPOINT"

\* An action is known by its kind and its rule, here by its clause.  An added
\* clause is to be assessed, and a rule made from it since may also be one to
\* read again: those are two actions.
Kinds == {"RECERTIFY", "WITHDRAW", "REPOINT", "REREAD", "ASSESS_NEW"}
Action == [kind : Kinds, clause : Clauses]

\* A proposal on a clause that changed is left to the next compile; one that is
\* to be read again is not.
Actions ==
  {[kind |-> Kind(c), clause |-> c] : c \in {d \in Hit : Is(d, "CERTIFIED")}}
  \cup {[kind |-> "REREAD", clause |-> c] : c \in {d \in Clauses : d \in Reread /\ Live(d)}}
  \cup {[kind |-> "ASSESS_NEW", clause |-> c] :
          c \in {d \in Clauses : Change(d) = "ADDED" /\ Is(d, "NONE")}}

-----------------------------------------------------------------------------
(* Values.                                                                 *)

Rule == [status : Statuses, text : Words, at : 0..MaxTime]
TaskId == Action \X (1..MaxCalls)
Task == [status : {"OPEN", "READY_FOR_RECHECK", "CLOSED"}, raised : 0..MaxTime]
NoTasks == [id \in {} |-> None]

\* asked is what the decision was taken on.
Decision == [status : {"APPROVED", "DECLINED"}, asked : SUBSET Action,
             ids : SUBSET TaskId]

Call == [what : {"approve", "decline", "raise"}, actions : SUBSET Action,
         ids : SUBSET TaskId]
        \cup [what : {"recheck", "attach"}, task : TaskId]

AreTasks(s) == DOMAIN s \subseteq TaskId /\ \A id \in DOMAIN s : s[id] \in Task

TypeOK ==
  /\ edition \in Editions
  /\ rules \in [Clauses -> Rule]
  /\ now \in 0..MaxTime
  /\ AreTasks(tasks) /\ plan \in Decision \cup {None}
  /\ pc \in [Threads -> {"idle", "plans", "load", "work", "save", "decide"}]
  /\ call \in [Threads -> Call \cup {None}]
  /\ DOMAIN copy = Threads /\ \A t \in Threads : AreTasks(copy[t])
  /\ decided \in [Threads -> Decision \cup {None}]
  /\ alone \in BOOLEAN /\ unread \subseteq TaskId
  /\ acts \in 0..MaxActs /\ calls \in 0..MaxCalls /\ crashes \in 0..MaxCrashes

-----------------------------------------------------------------------------
(* open_for_action, for every action in as.                                *)

IsOpen(task) == task.status # "CLOSED"
TasksOf(s, a) == {id \in DOMAIN s : id[1] = a}

\* Mutant: only a task that has evidence counts as one that exists.
UnfinishedAttached(s, a) == {id \in TasksOf(s, a) : s[id].status = "READY_FOR_RECHECK"}
Unfinished(s, a) == {id \in TasksOf(s, a) : IsOpen(s[id])}

IdFor(s, a) ==
  IF Unfinished(s, a) # {} THEN <<a, Min({id[2] : id \in Unfinished(s, a)})>>
  ELSE <<a, Cardinality(TasksOf(s, a)) + 1>>

IdsFor(s, as) == {IdFor(s, a) : a \in as}

RaiseAll(s, as) ==
  [id \in DOMAIN s \cup IdsFor(s, as) |->
     IF id \in DOMAIN s THEN s[id] ELSE [status |-> "OPEN", raised |-> now]]

-----------------------------------------------------------------------------
(* _verdict: whether the rulebook and the later edition say it is done.    *)

\* Where the rule has to be anchored, and is not after a renumbering: no act
\* moves a rule to another clause.
Target(a) ==
  IF a.kind = "REPOINT" THEN NowAt(before, after, a.clause) ELSE a.clause

\* Mutant: a signature made when the task was raised will do.
DoneSinceRaised(a, raised) ==
  LET c == a.clause
  IN CASE a.kind = "WITHDRAW"   -> ~Live(c)
       [] a.kind = "ASSESS_NEW" -> Is(c, "CERTIFIED") \/ Is(c, "REJECTED")
       [] a.kind = "REREAD"     -> Is(c, "CERTIFIED") /\ rules[c].at >= raised
       [] OTHER -> /\ Is(c, "CERTIFIED") /\ Target(a) = c
                   /\ rules[c].text = after[c]

Done(a, raised) ==
  LET c == a.clause
  IN CASE a.kind = "WITHDRAW"   -> ~Live(c)
       [] a.kind = "ASSESS_NEW" -> Is(c, "CERTIFIED") \/ Is(c, "REJECTED")
       [] a.kind = "REREAD"     -> Is(c, "CERTIFIED") /\ rules[c].at > raised
       [] OTHER -> /\ Is(c, "CERTIFIED") /\ Target(a) = c
                   /\ rules[c].text = after[c]

Rechecked(s, id) ==
  IF Done(id[1], s[id].raised) THEN [s EXCEPT ![id].status = "CLOSED"] ELSE s

-----------------------------------------------------------------------------
(* Requests.                                                               *)

Undisturbed == \A t \in Threads : pc[t] = "idle"

\* The comparison is made when the request comes in.
Ask(t, what, at) ==
  /\ pc[t] = "idle"
  /\ alone' = (alone /\ Undisturbed)
  /\ calls < MaxCalls /\ calls' = calls + 1
  /\ pc' = [pc EXCEPT ![t] = at]
  /\ call' = [call EXCEPT ![t] = what]
  /\ UNCHANGED <<edition, rules, now, tasks, plan, copy, decided, unread, acts, crashes>>

AskDecision(t, decision) ==
  Ask(t, [what |-> decision, actions |-> Actions, ids |-> {}], "plans")

\* open_change_task: the action must be one the comparison finds.
AskRaise(t, a) ==
  /\ a \in Actions
  /\ Ask(t, [what |-> "raise", actions |-> {a}, ids |-> {}], "load")

AskRecheck(t, id) == Ask(t, [what |-> "recheck", task |-> id], "load")

\* A coroutine: no other one runs between its load and its save.  It is
\* refused unless the firm has records on file, which the model takes for given.
AskAttach(t, id) ==
  /\ \A u \in Threads : pc[u] # "idle" => call[u].what # "attach"
  /\ Ask(t, [what |-> "attach", task |-> id], "load")

\* Mutant: the decision is on file before the tasks are.
FollowingDecisionFirst(what, at) ==
  CASE at = "plans"  -> IF what = "decline" THEN "decide" ELSE "load"
    [] at = "load"   -> "work"
    [] at = "work"   -> IF what = "approve" THEN "decide" ELSE "save"
    [] at = "save"   -> "idle"
    [] at = "decide" -> IF what = "approve" THEN "save" ELSE "idle"

\* The order the routes do things in.
Following(what, at) ==
  CASE at = "plans"  -> IF what = "decline" THEN "decide" ELSE "load"
    [] at = "load"   -> "work"
    [] at = "work"   -> "save"
    [] at = "save"   -> IF what = "approve" THEN "decide" ELSE "idle"
    [] at = "decide" -> "idle"

\* What the request holds from here on: c is its call, s its tasks, d its plan.
\* One that has been answered holds nothing.
Step(t, c, s, d) ==
  LET to == Following(call[t].what, pc[t])
      ends == to = "idle"
  IN /\ pc' = [pc EXCEPT ![t] = to]
     /\ call' = [call EXCEPT ![t] = IF ends THEN None ELSE c]
     /\ copy' = [copy EXCEPT ![t] = IF ends THEN NoTasks ELSE s]
     /\ decided' = [decided EXCEPT ![t] = IF ends THEN None ELSE d]
     /\ UNCHANGED <<edition, rules, now, alone, acts, calls, crashes>>

LoadPlans(t) ==
  /\ pc[t] = "plans"
  /\ Step(t, call[t], copy[t], plan)
  /\ UNCHANGED <<tasks, plan, unread>>

Load(t) ==
  /\ pc[t] = "load"
  /\ Step(t, call[t], tasks, decided[t])
  /\ UNCHANGED <<tasks, plan, unread>>

\* The same for one action and for a plan's.
Raise(t) ==
  LET s == copy[t]
      ids == IdsFor(s, call[t].actions)
  IN /\ pc[t] = "work"
     /\ call[t].what \in {"approve", "raise"}
     /\ Step(t, [call[t] EXCEPT !.ids = ids], RaiseAll(s, call[t].actions), decided[t])
     /\ unread' = unread \cup {id \in ids \ DOMAIN s : id[1].kind = "REREAD"}
     /\ UNCHANGED <<tasks, plan>>

OnTask(t) == pc[t] = "work" /\ call[t].what \in {"recheck", "attach"}

\* The rulebook is looked at now, the task is as it was loaded.
Judge(t) ==
  LET s == copy[t]
      id == call[t].task
  IN /\ OnTask(t) /\ id \in DOMAIN s
     /\ Step(t, call[t],
             IF call[t].what = "recheck" THEN Rechecked(s, id)
             ELSE [s EXCEPT ![id].status = "READY_FOR_RECHECK"],
             decided[t])
     /\ UNCHANGED <<tasks, plan, unread>>

Dropped(ts) ==
  /\ pc' = [t \in Threads |-> IF t \in ts THEN "idle" ELSE pc[t]]
  /\ call' = [t \in Threads |-> IF t \in ts THEN None ELSE call[t]]
  /\ copy' = [t \in Threads |-> IF t \in ts THEN NoTasks ELSE copy[t]]
  /\ decided' = [t \in Threads |-> IF t \in ts THEN None ELSE decided[t]]
  /\ UNCHANGED <<edition, rules, now, tasks, plan, alone, unread, acts, calls>>

\* The task is gone, overwritten by another request: an error, and no save.
Refused(t) ==
  /\ OnTask(t) /\ call[t].task \notin DOMAIN copy[t]
  /\ Dropped({t})
  /\ UNCHANGED crashes

Save(t) ==
  /\ pc[t] = "save"
  /\ tasks' = copy[t]
  /\ Step(t, call[t], NoTasks, decided[t])
  /\ UNCHANGED <<plan, unread>>

\* PlanStore.approve and decline: a decision already on file stands.
Decide(t) ==
  /\ pc[t] = "decide"
  /\ plan' = IF decided[t] # None THEN decided[t]
             ELSE [status |-> IF call[t].what = "approve" THEN "APPROVED" ELSE "DECLINED",
                   asked |-> call[t].actions, ids |-> call[t].ids]
  /\ Step(t, call[t], copy[t], decided[t])
  /\ UNCHANGED <<tasks, unread>>

\* The server goes with all its requests.
WebDies ==
  /\ crashes < MaxCrashes /\ crashes' = crashes + 1
  /\ ~Undisturbed
  /\ Dropped(Threads)

-----------------------------------------------------------------------------
(* Officers and compiles.                                                  *)

Act ==
  /\ acts < MaxActs /\ acts' = acts + 1
  /\ UNCHANGED <<edition, now, tasks, plan, requests, alone, calls, crashes>>

\* A compile of the later edition that found a duty in these clauses.
Compile(found) ==
  /\ Act
  /\ \A c \in found : after[c] \in Duties
  /\ rules' = [c \in Clauses |->
                 IF c \notin found \/ Is(c, "CERTIFIED") THEN rules[c]
                 ELSE [rules[c] EXCEPT !.status = "PROPOSED", !.text = after[c]]]
  /\ UNCHANGED unread

Certify(c) ==
  /\ Act
  /\ Is(c, "PROPOSED")
  /\ rules' = [rules EXCEPT ![c].status = "CERTIFIED", ![c].at = now]
  /\ unread' = {id \in unread : id[1].clause # c}

Reject(c) ==
  /\ Act
  /\ Is(c, "PROPOSED") \/ Is(c, "REJECTED")
  /\ rules' = [rules EXCEPT ![c].status = "REJECTED"]
  /\ UNCHANGED unread

\* An edit leaves the anchor alone.
Edit(c) ==
  /\ Act
  /\ ~Is(c, "NONE")
  /\ rules' = [rules EXCEPT ![c].status = "PROPOSED"]
  /\ UNCHANGED unread

Tick ==
  /\ now < MaxTime /\ now' = now + 1
  /\ UNCHANGED <<edition, rules, tasks, plan, requests, alone, unread,
                 acts, calls, crashes>>

-----------------------------------------------------------------------------
\* The amendment finds a rulebook made from the earlier edition and signed.
Init ==
  /\ edition \in Editions
  /\ rules = [c \in Clauses |->
                IF before[c] \in Duties
                THEN [status |-> "CERTIFIED", text |-> before[c], at |-> 0]
                ELSE [status |-> "NONE", text |-> Gone, at |-> 0]]
  /\ now = 0
  /\ tasks = NoTasks /\ plan = None
  /\ pc = [t \in Threads |-> "idle"]
  /\ call = [t \in Threads |-> None]
  /\ copy = [t \in Threads |-> NoTasks]
  /\ decided = [t \in Threads |-> None]
  /\ alone = TRUE /\ unread = {}
  /\ acts = 0 /\ calls = 0 /\ crashes = 0

Request(t) ==
  \/ \E decision \in {"approve", "decline"} : AskDecision(t, decision)
  \/ \E a \in Actions : AskRaise(t, a)
  \/ \E id \in DOMAIN tasks : AskRecheck(t, id) \/ AskAttach(t, id)
  \/ LoadPlans(t) \/ Load(t)
  \/ Raise(t) \/ Judge(t) \/ Refused(t)
  \/ Save(t) \/ Decide(t)

Officers ==
  \/ \E found \in (SUBSET Clauses) \ {{}} : Compile(found)
  \/ \E c \in Clauses : Certify(c) \/ Reject(c) \/ Edit(c)

Next ==
  \/ \E t \in Threads : Request(t)
  \/ WebDies
  \/ Officers
  \/ Tick

Spec == Init /\ [][Next]_vars

-----------------------------------------------------------------------------
(* Properties.                                                             *)

\* A signature over words the later edition does not hold under that number is
\* always asked about, whatever was compiled, edited or signed since the
\* amendment, and whichever way the words went: changed, gone or renumbered.
NoLossMissed ==
  \A c \in Clauses :
    Is(c, "CERTIFIED") /\ rules[c].text # after[c]
      => \E a \in Actions :
           a.clause = c /\ a.kind \in {"RECERTIFY", "WITHDRAW", "REPOINT"}

\* As long as requests do not overlap, an approval on file names a task on file
\* for every action it was given for, a crash between the two files included.
ApprovedWorkExists ==
  alone /\ plan # None /\ plan.status = "APPROVED"
    => /\ plan.ids \subseteq DOMAIN tasks
       /\ \A a \in plan.asked : \E id \in plan.ids : id[1] = a

\* As long as requests do not overlap, no action is in two people's hands: of
\* two unfinished tasks for it one was closed and taken up again by attaching
\* to it.  This is said of an action, not of a clause: an added clause that was
\* compiled and cites what changed is to be assessed and to be read again.
OneOpenTask ==
  alone => \A i, j \in DOMAIN tasks :
    i # j /\ i[1] = j[1] /\ IsOpen(tasks[i]) /\ IsOpen(tasks[j])
      => "READY_FOR_RECHECK" \in {tasks[i].status, tasks[j].status}

\* As long as requests do not overlap, closed means dealt with: a rule to be
\* read again was signed after the task was raised, and one that lost its words
\* holds the later ones, now and ever after.
ClosedIsDealtWith ==
  alone => \A id \in DOMAIN tasks : ~IsOpen(tasks[id]) =>
             /\ id[1].kind = "REREAD" => id \notin unread
             /\ id[1].kind = "RECERTIFY"
                  => rules[id[1].clause].text = after[id[1].clause]

=============================================================================
