-------------------------- MODULE RemediationTasks --------------------------
(***************************************************************************)
(* The remediation loop of one workspace: a firm's records, the rule       *)
(* engine's findings on them, the assessments of record, and the tasks     *)
(* that close the findings (remediate/tasks.py, remediate/service.py and   *)
(* their routes in web/app.py).                                            *)
(*                                                                         *)
(* A handler reads the task file, changes its copy and writes the whole    *)
(* file back; nothing locks it.  Requests that change the records, the     *)
(* rules or the assessments are atomic here.                               *)
(***************************************************************************)
EXTENDS Integers, FiniteSetsExt, SequencesExt

CONSTANTS
  Threads,     \* request threads working on tasks
  Rules,       \* obligation ids, one clause each
  Events,      \* occasions: a duty of one rule falling due on one day
  RuleOf,      \* Events -> Rules
  DueDay,      \* Events -> day
  LastDay,     \* bound on the days that pass
  None,
  MaxCalls,    \* bound on requests on the tasks
  MaxChanges   \* bound on changes of rules and records

ASSUME TasksAssumption ==
  /\ RuleOf \in [Events -> Rules] /\ DueDay \in [Events -> Nat]
  /\ Rules \cap Events = {} /\ None \notin Threads \cup Events \cup Rules
  /\ \A es \in SUBSET Events : es # None
  /\ LastDay \in Nat /\ MaxCalls \in Nat /\ MaxChanges \in Nat

VARIABLES
  rules,       \* Rules -> what the rulebook says of the rule
  queue,       \* company.json: what was uploaded, oldest first
  records,     \* evidence.json: Events -> filing, or None without the file
  today,
  runs,        \* assessments.json
  disk,        \* remediation.json: the tasks and the log
  pc,          \* Threads -> where the request has got to
  call,        \* Threads -> what it was asked to do
  copy,        \* Threads -> its RemediationStore
  judged,      \* Threads -> what the engine told a re-check
  alone,       \* whether requests on the tasks have met no other request so far
  calls, changes

firm == <<rules, queue, records, today, runs>>
requests == <<pc, call, copy, judged, calls>>
vars == <<firm, disk, requests, alone, changes>>

-----------------------------------------------------------------------------
(* Values.                                                                 *)

Statuses == {"OPEN", "IN_PROGRESS", "READY_FOR_RECHECK", "VERIFIED",
             "CLOSED", "REOPENED"}
IsOpen(status) == status \notin {"VERIFIED", "CLOSED"}

Filings == {"unfiled", "late", "ontime"}

\* With no record on file, an "owed" rule is in breach and an "occasional" one
\* is not; the engine will not check an "unclear" one at all.
Kinds == {"owed", "occasional", "unclear"}

\* A finding is named by the event, or by the rule when there is no event.
Gaps == Events \cup Rules
RuleFor(gap) == IF gap \in Rules THEN gap ELSE RuleOf[gap]

Task == [gap : Gaps, status : Statuses, evidence : SUBSET Events]
TaskId == Rules \X (1..MaxCalls)
Entry == [task : TaskId, what : STRING, from : Statuses \cup {None}, to : Statuses,
          met : SUBSET Events \cup {None}]
Nothing == [tasks |-> [id \in {} |-> None], log |-> <<>>]

Verdict == [outcome : {"clear", "failing", "not evaluated"}, met : SUBSET Events]
Call == [what : {"open"}, gap : Gaps]
        \cup [what : {"assign", "recheck"}, task : TaskId]
        \cup [what : {"attach"}, task : TaskId, evidence : SUBSET Events]

TypeOK ==
  /\ rules \in [Rules -> [certified : BOOLEAN, edition : 0..MaxChanges, kind : Kinds]]
  /\ queue \in Seq([event : Events, filing : Filings, mapped : BOOLEAN])
  /\ records \in [Events -> Filings \cup {None}] \cup {None}
  /\ today \in 0..LastDay
  /\ runs \in Seq([rules : SUBSET (Rules \X (0..MaxChanges)),
                   records : [Events -> Filings \cup {None}], findings : SUBSET Gaps])
  /\ disk.log \in Seq(Entry) /\ DOMAIN disk.tasks \subseteq TaskId
  /\ \A id \in DOMAIN disk.tasks : disk.tasks[id] \in Task
  /\ pc \in [Threads -> {"idle", "load", "judge", "save"}]
  /\ call \in [Threads -> Call \cup {None}]
  /\ judged \in [Threads -> Verdict \cup {None}]
  /\ alone \in BOOLEAN
  /\ calls \in 0..MaxCalls /\ changes \in 0..MaxChanges

-----------------------------------------------------------------------------
(* RuleEngine.run on a rule r and an evidence store file.                  *)

EventsOf(r, file) == {e \in Events : RuleOf[e] = r /\ file[e] # None}

\* The rules the run counts in rules_evaluated.
Evaluated(r, file) ==
  \/ rules[r].kind = "owed"
  \/ rules[r].kind = "occasional" /\ EventsOf(r, file) # {}

\* An unfiled event that is not due yet counts neither way.
Breached(e, file) == file[e] = "late" \/ (file[e] = "unfiled" /\ DueDay[e] <= today)
Met(r, file) == {e \in EventsOf(r, file) : file[e] = "ontime"}

FindingsOf(r, file) ==
  IF ~Evaluated(r, file) THEN {}
  ELSE IF EventsOf(r, file) = {} THEN {r}
  ELSE {e \in EventsOf(r, file) : Breached(e, file)}

Certified == {r \in Rules : rules[r].certified}
Findings(file) == UNION {FindingsOf(r, file) : r \in Certified}

\* What a run is fingerprinted by; the day is not part of it.
Inputs == <<{<<r, rules[r].edition>> : r \in Certified}, records>>
InputsOf(run) == <<run.rules, run.records>>

\* Mutant: the last run counts, whatever it was made on.
LastAssessed == IF runs = <<>> THEN {} ELSE Last(runs).findings

\* _current_assessment: the last run made on these inputs.
Matching == {i \in DOMAIN runs : InputsOf(runs[i]) = Inputs}
Assessed == IF records = None \/ Matching = {} THEN {} ELSE runs[Max(Matching)].findings

-----------------------------------------------------------------------------
(* RemediationStore.                                                       *)

\* Mutant: only the task's own entries are kept.
LoggedAlone(s, id, what, from, to, met) ==
  [s EXCEPT !.log = Append(SelectSeq(@, LAMBDA entry : entry.task = id),
                           [task |-> id, what |-> what, from |-> from,
                            to |-> to, met |-> met])]

Logged(s, id, what, from, to, met) ==
  [s EXCEPT !.log = Append(@, [task |-> id, what |-> what, from |-> from,
                               to |-> to, met |-> met])]

\* Every transition but CREATED: the task's new status and the entry for it.
Moved(s, id, what, to) ==
  Logged([s EXCEPT !.tasks[id].status = to], id, what, s.tasks[id].status, to, None)

Unfinished(s, gap) ==
  {id \in DOMAIN s.tasks : s.tasks[id].gap = gap /\ IsOpen(s.tasks[id].status)}
NextId(s, r) == <<r, Cardinality({id \in DOMAIN s.tasks : id[1] = r}) + 1>>

OpenForGap(s, gap) ==
  LET id == NextId(s, RuleFor(gap))
      task == [gap |-> gap, status |-> "OPEN", evidence |-> {}]
  IN IF Unfinished(s, gap) # {} THEN s
     ELSE Logged([s EXCEPT !.tasks = [i \in DOMAIN @ \cup {id} |->
                                        IF i = id THEN task ELSE @[i]]],
                 id, "CREATED", None, "OPEN", None)

Assign(s, id) ==
  LET status == s.tasks[id].status
  IN Moved(s, id, "ASSIGNED", IF status = "OPEN" THEN "IN_PROGRESS" ELSE status)

AttachEvidence(s, id, es) ==
  Moved([s EXCEPT !.tasks[id].evidence = @ \cup es], id,
        "EVIDENCE_ATTACHED", "READY_FOR_RECHECK")

Recheck(s, id, verdict) ==
  LET status == s.tasks[id].status
      asked == Logged(s, id, "RECHECKED", status, status, verdict.met)
  IN CASE verdict.outcome = "not evaluated" ->
            Logged(s, id, "RECHECKED", status, status, None)
       [] verdict.outcome = "failing" -> Moved(asked, id, "REOPENED", "REOPENED")
       [] verdict.outcome = "clear" ->
            Moved(Moved(asked, id, "VERIFIED", "VERIFIED"), id, "CLOSED", "CLOSED")

-----------------------------------------------------------------------------
(* Requests on the tasks.                                                  *)

\* alone is for the properties: it changes nothing of what may happen.
Undisturbed == \A t \in Threads : pc[t] = "idle"
Overlaps == alone' = (alone /\ Undisturbed)

Ask(t, what) ==
  /\ pc[t] = "idle"
  /\ Overlaps
  /\ calls < MaxCalls /\ calls' = calls + 1
  /\ pc' = [pc EXCEPT ![t] = "load"]
  /\ call' = [call EXCEPT ![t] = what]
  /\ UNCHANGED <<firm, disk, copy, judged, changes>>

\* open_remediation: the finding must be one of the assessment of record.
AskOpen(t, gap) ==
  /\ rules[RuleFor(gap)].certified
  /\ gap \in Assessed
  /\ Ask(t, [what |-> "open", gap |-> gap])

AskAssign(t, id) == Ask(t, [what |-> "assign", task |-> id])
AskRecheck(t, id) == Ask(t, [what |-> "recheck", task |-> id])

\* A coroutine: no await separates its look at the records from its save, so
\* no other coroutine runs in between.
Attaching == \E t \in Threads : pc[t] # "idle" /\ call[t].what = "attach"

AskAttach(t, id, es) ==
  /\ ~Attaching
  /\ records # None
  /\ es # {} /\ \A e \in es : records[e] # None
  /\ Ask(t, [what |-> "attach", task |-> id, evidence |-> es])

Load(t) ==
  /\ pc[t] = "load"
  /\ IF call[t].what = "open" \/ call[t].task \in DOMAIN disk.tasks
     THEN /\ copy' = [copy EXCEPT ![t] = disk]
          /\ pc' = [pc EXCEPT ![t] = IF call[t].what = "recheck" THEN "judge" ELSE "save"]
          /\ UNCHANGED call
     ELSE /\ pc' = [pc EXCEPT ![t] = "idle"]
          /\ call' = [call EXCEPT ![t] = None]
          /\ UNCHANGED copy
  /\ UNCHANGED <<firm, disk, judged, alone, calls, changes>>

\* Mutant: only a missing filing counts against the task.
JudgementOfMissing(r) ==
  [outcome |-> IF ~Evaluated(r, records) THEN "not evaluated"
               ELSE IF \E gap \in FindingsOf(r, records) :
                         gap = r \/ records[gap] = "unfiled" THEN "failing"
               ELSE "clear",
   met |-> Met(r, records)]

\* The engine is run on the records as they are now, for the rule as it is now.
Judgement(r) ==
  [outcome |-> IF ~Evaluated(r, records) THEN "not evaluated"
               ELSE IF FindingsOf(r, records) # {} THEN "failing" ELSE "clear",
   met |-> Met(r, records)]

Judge(t) ==
  LET task == copy[t].tasks[call[t].task]
      r == call[t].task[1]
  IN /\ pc[t] = "judge"
     /\ IF records # None /\ task.evidence # {} /\ rules[r].certified
        THEN /\ judged' = [judged EXCEPT ![t] = Judgement(r)]
             /\ pc' = [pc EXCEPT ![t] = "save"]
             /\ UNCHANGED <<call, copy>>
        ELSE /\ pc' = [pc EXCEPT ![t] = "idle"]
             /\ call' = [call EXCEPT ![t] = None]
             /\ copy' = [copy EXCEPT ![t] = Nothing]
             /\ UNCHANGED judged
     /\ UNCHANGED <<firm, disk, alone, calls, changes>>

Answer(t) ==
  LET c == call[t]
  IN CASE c.what = "open"    -> OpenForGap(copy[t], c.gap)
       [] c.what = "assign"  -> Assign(copy[t], c.task)
       [] c.what = "attach"  -> AttachEvidence(copy[t], c.task, c.evidence)
       [] c.what = "recheck" -> Recheck(copy[t], c.task, judged[t])

\* Mutant: the tasks are written over, the log is appended to.
SaveAppending(t) ==
  /\ pc[t] = "save"
  /\ disk' = [tasks |-> Answer(t).tasks,
              log |-> disk.log \o SubSeq(Answer(t).log, Len(copy[t].log) + 1,
                                         Len(Answer(t).log))]
  /\ pc' = [pc EXCEPT ![t] = "idle"]
  /\ call' = [call EXCEPT ![t] = None]
  /\ copy' = [copy EXCEPT ![t] = Nothing]
  /\ judged' = [judged EXCEPT ![t] = None]
  /\ UNCHANGED <<firm, alone, calls, changes>>

Save(t) ==
  /\ pc[t] = "save"
  /\ disk' = Answer(t)
  /\ pc' = [pc EXCEPT ![t] = "idle"]
  /\ call' = [call EXCEPT ![t] = None]
  /\ copy' = [copy EXCEPT ![t] = Nothing]
  /\ judged' = [judged EXCEPT ![t] = None]
  /\ UNCHANGED <<firm, alone, calls, changes>>

-----------------------------------------------------------------------------
(* Everything else that happens to the firm.                               *)

Changes ==
  /\ Overlaps
  /\ changes < MaxChanges /\ changes' = changes + 1
  /\ UNCHANGED <<today, runs, disk, requests>>

\* ReviewQueue.to_evidence: of the records of one occasion, the last counts.
Evidence(q) ==
  [e \in Events |->
     LET said == {i \in DOMAIN q : q[i].event = e /\ q[i].mapped}
     IN IF said = {} THEN None ELSE q[Max(said)].filing]

Reviewed(q) == queue' = q /\ records' = Evidence(q) /\ UNCHANGED rules

\* A record that names its rule is mapped by the upload itself.  Nothing checks
\* its filing date against today.
Upload(e, filing, stated) ==
  /\ Changes
  /\ ~Attaching
  /\ Reviewed(Append(queue, [event |-> e, filing |-> filing, mapped |-> stated]))

MapItem(i) ==
  /\ Changes
  /\ rules[RuleOf[queue[i].event]].certified
  /\ Reviewed([queue EXCEPT ![i].mapped = TRUE])

Dismiss(i) ==
  /\ Changes
  /\ Reviewed([queue EXCEPT ![i].mapped = FALSE])

\* The records go; the review queue they were made from stays.
ClearEvidence ==
  /\ Changes
  /\ records # None
  /\ records' = None
  /\ UNCHANGED <<rules, queue>>

\* An officer edits, signs or rejects the rule.
ChangeRule(r, certified, kind) ==
  /\ Changes
  /\ rules' = [rules EXCEPT ![r] = [certified |-> certified, edition |-> @.edition + 1,
                                    kind |-> kind]]
  /\ UNCHANGED <<queue, records>>

\* Nothing is recorded when the inputs are those of the last run.
Assess ==
  /\ Overlaps
  /\ records # None /\ Certified # {}
  /\ runs # <<>> => InputsOf(Last(runs)) # Inputs
  /\ runs' = Append(runs, [rules |-> Inputs[1], records |-> records,
                           findings |-> Findings(records)])
  /\ UNCHANGED <<rules, queue, records, today, disk, requests, changes>>

NextDay ==
  /\ Overlaps
  /\ today < LastDay /\ today' = today + 1
  /\ UNCHANGED <<rules, queue, records, runs, disk, requests, changes>>

-----------------------------------------------------------------------------
Init ==
  /\ rules \in [Rules -> [certified : {TRUE}, edition : {0}, kind : Kinds \ {"unclear"}]]
  /\ queue = <<>> /\ records = None
  /\ today = 0 /\ runs = <<>>
  /\ disk = Nothing
  /\ pc = [t \in Threads |-> "idle"]
  /\ call = [t \in Threads |-> None]
  /\ copy = [t \in Threads |-> Nothing]
  /\ judged = [t \in Threads |-> None]
  /\ alone = TRUE
  /\ calls = 0 /\ changes = 0

Request(t) ==
  \/ \E gap \in Gaps : AskOpen(t, gap)
  \/ \E id \in DOMAIN disk.tasks :
       \/ AskAssign(t, id)
       \/ AskRecheck(t, id)
       \/ \E es \in SUBSET Events : AskAttach(t, id, es)
  \/ Load(t)
  \/ Judge(t)
  \/ Save(t)

Firm ==
  \/ \E e \in Events, filing \in Filings, stated \in BOOLEAN : Upload(e, filing, stated)
  \/ \E i \in DOMAIN queue : MapItem(i) \/ Dismiss(i)
  \/ ClearEvidence
  \/ \E r \in Rules, certified \in BOOLEAN, kind \in Kinds : ChangeRule(r, certified, kind)
  \/ Assess
  \/ NextDay

Next == Firm \/ \E t \in Threads : Request(t)

Spec == Init /\ [][Next]_vars

-----------------------------------------------------------------------------
(* Properties.                                                             *)

Tasks == DOMAIN disk.tasks
EntriesOf(s, id) == {i \in DOMAIN s.log : s.log[i].task = id}
Before(s, id, i) == {j \in EntriesOf(s, id) : j < i}
IsLatest(i, entries) == i \in entries /\ \A j \in entries : j <= i

\* The log tells the whole story of every task on file: it begins with the
\* creation, each entry of the task starts where the one before ended, and the
\* last one ends where the task is, whichever requests overtook each other.
HistoryIsUnbroken(s) ==
  \A id \in DOMAIN s.tasks :
    /\ \E i \in EntriesOf(s, id) :
         IsLatest(i, EntriesOf(s, id)) /\ s.log[i].to = s.tasks[id].status
    /\ \A i \in EntriesOf(s, id) :
         \/ /\ Before(s, id, i) = {}
            /\ s.log[i].what = "CREATED" /\ s.log[i].from = None
         \/ /\ s.log[i].what # "CREATED"
            /\ \E j \in Before(s, id, i) :
                 IsLatest(j, Before(s, id, i)) /\ s.log[i].from = s.log[j].to

\* A closed task names its evidence, and it was last moved by a re-check the
\* engine answered, its verification and its closing, one right after the other
\* in the log.
ClosedByRecheck(s) ==
  \A id \in DOMAIN s.tasks : s.tasks[id].status = "CLOSED" =>
    /\ s.tasks[id].evidence # {}
    /\ \E n \in EntriesOf(s, id) :
         /\ {n - 1, n - 2} \subseteq EntriesOf(s, id)
         /\ s.log[n].what = "CLOSED" /\ s.log[n - 1].what = "VERIFIED"
         /\ s.log[n - 2].what = "RECHECKED" /\ s.log[n - 2].met # None
         /\ \A i \in EntriesOf(s, id) : i > n => s.log[i].from = s.log[i].to

\* As long as requests do not overlap, a finding raised is one the engine makes
\* today: the assessment of record cannot be one the records or the rules have
\* outgrown.
OpenedInBreach ==
  [][alone => \A id \in Tasks' \ Tasks : disk'.tasks[id].gap \in Findings(records)]_vars

\* As long as requests do not overlap, no task is closed over a finding the
\* engine still makes.
NotClosedInBreach ==
  [][alone => \A id \in Tasks :
        disk.tasks[id].status # "CLOSED" /\ disk'.tasks[id].status = "CLOSED"
          => disk.tasks[id].gap \notin Findings(records)]_vars

\* The log accounts for where every task is, and for how it was closed.
HistoryIsSound == HistoryIsUnbroken(disk) /\ ClosedByRecheck(disk)
=============================================================================
