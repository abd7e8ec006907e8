--------------------------- MODULE EvidenceReview ---------------------------
(***************************************************************************)
(* From a firm's documents to the position it is shown: what the readers   *)
(* make of an upload (execute/ingest.py, importer.py), the queue people    *)
(* work through (company.py, ReviewQueue), the records the engine reads    *)
(* (execute/evidence.py), the assessments written down (assess.py) and     *)
(* what the firm and its supervisor see of them (web/app.py, supervise.py).*)
(*                                                                         *)
(* One firm and one artifact type.  The queue and the records are two      *)
(* files: the first is replaced atomically (AtomicWrite), the records and  *)
(* the assessments are written in place.  Requests overlap.                *)
(***************************************************************************)
EXTENDS Integers, FiniteSets, SequencesExt

CONSTANTS
  Duties,       \* obligation ids in the rulebook
  Other,        \* an id that is not in it
  Allowed,      \* Allowed[v]: days to file in under the v-th version of a rule
  Uploads,      \* the documents there are: [fmt, rows]
  Threads,
  LastDay,      \* bound on the days that pass
  MaxItems,     \* bound on the items of the queue
  MaxRequests,  \* bound on the requests
  MaxCrashes,
  None, Torn

Versions == DOMAIN Allowed
Days == 1..LastDay

Date == Days \cup {None}

\* A row: what stands in its obligation column, the rules its text names, its dates,
\* and whether it carries a reference.
Rows == [column : Duties \cup {Other, None}, text : SUBSET Duties,
         day : Date, filed : Date, ref : BOOLEAN]

\* What a row yields, an item of the queue, a record, and a run of the engine.
Candidates == [duty : Duties \cup {None}, day : Date, filed : Date,
               confidence : {"STATED", "PROBABLE", "UNRESOLVED"}]
Items == [cand : Candidates, mapped : Duties \cup {None}, dismissed : BOOLEAN]
Events == [duty : Duties, day : Days, filed : Date]
Runs == [inputs : [rules : SUBSET (Duties \X Versions), records : SUBSET Events],
         day : Nat, breaches : SUBSET Events]

\* What a thread has at hand: a ruling its copy of the queue, an assessment the rules
\* it read, and then the runs it is to write down.
Ruling == {"save", "open", "write"}
Recording == {"open log", "write log"}
Rulings == [stage : Ruling, what : {"upload", "map", "dismiss"}, queue : Seq(Items),
            lost : BOOLEAN, alone : BOOLEAN]
Runnings == [stage : {"run"}, rules : SUBSET (Duties \X Versions)]
Recordings == [stage : Recording, runs : Seq(Runs), alone : BOOLEAN]
Asked == {None} \cup Rulings \cup Runnings \cup Recordings

ASSUME ReviewAssumption ==
  /\ Allowed \in Seq(Nat) /\ Allowed # <<>>
  /\ \A u \in Uploads : /\ u.fmt \in {"csv", "json", "xlsx", "pdf", "other"}
                        /\ u.rows \in Seq(Rows)
  /\ {LastDay, MaxItems, MaxRequests, MaxCrashes} \subseteq Nat
  \* Nothing is no rule, no number, no request and no record.
  /\ None \notin Duties \cup Nat
  /\ None \notin Rulings \cup Runnings \cup Recordings
  /\ \A events \in SUBSET Events : events \notin {None, Torn}

VARIABLES
  rules,     \* Duties -> [version, certified]
  queue,     \* review.json: the items in order of their ids
  evidence,  \* evidence.json: a set of events, None without one, Torn half written
  log,       \* assessments.json: the runs, oldest first, or Torn
  today,
  request,   \* Threads -> the request being served, or None
  ruled,     \* whatever was ever said to be evidence of what (history)
  settled,   \* the last ruling to end was served alone (history)
  kept,      \* the runs in the log when an assessment last ended alone (history)
  made       \* [requests, crashes] so far

files == <<queue, evidence, log>>
history == <<ruled, settled, kept>>
vars == <<rules, files, today, request, history, made>>

-----------------------------------------------------------------------------
(* Reading a document (ingest.py, importer.py).  A candidate is stated if  *)
(* it names its own rule and a date.                                       *)

Candidate(duty, day, filed, ref) ==
  [duty |-> duty, day |-> day, filed |-> filed,
   confidence |-> IF duty # None /\ day # None THEN "STATED"
                  ELSE IF day # None /\ ref THEN "PROBABLE" ELSE "UNRESOLVED"]

\* _obligation_in: one of the rules the text names, in no particular order.
ObligationIn(row) == IF row.text = {} THEN {None} ELSE row.text

\* The rule a row of a register or an export is about; one not in the rulebook is
\* none.  An id in the column hides what the rest of the row names.
Named(row) ==
  IF row.column = None THEN ObligationIn(row)
  ELSE IF row.column = Other THEN {None} ELSE {row.column}

\* read_csv is strict: a row it cannot place is reported and left out.
FromCsv(row) ==
  IF \/ row.column \in {None, Other} \/ row.day = None
     \/ row.filed # None /\ row.filed < row.day
  THEN {} ELSE {Candidate(row.column, row.day, row.filed, FALSE)}

FromJson(row) == {Candidate(d, row.day, row.filed, FALSE) : d \in Named(row)}

\* A spreadsheet row without the date column is dated by the first date in it.
FromXlsx(row) ==
  {Candidate(d, IF row.day # None THEN row.day ELSE row.filed, row.filed, row.ref) :
     d \in Named(row)}

\* A line has no columns: its first date is the occasion, and nothing was filed.
FromPdf(row) ==
  LET day == IF row.day # None THEN row.day ELSE row.filed
  IN  IF day = None /\ ~row.ref THEN {}
      ELSE {Candidate(d, day, None, row.ref) : d \in ObligationIn(row)}

FromRow(fmt, row) ==
  CASE fmt = "csv" -> FromCsv(row) [] fmt = "json" -> FromJson(row)
    [] fmt = "xlsx" -> FromXlsx(row) [] fmt = "pdf" -> FromPdf(row) [] OTHER -> {}

\* read_any: the lists of candidates a document may yield, a candidate to a row that
\* yields any.
AddRow(lists, found) ==
  IF found = {} THEN lists ELSE {Append(l, c) : l \in lists, c \in found}
ReadAny(u) ==
  LET lists[n \in 0..Len(u.rows)] ==
        IF n = 0 THEN {<<>>} ELSE AddRow(lists[n - 1], FromRow(u.fmt, u.rows[n]))
  IN  lists[Len(u.rows)]

-----------------------------------------------------------------------------
(* The queue and the records drawn from it.                                *)

\* add: what states its own rule is mapped by the document itself.
Item(c) ==
  [cand |-> c, mapped |-> IF c.confidence = "STATED" THEN c.duty ELSE None,
   dismissed |-> FALSE]
Added(q, found) == q \o [i \in DOMAIN found |-> Item(found[i])]

MapTo(q, i, d) == [q EXCEPT ![i].mapped = d, ![i].dismissed = FALSE]

\* Mutant: a dismissed item keeps the rule it was mapped to.
DismissOnly(q, i) == [q EXCEPT ![i].dismissed = TRUE]
Dismiss(q, i) == [q EXCEPT ![i].dismissed = TRUE, ![i].mapped = None]

Occasion(e) == <<e.duty, e.day>>
Event(item) == [duty |-> item.mapped, day |-> item.cand.day, filed |-> item.cand.filed]

\* Mutant: a second statement is a second event.
RecordAlso(events, e) == events \cup {e}
Supersede(events, e) == {x \in events : Occasion(x) # Occasion(e)} \cup {e}

\* to_evidence: the mapped items in order of their ids, a later one superseding.
Becomes(item) == item.mapped # None /\ item.cand.day # None
AddItem(events, item) == IF Becomes(item) THEN Supersede(events, Event(item)) ELSE events
ToEvidence(q) ==
  LET events[n \in 0..Len(q)] == IF n = 0 THEN {} ELSE AddItem(events[n - 1], q[n])
  IN  events[Len(q)]

-----------------------------------------------------------------------------
(* The engine, on rules of one fixed deadline each (RuleEngine has them    *)
(* all), and the fingerprints of what it was run on.                       *)

\* rulebook_fingerprint and evidence_fingerprint: a certified rule's signature is of
\* its version; where a record came from does not count.
RulebookFingerprint == {<<d, rules[d].version>> : d \in {d \in Duties : rules[d].certified}}

\* Mutant: the day the artifact was filed is not part of a record's identity.
FingerprintUndated(events) == {[e EXCEPT !.filed = None] : e \in events}
EvidenceFingerprint(events) == events
Inputs(events) == [rules |-> RulebookFingerprint, records |-> EvidenceFingerprint(events)]

\* _check, as it stands on a day: not counted yet, breached or satisfied.
Findings(signed, records, day) ==
  LET Due(e, v) == e.day + Allowed[v]
      Breached(e, v) == IF e.filed = None THEN Due(e, v) <= day ELSE e.filed > Due(e, v)
  IN  {e \in records : \E v \in Versions : <<e.duty, v>> \in signed /\ Breached(e, v)}

-----------------------------------------------------------------------------
(* The requests.                                                           *)

Serving(t, stage) == request[t] # None /\ request[t].stage = stage
Goes(t, stage) == request' = [request EXCEPT ![t].stage = stage] /\ UNCHANGED made
Answered(t) == request' = [request EXCEPT ![t] = None] /\ UNCHANGED made
Counted == made.requests < MaxRequests /\ made' = [made EXCEPT !.requests = @ + 1]

\* A request begins, and those of its kind under way are not alone any more.
Under(stages) == {t \in Threads : \E s \in stages : Serving(t, s)}
Begins(t, r, stages) ==
  request' = [u \in Threads |->
    IF u = t THEN r
    ELSE IF u \in Under(stages) THEN [request[u] EXCEPT !.alone = FALSE] ELSE request[u]]

\* A ruling has changed its copy of the queue, and saves it; draws the records from
\* that copy, and opens their file; and writes it.
Rule(t, q, what) ==
  /\ request[t] = None /\ Counted
  /\ Begins(t, [stage |-> "save", what |-> what, queue |-> q, lost |-> FALSE,
                alone |-> Under(Ruling) = {}], Ruling)

\* upload_evidence has its body and does not wait for anything from here on, so no
\* two of them overlap; the threads that serve the other routes go on.
UploadEvidence(t, u) ==
  /\ \A s \in Under(Ruling) : request[s].what # "upload"
  /\ \E found \in ReadAny(u) :
       /\ Len(queue) + Len(found) <= MaxItems
       /\ Rule(t, Added(queue, found), "upload")
       /\ ruled' = ruled \cup {Event(Item(c)) : c \in {c \in ToSet(found) : c.confidence = "STATED"}}
  /\ UNCHANGED <<rules, files, today, settled, kept>>

\* What has no date, and what no person signed, is refused.
MapReviewItem(t, i, d) ==
  /\ i \in DOMAIN queue /\ queue[i].cand.day # None /\ rules[d].certified
  /\ Rule(t, MapTo(queue, i, d), "map")
  /\ ruled' = ruled \cup {Event(MapTo(queue, i, d)[i])}
  /\ UNCHANGED <<rules, files, today, settled, kept>>

DismissReviewItem(t, i) ==
  /\ i \in DOMAIN queue
  /\ Rule(t, Dismiss(queue, i), "dismiss")
  /\ UNCHANGED <<rules, files, today, history>>

SaveQueue(t) ==
  /\ Serving(t, "save") /\ Goes(t, "open")
  /\ queue' = request[t].queue
  /\ UNCHANGED <<rules, evidence, log, today, history>>

OpenRecords(t) ==
  /\ Serving(t, "open") /\ Goes(t, "write")
  /\ evidence' = Torn
  /\ UNCHANGED <<rules, queue, log, today, history>>

\* Two who write one file in place leave what the last wrote, or that and the end of
\* what was longer; a file that was removed in between takes what is written along.
Written(file, content) == IF file = Torn THEN {content} ELSE {content, Torn}

WriteRecords(t) ==
  /\ Serving(t, "write") /\ Answered(t)
  /\ IF request[t].lost THEN UNCHANGED evidence
     ELSE evidence' \in Written(evidence, ToEvidence(request[t].queue))
  /\ settled' = request[t].alone
  /\ UNCHANGED <<rules, queue, log, today, ruled, kept>>

\* clear_evidence removes the records and leaves the queue.
ClearEvidence ==
  /\ evidence # None /\ Counted
  /\ evidence' = None
  /\ request' = [t \in Threads |->
       IF Serving(t, "write") THEN [request[t] EXCEPT !.lost = TRUE] ELSE request[t]]
  /\ UNCHANGED <<rules, queue, log, today, history>>

\* run_assessment, with rules to run and records to run them on.
RunAssessment(t) ==
  /\ request[t] = None /\ Counted
  /\ RulebookFingerprint # {} /\ evidence \notin {None, Torn}
  /\ request' = [request EXCEPT ![t] = [stage |-> "run", rules |-> RulebookFingerprint]]
  /\ UNCHANGED <<rules, files, today, history>>

Run(signed, records, day) ==
  [inputs |-> [rules |-> signed, records |-> EvidenceFingerprint(records)],
   day |-> day, breaches |-> Findings(signed, records, day)]

\* Mutant: a run on the rulebook of the last one takes its place.
RecordOver(runs, run) ==
  IF runs # <<>> /\ Last(runs).inputs.rules = run.inputs.rules
  THEN Append(Front(runs), run) ELSE Append(runs, run)

\* record appends, unless the last run was on the same.
Record(runs, run) ==
  IF runs # <<>> /\ Last(runs).inputs = run.inputs THEN runs ELSE Append(runs, run)

\* A file that does not parse fails the request.
Assess(t) ==
  /\ Serving(t, "run")
  /\ IF evidence \in {None, Torn} \/ log = Torn THEN Answered(t)
     ELSE LET runs == Record(log, Run(request[t].rules, evidence, today))
          IN  IF runs = log THEN Answered(t)
              ELSE /\ Begins(t, [stage |-> "open log", runs |-> runs,
                                 alone |-> Under(Recording) = {}], Recording)
                   /\ UNCHANGED made
  /\ UNCHANGED <<rules, files, today, history>>

OpenLog(t) ==
  /\ Serving(t, "open log") /\ Goes(t, "write log")
  /\ log' = Torn
  /\ UNCHANGED <<rules, queue, evidence, today, history>>

WriteLog(t) ==
  /\ Serving(t, "write log") /\ Answered(t)
  /\ log' \in Written(log, request[t].runs)
  /\ kept' = IF request[t].alone THEN request[t].runs ELSE kept
  /\ UNCHANGED <<rules, queue, evidence, today, ruled, settled>>

-----------------------------------------------------------------------------
(* Around them.                                                            *)

\* An officer signs a rule or publishes an amendment of it (RuleLifecycle).
Sign(d) ==
  /\ ~rules[d].certified
  /\ rules' = [rules EXCEPT ![d].certified = TRUE]
  /\ UNCHANGED <<files, today, request, history, made>>
Amend(d) ==
  /\ rules[d].certified /\ rules[d].version + 1 \in Versions
  /\ rules' = [rules EXCEPT ![d] = [version |-> @.version + 1, certified |-> FALSE]]
  /\ UNCHANGED <<files, today, request, history, made>>

DayPasses ==
  /\ today < LastDay /\ today' = today + 1
  /\ UNCHANGED <<rules, files, request, history, made>>

\* What was being written stays half written; a queue saved without its records
\* leaves them behind.
Crash ==
  /\ made.crashes < MaxCrashes /\ made' = [made EXCEPT !.crashes = @ + 1]
  /\ \E t \in Threads : request[t] # None
  /\ request' = [t \in Threads |-> None]
  /\ settled' = (settled /\ Under({"open", "write"}) = {})
  /\ UNCHANGED <<rules, files, today, ruled, kept>>

Init ==
  /\ rules = [d \in Duties |-> [version |-> 1, certified |-> FALSE]]
  /\ queue = <<>> /\ evidence = None /\ log = <<>>
  /\ today = 1 /\ request = [t \in Threads |-> None]
  /\ ruled = {} /\ settled = TRUE /\ kept = <<>>
  /\ made = [requests |-> 0, crashes |-> 0]

Next ==
  \/ \E t \in Threads :
       \/ \E u \in Uploads : UploadEvidence(t, u)
       \/ \E i \in DOMAIN queue : DismissReviewItem(t, i) \/ \E d \in Duties : MapReviewItem(t, i, d)
       \/ SaveQueue(t) \/ OpenRecords(t) \/ WriteRecords(t)
       \/ RunAssessment(t) \/ Assess(t) \/ OpenLog(t) \/ WriteLog(t)
  \/ ClearEvidence
  \/ \E d \in Duties : Sign(d) \/ Amend(d)
  \/ DayPasses
  \/ Crash

Spec == Init /\ [][Next]_vars

-----------------------------------------------------------------------------
(* What the firm and its supervisor are shown.                             *)

\* The last run on what is in front of us, None without one: _supervisory_view and
\* company_screen, each by a loop of its own.
Recorded ==
  LET runs == IF evidence = None THEN {} ELSE {i \in DOMAIN log : log[i].inputs = Inputs(evidence)}
  IN  IF runs = {} THEN None ELSE Max(runs)

\* build_view and FirmRow.state, which recompute nothing.
SupervisedState ==
  IF log = <<>> THEN "NEVER_ASSESSED"
  ELSE IF Recorded = None THEN "WITHDRAWN"
  ELSE IF log[Recorded].breaches # {} THEN "FAILING" ELSE "CLEAN"

\* company_screen shows what the engine finds today, once there is such a run.
Overview ==
  IF evidence = None \/ RulebookFingerprint = {} THEN "NEVER_ASSESSED"
  ELSE IF Recorded = None THEN IF log = <<>> THEN "NEVER_ASSESSED" ELSE "WITHDRAWN"
  ELSE IF Findings(RulebookFingerprint, evidence, today) # {} THEN "FAILING" ELSE "CLEAN"

-----------------------------------------------------------------------------
(* Properties.                                                             *)

TypeOK ==
  /\ rules \in [Duties -> [version : Versions, certified : BOOLEAN]]
  /\ queue \in Seq(Items)
  /\ evidence \in {None, Torn} \cup SUBSET Events
  /\ log = Torn \/ log \in Seq(Runs)
  /\ today \in Nat
  /\ request \in [Threads -> Asked]
  /\ settled \in BOOLEAN /\ kept \in Seq(Runs)

\* Records follow the queue: once nobody is ruling on anything, and the last ruling
\* was served alone to its end, the records of the firm are cleared or say of every
\* occasion what the latest item mapped to it says, and nothing else.  The records
\* are another file, and are written after the queue.
RecordsFollowTheQueue ==
  settled /\ Under(Ruling) = {} =>
    \/ evidence = None
    \/ /\ evidence # Torn
       /\ LET Says(i, d, day) == ~queue[i].dismissed /\ queue[i].mapped = d
                                 /\ queue[i].cand.day = day
          IN  \A d \in Duties, day \in Days :
                LET items == {i \in DOMAIN queue : Says(i, d, day)}
                IN  {e \in evidence : e.duty = d /\ e.day = day} =
                    IF items = {} THEN {}
                    ELSE {[duty |-> d, day |-> day, filed |-> queue[Max(items)].cand.filed]}

\* However requests overlap, nothing is on record for an occasion that no document
\* stated and no person ruled (to_evidence's boundary), nor twice for one occasion.
RecordsWereRuled ==
  evidence \notin {None, Torn} =>
    /\ evidence \subseteq ruled
    /\ \A e, f \in evidence : Occasion(e) = Occasion(f) => e = f

\* What an assessment wrote down stays written down, as it was: whoever assesses
\* later, and however those overlap, a log that can be read begins with the runs of
\* the last assessment that was served alone.
RunsAreKept == log # Torn => IsPrefix(kept, log)

\* A supervisor is never shown a position that is not the firm's: a firm said to be
\* clean, or failing, is so by its rulebook and its records as they are, on the day
\* it was assessed, and on that day its own overview says the same.  What decides is
\* two fingerprints, and not the inputs.
NoPositionIsStale ==
  evidence # Torn /\ log # Torn /\ SupervisedState \in {"CLEAN", "FAILING"} =>
    /\ (SupervisedState = "FAILING") =
         (Findings(RulebookFingerprint, evidence, log[Recorded].day) # {})
    /\ log[Recorded].day = today => Overview = SupervisedState
=============================================================================
