# Sanhita in TLA+

Sanhita reads a regulator's circular into clauses, compiles the clauses into
rules, has an officer certify them, runs the certified rules over a firm's records
and tracks the tasks that close what it finds. The state that matters is a handful
of JSON files: the rulebook with its audit ledger, the firm's records, the
assessments, the task file, the accounts and the index of firms. They are rewritten
whole by request threads of one web server, by compile jobs on its worker threads
and by command-line processes.

This directory holds TLA+ models of that core, TLC configurations that check
them on small instances, and TLAPS proofs, for every instance, about the rule
registry and the threads that share it, the rulebook file and the way it is
replaced, the engine and the screens that compute from the same rules and records,
remediation tasks and the work an amendment asks for, the firm's records
and assessments, whose files a request writes, uploads and accounts. Paths below are
relative to `src/src/sanhita/`.

To re-run: `tlc -workers 2 -config <run>.cfg <MC module>` for a run in the
table of section 3, and `tlapm <module>.tla` for the eight proof modules of section 4.

## 1. The system

### 1.1 The parts and their state

| part | state | operations | what is hard | what makes it correct |
|---|---|---|---|---|
| Rule registry, `certify/lifecycle.py`, `ir/schema.py` | every version of every rule, append-only; the MAC on signed ones | `propose`, `certify`, `reject`, `amend`, `as_of`, `verify_signatures` | `model_copy` copies a certification along and validates nothing; an amendment stores two versions; replay is by counting | the nth entry made the nth version; a signature covers what it sits on; the past does not change |
| Audit ledger, `certify/ledger.py` | hash-linked entries | `append`, `verify_chain`, `until` | length and head are read before the append | one entry per version, in order |
| Workbench, `web/app.py` | a registry per open document, shared by request threads, in a small cache | `certify`, `reject`, `edit`, `save`, `reload` | threads interleave inside one call; a failed save leaves memory ahead of the file; eviction makes a second Workbench | an unobserved call is one transition; what an officer was told is in the file |
| Rulebook file and lock, `cli_compile.py` | `rules.json`, `rules.json.lock` | `_load_registry`, `_save_registry`, `store_lock` | the lock covers the write and not the read; a dead writer leaves the lock | one writer at a time; the file holds a legal history |
| Atomic replacement, `cli_compile.py` | a temporary file, the target, the directory | `_write_atomically` | power loss between any two system calls; the temporary file's name is shared by the threads of a process | a reader and the platter see a whole file |
| Compile jobs, `web/jobs.py` | one job per document, its progress and cancel flag | `start`, `cancel`, `_work`, `on_done` | cancel races the last clause; save can time out; the registry saved was loaded long before | cancelled and failed runs leave no trace; a job ends |
| Command line, `cli_compile.py` | none of its own | `certify`, `compile`, `propose` and reports | a process beside the server, writing the same file | as the file |
| Firm's records, `company.py`, `execute/evidence.py`, `execute/ingest.py`, `execute/importer.py` | the review queue and the evidence made from it, two files | upload, map, dismiss, clear | later statements supersede earlier ones; clearing leaves the queue; two files saved one after the other, unlocked | the evidence is what the queue says, and nothing nobody ruled |
| Rule engine, `execute/*.py` | none | `run` over rules, records and a day | "nothing found" and "nothing checked" look alike; due today against due tomorrow; months, leap years, working days and holidays | due dates mean what they say; nothing is left uncounted; days passing change no verdict |
| Assessments, `assess.py`, `supervise.py` | runs with fingerprints of rules and records, written in place | `run_assessment`, `record`, `_current_assessment`, `build_view` | a run outlives its inputs; the log is read, changed and written unlocked | the run shown is one on today's inputs; runs stay written down |
| Remediation, `remediate/tasks.py`, `remediate/service.py` | tasks and their log | open, assign, attach, re-check | read-modify-write of one file with no lock; no status guard on attach and re-check | an unbroken log; closed means re-checked |
| Amendment work, action plans, controls, `diff/`, `change.py`, `analyse/references.py`, `orchestrate.py`, `remediate/amendment.py`, `controls.py`, `monitor.py` | tasks raised by a new circular, plans and decisions | compare, approve, decline, raise, attach, re-check | two files saved one after the other; the rules move under an open task; words go under another number | no signature over lost words goes unasked about; an approval has its work; closed means dealt with |
| Companies and adoption, `companies.py`, `web/adopt.py`, `web/app.py` | the index of firms, a file per kind, person and firm | arrive, save, choose, add, open, sign in and out | who asks and which firm is open is settled on arrival; files and index are read, changed and saved without a lock, one route awaiting its form in between; files are moved one by one; the index is written in place | no statement is under another name; none is lost or doubled, and no slot issued twice, where requests do not race |
| Workspaces and limits, `workspace.py` | a folder and two files per document, the limiter's memory | upload, same bytes again, open, compile, delete | two files written in place and unlinked one by one; uploads await their body, the rest runs on threads | what is listed can be opened until it is being deleted; quota, pace and owner hold |
| Accounts and sessions, `auth/` | the account file, signed cookies | sign up, sign in | look up, hash, insert and rewrite of one file | one account per address, kept once acknowledged |
| Reading, `parse/clause_tree.py`, `parse/anchors.py`, `parse/layout.py` | none | lines of a PDF to a tree of clauses | a number that opens a clause looks like one that is cited; stacks that sections, lists and annexures reset | no line is lost or read twice; one clause a number; parents are sound |
| Extraction, `compile/extract.py`, `temporal.py`, `llm.py` | none | clauses to proposed duties | passes with indices of their own; a model that answers anything or nothing | nothing is invented, confused or lost |
| Diary, forecast, health, `analyse/calendar.py`, `analyse/forecast.py`, `health.py` | none | reports of one day | code of their own for what the engine computes too | the screens do not deny each other |
| Other analyses, evaluation, views, `analyse/`, `eval/`, `metrics/`, `suggest.py`, `priority.py`, `ir/canonical.py` | none | reports, encoding | none: functions of their input | - |

### 1.2 How they interact

A request thread takes a Workbench from the cache (or loads one), calls the
registry, then `Workbench.save` copies versions and ledger and writes the file
under `store_lock`. A compile job loads the registry for itself, extracts
clause by clause, saves once at the end and calls `on_done`, which makes the
Workbench that was open when it started re-read the file. `sanhita certify` is
a separate process that loads, signs and saves. The remediation routes read
the assessment of record, run the engine over the evidence and rewrite the
task file, without a lock. The change routes compare two editions of a
circular with the rules as they are now, write the tasks of an amendment into
the same task file and the decision on the plan into `plans.json`, also without
a lock. A ruling on a document saves the queue and then draws the records from it
anew; an assessment runs the engine over rules and records and appends to the log;
the firm's overview and the supervisor's view look the last run up by fingerprints.
Whatever is a firm's is in files named after the visitor and the firm that was open
when the request arrived; signing in moves a visitor's files to the account. All
files but the assessment log, the evidence, the company index, the accounts and a
workspace's two files go through `_write_atomically`.

`PROJECT.json` lists every part with its status and every hazard with the
line where it bites.

## 2. The modules

```
RulebookPromise  <---refines---  RuleLifecycle  <---one call---  RegistryThreads
                                      ^                            (threads, one Workbench)
                                 RuleProofs                            <--- RegistryThreadsProofs

AtomicWrite      (one _write_atomically, system call by system call)      <--- RuleProofs
RulebookStore    (Workbenches, jobs, clerks, one file, one lock)       <--- RulebookStoreProofs
RemediationTasks (records, engine's answer, assessments, task file)    <--- RemediationProofs
AmendmentWork    (two editions, rules, plan, task file)                <--- CircularProofs
ClauseTree  <---extends---  Extraction    (a circular: lines, clauses, duties) <--- CircularProofs
DutyCalendar <---extends---  RuleEngine   (due dates; engine, diary, forecast, health) <--- RuleProofs
EvidenceReview   (documents, queue, records, assessments, what is shown) <--- EvidenceReviewProofs
RateLimit   <---extends---  Documents     (accounts, sessions, workspaces) <--- DocumentsProofs
FirmFiles        (whose files a request writes, index of firms, adoption) <--- FirmFilesProofs
```

**RuleLifecycle** is the registry and its ledger, one call at a time.
`versions[r]` is `RuleRegistry._versions[r]`, `ledger` is the `AuditLedger`,
`now` is the clock entries are stamped with. There is one action for each of
`propose`, `certify`, `reject` and `amend` (`AmendUnsigned` / `AmendSigned` are
its two branches), and `AsOf` is `as_of`. A *body* is everything
`signing_payload` covers except the version number; `Blocked` are the bodies
with a blocking issue. The schema is the set of bodies an edit may produce. The
MAC is collision free: a signature is the record of what was signed. The hash
link of an entry is in RegistryThreads, where it matters.

**RulebookPromise** is what an officer is promised, without versions, numbers
or a ledger: a text with an open question is not signed, a signed text gives
way to an amendment only, a signature stays in the archive.
`RuleLifecycle!Promise` is the refinement mapping.

**RegistryThreads** is what request threads do to one Workbench. Every read
and write of shared state that another thread can see is a step: the entry's
sequence number, its previous hash, the append, the store, the two halves of
the copy `_save_registry` makes, the lock, the write, the release. `StoreBusyError`
and a failing write are actions. It instantiates RuleLifecycle over the
*finished* registry (an entry whose version is not stored yet is hidden, and
half an amendment is too), so that "this call is one transition" can be said.

**RulebookStore** is the file and everybody who rewrites it. A registry is
represented by its ledger alone, which is what `NthEntryNthVersion` licenses.
Officers open a cached Workbench or load one, decide, and save; jobs load,
extract, save, reload; clerks load, certify, save. `Evict`, `WebDies`,
`ClerkDies`, the orphaned lock file and the person who deletes it are actions.
`Benches` bounds how many Workbench objects are alive, one no longer referred
to can be used again.

**AtomicWrite** is `_write_atomically` with a file system underneath that
keeps contents and names in memory, writes them back at any time in any order,
and guarantees only what `fsync` guarantees. `Locked` distinguishes
`rules.json` from the sidecar files. The directory `fsync`, which Windows
refuses and the code then skips, is taken to succeed.

**RemediationTasks** is the firm's side: the review queue, the evidence made
from it, the engine's answer for one day, the assessments of record, and the
task file with requests that read it, judge and write it back whole. Requests
that touch the records, the rules or the assessments are atomic. `attach` is a
coroutine without an await between its look at the records and its save, so it
runs alone among coroutines (`Attaching`) but beside the threads.
`RemediationStore.set_status` has no route in the web application and is left
out, as is the log's hash chain.

**AmendmentWork** is what an amended circular asks for. `edition` is the pair
of texts compared and never changes; `Diff`, `DependentsOf`, `Actions` and `Kind`
are `diff_trees`, the reference graph, and what `assess_impact` and
`plan_for_firm` make of them for the rules as they are now. An action, and its task,
is known by its kind and its clause, as `action_gap_id` has it: an added clause that
was compiled and refers to a changed one is to be assessed and to be read again, which
are two tasks. A clause carries one rule, and sub-clauses, which the code does not count as citing their own parent,
are not told apart; an extractor finds a duty in the texts of `Duties` only. A
request approves or declines the plan, raises the task of one action, attaches to
a task or re-checks it; each load and each save is a step, and `Following` is the
order a route takes them in, the tasks before the decision. `Done` is `_verdict`.
Officers and compiles are atomic here, RulebookStore having taken them apart, and
change the rules between any two steps of a request. Clauses are matched by number, and
only one that is gone is looked for, by its words, among those that are new; that
and the cap of four hops are the code's.

**ClauseTree** is `parse_clause_tree`: what is decided over the whole document
(`_find_regions`, `_section_ceiling`, `_choose_definitions`), and then one action
per branch of the walk over its lines; the actions exclude each other, as the
branches do. `builder` is `_Builder` with its stack, prefix and anchors. A line's
kind and number are what the recognisers would match in it, its indent, weight and
page are kept; an id is the sequence of the marks its text is made of, so that ids
are equal exactly when the strings are. `_parse_flat` is the second reading of a
circular without headings.

**Extraction** extends it with what a compile does to the clauses of a tree that was
read. A text is a sequence of the phrases the patterns find; `DutiesOf` is
`RuleExtractor.extract`, `Temporal` is `parse_temporal`, `Valid` the checks of the
schema. The model behind `LLMExtractor` is external: it errs, refuses or proposes
anything, and `VerifySpan` and `VerifiedDayCount` are what the code makes of it.

**DutyCalendar** has no state: days are numbers over a table of month lengths, with
the engine's due dates and, separately, as in the code, the diary's dates.
**RuleEngine** lets days pass and records come in over it. `Report`, `Diary`,
`Forecast` and `Signal` are what four screens compute from the same rules, records
and day. RemediationTasks uses an engine of one occasion and EvidenceReview one of
fixed deadlines; both are `_check` and `Findings` of this module on such a rule.

**EvidenceReview** goes from a firm's documents to the position it is shown.
`FromCsv`, `FromJson`, `FromXlsx` and `FromPdf` are the readers, row by row, by what
each does with a missing date, an unknown id or a row that names several rules. A
ruling saves the queue, opens the records' file and writes it, a step each; an
assessment reads rules and records, then the log, then opens and writes it.
`SupervisedState` and `Overview` are the two screens.

**RateLimit** is `RateLimiter` by itself. **Documents** extends it with accounts,
sessions and the folders of uploaded circulars. Sign-up is `SignUp` (looked up),
`Insert` (after the hash), `Dump`, `Open` and `SignedUp`; an upload is let pass or
refused, awaits its body, and lays down one file after the other. Deletion asks first
whether a compile runs (`Delete`) and then is `rmtree`: the folder is read (`Scan`), its
files are unlinked one by one in any order (`Unlink`) and the folder goes (`Remove`). It
may fail at any of them (`RemoveFails`), be cut short by a crash, or be met by an upload
or by the rulebook of a compile, and leaves what is left.

**FirmFiles** is about names: a path is a kind, a scope (the demonstration, a
visitor, an account) and a slot. A request carries the scope and slot it arrived
with; `Readable` and `Writable` are where it reads and writes. A request that changes
a file reads it in one step and saves in another, with its copy in `copy` or `list`
and anybody served in between: `ReadProfile` and `SaveFrameworks` around an awaited form,
`ReadRecords` and `SaveRecords`, or `OpenRecords` and `WriteRecords` where the code
writes in place, `Remember`, `NewFirm` and `OpenFirm` before `OpenIndex` and
`WriteIndex`. `SaveProfile` is one step since nothing it reads is kept of what the
model tells apart. `LookFor` and `Move` are adoption's look at a file and its `replace`;
`ClearRecords` unlinks what is shown. What was open when it was moved, replaced or
unlinked is written where it is now, or nowhere (`Opened`).

The `MC*` modules only add values for TLC and the symmetry sets. A definition
whose comment begins with "Mutant" is a plausible bug of the definition next
to it, kept to show that each property can fail; no specification uses it.

History variables named `alone`, in RegistryThreads, RemediationTasks and
AmendmentWork, and the field of that name in EvidenceReview's requests, record that
no other request has overlapped. They restrict
nothing; properties use them to say "as long as calls do not overlap", because
the code has no lock that would make the same thing true otherwise, and section 5
lists what happens when they do. The others, each named as history where it is
declared, remember what the code forgets: `AmendmentWork!unread`, the re-read tasks
raised since which nobody has signed the rule; `EvidenceReview!ruled`, `settled` and
`kept`, what was ever ruled, whether the last ruling ended alone, and the runs an
assessment that ended alone left; `Documents!told`, `crossed`, `overtaken`
and `removed`, the accounts acknowledged, whether sign-ups overlapped or were cut short,
documents deleted under a compile, and documents whose deletion began and which are
neither gone nor laid down anew; `FirmFiles!said`, `cleared`, `racedFiles` and
`racedLists`, what was stated, which statements were cleared, the stores that a request
changed or moved between another's reading and saving or that a crash cut short, and the
same of a person's index. A race is of one store of one firm, and excepts that store
alone: requests that overlap on anything else are within what is promised.

A `TypeOK` documents the types of each module's variables. It is no property of a
run; those of RuleLifecycle, EvidenceReview and FirmFiles are theorems, and those of the engine
(`EngineTypeOK`) and of the limiter are parts of their inductive invariants.

## 3. What each run checks

| run | module | instance | what it shows |
|---|---|---|---|
| `lifecycle` | MCRuleLifecycle | 2 rules, a blocked and a plain body, 5 entries, 2 moments | replay by position is exact, signatures hold, a superseded text is always replaced, the past is fixed, the promise is implemented |
| `threads` | MCRegistryThreads | 2 threads, 1 rule, 2 calls | in memory and on disk no version is unrecorded, and the file is a past of the registry (`StoreIsSound`); a call nobody overlaps is one transition; every call is answered and unlocks |
| `store` | MCRulebookStore | 1 officer, 1 job, 1 clerk, 2 Workbenches, 2 acts, 1 death | the lock excludes, and whoever overwrites whom, the file holds one legal history (`StoreIsSound`); an officer working alone loses nothing acknowledged |
| `store_jobs` | MCRulebookStore | 1 officer, 2 jobs over 2 rules, 1 Workbench, 1 death | cancelled and failed jobs leave no trace; every job ends, locked out or not |
| `write` | MCAtomicWrite | 3 locked writers in 2 processes, 4 inodes, 1 power loss | a reader and the platter only see a whole file |
| `remediation` | MCRemediationTasks | 2 threads, 1 rule, 1 occasion due tomorrow, 4 calls, 3 changes, 1 day | the log tells each task's whole story, also under overlap, and a closed task was re-checked (`HistoryIsSound`); without overlap nothing is opened on a cured breach or closed over a live one |
| `amendment` | MCAmendmentWork | 2 threads, 3 clauses, 4 amendments, 3 calls, 3 acts, 1 tick, 1 crash | whatever was compiled, edited or signed since, a signature over lost words has an action; without overlap an approval has its tasks on file, crash or not, an action is in one pair of hands, closed stays dealt with |
| `reading` | MCExtraction | circulars of up to 4 lines of 14 shapes, one-clause circulars of every text of up to 3 of 18 phrases and of a plain duty in company of up to 3 more, 3 circulars for a model | no line is lost or read twice; a dotted number opens one clause; parents are sound; every field of a duty quotes the words it is read from, no two duties share an id, none found is lost (`CompiledIsSound`) |
| `engine` | MCRuleEngine | 1 rule of 21 shapes, 2 occasions, 5 days from 4 starts in 2024 | due dates mean what they say; what is owed stood in the diary; the screens agree and nothing is uncounted, but occasions of a deadline that runs backwards (`ReportIsWhole`); days passing change no verdict |
| `records` | MCEvidenceReview | 1 rule amended once, 5 documents of the four formats, 3 items, 2 threads, 4 requests, 3 days, 1 crash | records follow the queue and hold only what was ruled; assessments stay written down; no position shown is of other inputs |
| `documents` | MCDocuments | 2 people, 2 documents that do not both fit, 2 threads, 2 sign-ups, 2 uploads, 1 compile, 1 deletion, 2 ticks, 1 crash | until its deletion begins, what is listed can be opened, and all fits (`FoldersAreSound`); uploading again keeps what is there; accounts and pace hold |
| `firms` | MCFirmFiles | 2 people, 2 requests at a time, 4 in all, 2 firms, 2 statements, 1 crash, a shared deployment | a file holds its maker's and firm's statements, whatever overlaps; where nothing was raced for, every statement is in one file and slots with files were issued |

A property written `A == B /\ C` is one run property for two facts of one concern;
both names stand in the module with what they say.

### Bounds and why they are enough

- *lifecycle*: two rules are the fewest for which counting entries *of a rule*
  differs from counting entries. Five entries hold propose, certify, the two of
  an amendment and one more for the other rule or the recompile. Two moments
  separate "then" from "now", and entries stamped alike from entries stamped
  apart. The proofs of section 4 remove all these bounds.
- *threads*: every overlap of a registry call is between a reader of the
  current version and one writer, so two threads and two calls hold every
  pair, the two-step amendment against each included. `MaxLedger` and `MaxTime`
  belong to the instantiated RuleLifecycle and never bind here, which for
  `MaxLedger` is `RoomAssumption`. The proofs of section 4 take any number of
  threads, rules and calls.
- *store*: one writer of each kind, so each pair of kinds overlaps; two acts so
  that an acknowledged act can be followed by one that overwrites; two
  Workbenches, the cached one and the one an evicted request still holds; one
  death, which with a writer in any place orphans the lock. Two rules add only
  independent histories and are used in `store_jobs`, where a job must be
  stopped *between* clauses. The proofs of section 4 take any number of each.
- *store_jobs*: one Workbench suffices since officers do not act; while a job
  holds it after an eviction, it cannot be loaded again, which only delays the
  next start. Two jobs for the refusal of the second; one death for the
  orphaned lock that JobEnds must survive.
- *write*: two threads of a process share a temporary file and a third writer
  in another process does not. One inode per writer and the target. The losing
  of power is a state reset, so a second loss reaches nothing new once the
  writers not yet started are still free to run.
- *remediation*: task ids and gaps of different rules are disjoint, so one rule;
  an occasion due tomorrow passes through not due, due and overdue; four calls
  are open, attach, re-check and one overtaking them; three changes are enough
  to breach, cure and breach again. The proofs of section 4 remove these bounds, as
  they do those of *records*, *documents* and *firms*.
- *amendment*: three clauses hold a chain of citations of two hops, a clause
  renumbered under the eyes of one that cites it, a removal beside an addition, and
  an added clause that cites a changed one; the four pairs of editions show one of
  these each. In the last the added clause is to be assessed, and once compiled to be
  read again: both tasks may be open. Four hops, the
  code's cap, are never reached by three clauses. Three calls are raise, re-check
  and raise again, or an approval, a crash and a second approval; three acts are an
  edit, a compile and a signature; one tick separates a task raised from a rule
  signed. The proofs of section 4 remove these bounds.

- *reading*: four lines hold a heading, a clause under it, a number that is both
  opened and cited, and one that comes after; or a heading, an annexure, a number in
  it and an appendix. The shapes differ in everything the walk looks at, and the
  contents page is put before shorter documents. Texts need a subject, a verb and
  what is done to be a duty at all, so the richer texts are laid around a plain one;
  up to two phrases after it hold two deadlines, a recurrence with a deadline, and a
  condition with another. A model proposes one duty a clause; its two attempts are
  those of the code.
- *engine*: the days begin at the end of a leap February, of a quarter with
  holidays, of a half-year and of a year, so that every period closes within five
  days of some start; `Window` is the code's 365 days and `Horizon` the forecast's
  30. Rules do not interact in a run, so one rule of every shape. The table holds the
  years 2023 to 2025, which every day looked at and every due date is in. Two shapes
  have a negative number of days, calendar and working; the proofs of
  section 4 remove these bounds.
- *records*: an occasion, first unfiled, then filed late or in time, is what
  supersession needs; a row without an id, without a date and of an unknown id are
  the other branches of the readers. Four requests are two rulings and an assessment
  before and after; two threads overlap any pair; `Terms` makes the amended rule
  stricter, so that the same record changes its verdict.
- *documents*: two documents, of which one and two fill the quota, for the check
  before the write; a limit of one in a window of two ticks for its boundary; two
  sign-ups with one address or two; one crash anywhere in a file; one deletion, which
  takes up to three files, stops at any of them or meets an upload of the same bytes.
  That two deletions of one document meet is left to the proof, which takes any number.
- *firms*: the fewest of everything for which a file can be another's; two files a
  visitor has are moved with a crash, or another request, between them. Four requests
  are a statement, a sign-in and two more that meet it, or a firm added, opened and two
  statements of it; races for a file or an index need two, and both happen within the
  bound. The proofs of section 4 take any number.

`CHECK_DEADLOCK FALSE` everywhere: the bounds on calls, acts and entries make
every instance stop in the end. That nothing blocks is stated by `Answered` and
`JobEnds` instead.

Symmetry is used for interchangeable Workbenches and officers (`store`), inodes
(`write`), request threads (`remediation`, `amendment`, `records`, `documents`) and
people (`documents`, `firms`, with their tabs); never in a run with a liveness property. Nothing names a particular member of these sets.

### Fairness

`RegistryThreads!FairSpec` is weak fairness of each thread's `Continue`, and
`RulebookStore!FairSpec` of each job's `Working`: the operating system runs
every thread that can run, and Python threads are preempted. Taking the lock
needs no strong fairness, because a thread that finds it taken can give up after
ten seconds (`GiveUp`, `Busy`), which is as much an answer. New requests, cancels,
evictions, crashes and the deletion of an orphaned lock are never fair: they
need not happen. A crash of the web process ends its jobs (`lost`), which the
code cannot record and the model does so that JobEnds says what it should.

## 4. What is proved

Every theorem is about all values of the constants that the assumption of its module
allows. Threads, people, documents, texts and the bounds on calls, acts and crashes
are arbitrary unless said otherwise; what is assumed is this.

| assumption | what it says, and why it may be assumed |
|---|---|
| `LifecycleAssumption` | `Blocked` is a set of bodies; `NoBody`, `NoSignature` are none; bounds are naturals. The sets may be infinite. |
| `ThreadsAssumption`, `RoomAssumption` | finitely many threads and rules; RuleLifecycle's bound on transitions, which the code does not have, is out of the calls' reach (two entries a rule to begin with, two a call) |
| `StoreAssumption` | finitely many rules; officers, jobs and clerks are different things |
| `WriteAssumption` | every writer has a process; the theorem is about writers that take the lock (`Locked = TRUE`), for any number of power losses |
| `AmendmentAssumption` | a circular has finitely many clauses, in a total order (natural numbers); a text refers to clauses; `Duties` are texts |
| `ClauseTreeAssumption`, `NumberAssumption` | a document is a sequence of lines of the recognised kinds; a heading or an item has a number, whose first part is one to three digits and not 0. The pattern would match a heading numbered 0, which no circular has; below a clause of its own the tree would put it over that clause |
| `ExtractionAssumption` | lengths, distances and the number of conditions kept are naturals |
| `TasksAssumption` | an occasion has one rule and a due day; rules are not occasions; nobody's file is `None` |
| `ReviewAssumption` | a document has a format and a sequence of rows; nothing is neither a rule, a number, a request nor a set of records |
| `CalendarAssumption` | months follow each other with the lengths the Gregorian calendar gives them, a February having 28 or 29 days in any order of years; any list of holidays |
| `EngineAssumption`, `TableAssumption` | a rulebook holds deadlines the schema accepts, for finitely many obligations; `365 <= Window <= Lookback`, the code's values being 365 and 400; the table of months holds the days looked at, eleven months after them, and every due date: the real calendar ends in the year 9999 |
| `LimitAssumption`, `DocumentsAssumption` | limit and window are positive; a document has a size; an absent or torn file is no list of accounts, and no request is none of the kinds of request |
| `FirmsAssumption`, `NoFileAssumption`, `NoListAssumption`, `NoRequestAssumption` | at least one firm can be had; an absent or torn file is no set of statements, an absent or torn index no list, no request no request. `FilesAlwaysOfOneFirm` and `StatementsAlwaysKept` are about a deployment several people share (`Shared`); on a laptop a second firm is shown the first one's files (section 5). That no requests race is no assumption but part of the properties |

| theorem | module | states |
|---|---|---|
| `TypeCorrect` | RuleProofs | `Spec => []TypeOK` |
| `SignaturesAlwaysHold` | RuleProofs | `Spec => []SignaturesHold` |
| `SupersededAlwaysReplaced` | RuleProofs | `Spec => []SupersededIsReplaced` |
| `EntriesAlwaysAligned` | RuleProofs | `Spec => []NthEntryNthVersion` |
| `PresentAlwaysCurrent` | RuleProofs | `Spec => []PresentIsCurrent` |
| `PastAlwaysFixed` | RuleProofs | `Spec => PastIsFixed` |
| `HistoryAlwaysGrows` | RuleProofs | `Spec => HistoryOnlyGrows` |
| `PromiseAlwaysKept` | RuleProofs | `Spec => KeepsPromise` |
| `FileAlwaysWhole` | RuleProofs | `Locked = TRUE` gives `WriteSpec => []FileIsWhole` |
| `DueDatesAlwaysSound` | RuleProofs | `EngineSpec => []DueDatesAreSound` |
| `OwedAlwaysForetold` | RuleProofs | `EngineSpec => []OwedAndForetold` |
| `FindingsAlwaysStay` | RuleProofs | `EngineSpec => FindingsStay` |
| `ReportAlwaysWhole` | RuleProofs | `EngineSpec => []ReportIsWhole`, for every rulebook the schema accepts |
| `StoreAlwaysRecorded` | RegistryThreadsProofs | `Spec => []StoreIsSound` (entries for all versions; the file is a past state) |
| `CallAlwaysTransition` | RegistryThreadsProofs | `Spec => CallIsTransition` (a call nobody overlaps is one step of RuleLifecycle) |
| `StoreAlwaysSound` | RulebookStoreProofs | `Spec => []StoreIsSound` (one writer; one legal history) |
| `OnlyFinishedJobsEverWrite` | RulebookStoreProofs | `Spec => []OnlyFinishedJobsWrite` |
| `AcknowledgedAlwaysStays` | RulebookStoreProofs | `Spec => []AcknowledgedStays` |
| `HistoryAlwaysSound` | RemediationProofs | `Spec => []HistoryIsSound` |
| `RaisedAlwaysInBreach` | RemediationProofs | `Spec => OpenedInBreach` |
| `ClosedNeverInBreach` | RemediationProofs | `Spec => NotClosedInBreach` |
| `NothingIsEverLost` | CircularProofs | `CompileSpec => []NothingIsLost` |
| `NumbersAreDefinedOnce` | CircularProofs | `CompileSpec => []DefinedOnce` |
| `TreeAlwaysSound` | CircularProofs | `CompileSpec => []TreeIsSound` |
| `CompiledAlwaysSound` | CircularProofs | `CompileSpec => []CompiledIsSound` |
| `LossNeverMissed` | CircularProofs | `Spec => []NoLossMissed` |
| `ApprovedWorkAlwaysExists` | CircularProofs | `Spec => []ApprovedWorkExists` |
| `OneTaskAlwaysOpen` | CircularProofs | `Spec => []OneOpenTask` |
| `ClosedAlwaysDealtWith` | CircularProofs | `Spec => []ClosedIsDealtWith` |
| `TypeAlwaysOK` | EvidenceReviewProofs | `Spec => []TypeOK` |
| `RecordsAlwaysFollow` | EvidenceReviewProofs | `Spec => []RecordsFollowTheQueue` |
| `RecordsAlwaysRuled` | EvidenceReviewProofs | `Spec => []RecordsWereRuled` |
| `RunsAlwaysKept` | EvidenceReviewProofs | `Spec => []RunsAreKept` |
| `PositionsNeverStale` | EvidenceReviewProofs | `Spec => []NoPositionIsStale` |
| `UploadsAlwaysPaced` | DocumentsProofs | `Spec => []Paced`, and of the limiter alone `LimiterAlwaysPaces` |
| `AccountsAlwaysKept` | DocumentsProofs | `Spec => []AccountsAreKept` |
| `FoldersAlwaysSound` | DocumentsProofs | `Spec => []FoldersAreSound` |
| `UploadAlwaysKeepsWork` | DocumentsProofs | `Spec => UploadKeepsWork` |
| `FirmsAlwaysTyped` | FirmFilesProofs | `Spec => []TypeOK` |
| `SlotsAlwaysIssued` | FirmFilesProofs | `Spec => []SlotsAreIssued` |
| `FilesAlwaysOfOneFirm` | FirmFilesProofs | `Shared` gives `Spec => []FilesAreOfOneFirm` |
| `StatementsAlwaysKept` | FirmFilesProofs | `Shared` gives `Spec => []StatementsAreKept` |

*The registry.* `StepShape` reduces a step to three shapes: the registry is
untouched, one entry and version are stored, or the two of an amendment of a
signed rule. Every invariant is then a fact about `Logged` and `Stored`, proved
once as a lemma and applied once or twice.

*Why `SignaturesHold` is not inductive alone.* `reject` refuses only CERTIFIED.
If the current version could be SUPERSEDED it would become a REJECTED one with a
certification on it. It cannot be, since a superseded version is always followed
by the proposal that replaced it: `RegistryInv` is `TypeOK`, `SignaturesHold` and
`SupersededIsReplaced` together. (Two threads do break exactly this conjunct half
way through an amendment, see section 5.)

*Replay.* `ReplayInv` adds `NthEntryNthVersion` and that no entry is stamped later
than the clock. `CountPrefix`, `CountAppend` and `CountAtEntry` say what counting
the entries of a rule does when an entry is appended. `PresentIsCurrent` follows
because all entries are in the past of `now`; `PastIsFixed` because an entry made
now does not count for an earlier moment, and the version a position names is
never replaced.

*Promise.* Step simulation under the mapping, with `RegistryInv` for the cases
where the promise's guard needs it.

*The calendar.* The code gets from one date to another by walking: day by day for
working days, week by week or month by month for the closes in a window. The lemmas
replace each walk by what it arrives at. `FirstDayIs`, `LastDayIs` and `MonthIs` say that
the months cut the days into intervals in order, and `EndIs` that all days from one to the
end of its period have the same end, which gives its monotonicity (`EndMono`).
`PassesAre` says that a loop passes the first day of the window and of every week or
month begun in it, whence `OccasionsAre`: the dates collected are the days of the
window that are the ends of their own periods. The diary's loop, written out a second time
in the code, is the same but for daily duties, so that what is owed was foretold.
`WorkingDays` says that a count of working days passes exactly as many open days and
stops at the first day that does, `MonthsOn` that a clamped month stays in the month it
lands in, and `DueMono` puts them together: a later clock never runs out earlier. What is
recursive here is proved from the least place at which it could fail (`UpTo`), without
induction over an operator.

*The engine.* `EngineInv` is `EngineTypeOK` with the records being finite; once the calendar
is known the four properties follow from it, for any number of rules, days and records.
`YearIs` says that a year has no more than 366 days, and a window that reaches back 365
days has 366, both ends counted: every period closes in it (`OccasionsExist`). So
a rule that was found without evidence today is still evaluated tomorrow
(`EvaluatedTomorrow`) and found wanting again, and an occasion that is missing or late
stays so, its due date not depending on the day. That the report adds up is a partition of
rules by `Treatment` and of occasions by their verdict, with one breach an occasion
(`BreachesAre`). The schema bounds hours and months below and not days, and the theorem
is about negative ones too: `ReportIsWhole` names the occasions of such a deadline as
the ones the engine drops, and says that it drops no other, and no rule.

*Reading a circular.* Each branch of the walk does one of three things to a line: a
node is opened with it, it is appended to the last node, or it is passed over
(`OpensWell`, `AppendsWell`, `PassesWell`, for all branches in `EveryLine`). `ReadInv`
has what makes each of them keep the three properties. `PagesInv` says that annexures
and appendix are entered where they start and not left again, so that a line the walk
passes over as theirs is one the whole document says may be. `TextInv` says that the lines read are in some node or
were passed over, each in one node, and that nodes hold them in order.
`ChosenInv` says that a dotted line opened a clause exactly when it was chosen to, which
gives `DefinedOnce` with `OneDefines`: of the lines with one number the leftmost, and of
those the earliest, exists and is one only. `TreeInv` says that a node is below its
parent and was opened after it, and `StackInv` that the stack holds nodes of the section
being read, so that what `place` leaves on top may be a parent. `SectionInv` says that outside
the annexures the stack has the last section at its bottom, which a clause needs
to be under one. The flat reading keeps the shape, the tree and the stack; what is
said of a walk by headings does not apply to it. `ReadInv` was checked by TLC on the
`reading` instance before it was proved.

*Extraction.* `CompileInv` adds three parts to `ReadInv`. `IdsInv`: the ids of nodes are
distinct; `UniqueIsNew` says that `_unique` always finds a suffix that is free, as there
are more copies of an id than nodes with one (a pigeonhole), and every branch of the
walk, and the flat reading after it, opens its node through it. `LinesInv`: what a node
holds are lines of the document, so that the text of a clause is a sequence of phrases.
`OutcomesInv`: every outcome is of a clause of its own, and its duties are sound. That a
duty is sound is a fact about the operators, for a text of any length. `TemporalSays`:
the deadline read is the one the phrase it is read from states, whichever shape was tried
first. `InOrderPlaces`: the k-th place in order is the one that k places do not exceed,
from which `ConditionsSaid` has that each condition is filed where its words are, and the
threshold after them all. `DutyIsSaid` and `DutyIsValid` are about the rules, `ProposedDuty`
about whatever the model answers. `FlatteningExists` and `FlattenedTyped` give the
text its type without induction over data: the first place a flattening could fail at
does not exist. The parts of `CompileInv` were checked by TLC on the `reading` instance
before they were proved.

*Amendments, the rules.* `NoLossMissed` is not inductive alone: an edit makes a
rejected rule a proposal and a signature follows, so every rule that exists must
hold the words of one of the two editions (`RuleInv`, `TextKept`). `LossIsHit` then
says that words of the earlier edition which the later one does not hold under the
same number are MODIFIED, REMOVED or RENUMBERED and never taken for an addition;
the delicate case is a landing, and `LandedCame` shows a landing is a clause that
was not there before (the smallest of a non-empty set of numbers exists).

*Amendments, the requests.* `SoloInv` says, while `alone` holds: at most one thread
is busy; the task file, and the copy a request is about to save, are `Good`; the
copy has every task the file has; what an approval will name is in it; the decision
it read is still the one on file. `Good` adds to the two properties of the file what
makes the verdict on a re-read sound: a task that still counts as unread belongs to
a rule not signed since it was raised. `OfficersShape` reduces an officer's act or
a compile to what tasks notice of it, and `RaiseIsGood` and `JudgeIsGood` say that
the two kinds of work on the file keep it good. `RuleInv` and `SoloInv` were checked by TLC
on a smaller instance of the `amendment` run before they were proved.

*Remediation, the log.* `HistoryIsSound` survives any overlap because a request
writes back a whole file it has changed soundly. `TasksInv` says that the file and
every copy are `Whole` (the entries of a task chain from its creation to its present
status, and a closed one's end in a re-check), and `RequestSound` what a copy holds
at each place of a request. One entry more either continues the chain of its task or
begins it (`Continues`, `NewEntry`); closing is three entries, taken one by one.

*Remediation, breaches.* `OpenedInBreach` and `NotClosedInBreach` need that what a
request looked up holds when it writes, without overlap. `LoopInv` adds what makes
that inductive: a task is filed under its gap's rule (`CopiesFiled`); the findings of
an assessment hold today on its records unless the rule has had another edition since
(`RunsSound`: days passing make no finding go away); and while alone, one request at
most is busy, what it was asked to open is a finding today, its copy is the file and
its judgement is today's (`Solo`). TLC checked it on the whole `remediation` instance
before it was proved.

*Records.* The readers and `ToEvidence` are recursive functions over the rows of a
document and the items of a queue. What they compute is obtained without induction
over data: `UpTo` (least counterexample, from the well-foundedness of the naturals)
and `StepsExist` (a function that takes a step at every place exists) give the
function, and one lemma says what a step adds, by which `ToEvidenceSays` characterises
the evidence of a queue as the latest statement of each occasion.
`ReviewInv` is `TypeOK` with four parts. `RuledInv`: what any queue, on file or in a
request, makes a record of was ruled. `FollowInv`: a ruling that met no other has the
queue there is, and the records are what it has done to them so far. `LogInv`: every
run on the log, or about to be written, has the findings of its own inputs.
`KeptInv`: whoever is about to write the log has in it what was written down before.
`NoPositionIsStale` follows from `LogInv` and the fingerprints the screens look up.

*Accounts and folders.* `AccountsInv`, as long as sign-ups do not overlap: at most one
is under way, and what it knows at each stage is what stands between the users in
memory and those on file. `FoldersInv` adds to `FoldersAreSound` that at most one
upload lays down files (the event loop), that what it has laid so far is there unless
the document was overtaken or is being deleted, and that a document some request is
unlinking is in `removed`; so a deletion that has begun, stopped or died takes nothing
from a document that is laid down after it. Bytes are counted as a set, so that the
quota is a matter of cardinalities of disjoint unions.

*Whose files.* Three invariants, each on top of the one before. `Typed`: types, where a
request can be and what it has at hand there (`PlacesOK`), and that the numbers in a
list, on file or about to be saved, count as issued (`NumberedInv`). `Firms`, of the
indexes not in `racedLists`: one request at a time is about a list, and what it is to
save has every firm of what it read (`ListsOK`), so that saving forgets no slot; then a
request of a later firm, and a file of one, is of a firm in the list (`SettledInv`,
`SlotInv`). `Files`: a statement, in a file or in a copy, is known by its number and is
where its person's and firm's statements of its kind are (`Placed`, races or not); and
for each store not in `racedFiles` (`StoresOK`) one request at a time holds it
(`OneHolder`), what that request read is what is there still (`StillSo`), a statement
is in one of the store's files (`Single`), and what is missing was replaced or cleared
(`Kept`). A race enters a store in `racedFiles` in the step that makes it, so that every
other step of another request leaves the holder with what it read. Adoption moves a
whole file between two scopes of one person; a request that opened the file before and
writes after finds it moved.

*The limiter.* `Paced` speaks of all uploads ever let pass, and the limiter of those
it remembers, so `LimitInv` adds `Remembers`: moments are in order, and whatever is
within the window is remembered. If the one `Limit` before the next had not left the
window, it and all since would be remembered (`OldestHasLeft`), and they are `Limit`
of them, counted as an interval of numbers: the next would be refused.
`ServerStepsLimiter` says that every step of the server but a crash is one of the
limiter or leaves it alone; the crash empties the memory, as a restart does, and the
history with it.

*The threads.* `NothingUnrecorded` counts, and is not inductive: between the entry
and the version a thread has entered what is not stored. `Balanced` counts the
threads waiting there as well: versions stored and threads waiting are together no
more than the entries. An append adds an entry and a waiting thread, a push turns a
waiting thread into a version. `CopySound` says what a save has collected at each
stage; collecting the versions first and the ledger after them is what makes the
copy sound, since the ledger can only have grown in between. Versions and entries
only grow (`Starts`), which gives `StoreIsPast`. What an entry or a version holds
besides rule, status and number plays no part, so the argument is about sequences of
anything.

*A call nobody overlaps.* Here the content matters. `Unobserved` says how far the
lone call has got: either nothing of it is stored and its plan was made for the
version that is current still (`FirstHalf`), or its superseded version stands on what
it began with and the replacement is what is left to do (`SecondHalf`); at the push,
its entry is one more. What a call finds when it begins is a finished registry,
because whenever a superseded version, or its entry, is the last, the call that made
it is still at work (`Replacing`), overlapped or not. Then entering a version changes
nothing a caller sees (`AppendUnseen`), and storing one is a stutter or exactly
`Certify`, `Reject` or either branch of `Amend` (`PushSeen`). `RoomLeft` counts the
entries the calls under way have still to make, which keeps the number of entries
below RuleLifecycle's bound. `CallsInv` was checked by TLC on the `threads` instance
and on one of two rules before it was proved.

*The rulebook file.* Whoever writes, writes a history that was loaded from a legal
one and extended by legal acts only, so `LogsInv` says that the file, every Workbench,
every private copy and everything about to be written is a legal history
(`LegalLogs`); `ActIsLegal` is the one lemma about histories. Overwriting somebody
else's work replaces one legal history by another: legality survives, the work does
not. `OneWriter` is inductive with the places of the writers.

*Jobs and acknowledged acts.* A proposal of a job gets into a registry through that
job or through the file alone, and the file is written by a job that then has
finished, whatever happens to it later: `AuthorsInv` says so of the file, every
Workbench and every copy, and is inductive with `JobsInv`, what state a job at each
place is in. `LoneInv` is about the one officer nobody else writes beside: the file,
his Workbench and the payload he is about to write hold all that was acknowledged to
him, unless they show an act of a clerk, who saves at once and leaves a trace.

*Replacing the file.* `WriteInv` says that at most one writer is inside, that only
its process has a temporary file (`LockInv`), and what it has done so far
(`Progress`): until the rename the temporary file is neither what a reader sees nor
what the platter has, and after `fsync` memory and platter hold the whole of it.
Nothing is assumed about when the system writes back. Without the lock the theorem is
false, see section 5. `WriteInv` was checked by TLC on the `write` instance before it
was proved.

Only model-checked:

- Liveness, `Answered` and `JobEnds`: fairness and ENABLED are beyond the prover.

Every other property of a passing run is stated by a theorem.

## 5. Where the code and its documentation disagree, and what else the models show

No run ends in a counterexample. Each of the following is a behaviour of a model
that a property above had to step around, or that was met while writing or proving it;
most are a plain consequence of a missing lock, guard or comparison.

*Certification and the rulebook file.*

- A reject that reads between the two stores of an amendment saves a REJECTED
  version with a certification on it, and the schema refuses to load the file
  afterwards (`certify/lifecycle.py:263`).
- A rule signed while a compile runs is a proposal again once the compile saves
  (`cli_compile.py:170` covers the write only). The last save wins in general: a
  signature made on one Workbench or by a clerk can be overwritten, and overlapping
  calls break the ledger's sequence numbers and hash links, which `verify_chain` then
  reports.
- Two threads of the server that save one sidecar file share a temporary file, and a
  reader can see half of it: `write` is about writers that hold the lock.
- After an eviction a job's `on_done` refreshes a Workbench nobody is given any
  more; the cached one stays stale until the next reload.
- REJECTED is not final: a recompile or an amendment revives the rule. A recompile
  also lands on top of an officer's unsigned amendment, and at 1.0.0 whatever number
  the rule has reached, so two different signed texts can both be 1.0.0. `sanhita
  certify` saves without the circular id and the tree fingerprint the file had.

*Tasks and amendments.*

- A re-check that looked at no occasion, the only one not being due yet, closes the
  task. One closes on any record of the rule, not necessarily the one attached.
- A gap may have two open tasks and a closed task may be re-opened, since attach and
  re-check look at no status. With overlapping requests the log loses entries, and a
  task may be opened on a breach cured, or closed over one that arose, in the
  meantime; `OpenedInBreach` and `NotClosedInBreach` say "without overlap".
- References are looked up in the later edition, where a clause that was removed or
  renumbered no longer is, so a signed rule that refers to it is not put up for
  re-reading (`diff/impact.py:231`).
- A plan that was declined and is then approved raises its tasks and stays DECLINED.
- After a rule was compiled again and signed on the new words, the comparison still
  calls its signature lost, because it compares editions and not what was signed;
  raising the action again makes a second task. A task to re-point a renumbered rule
  cannot be closed in the application: no act moves a rule to another clause.

*Reading.*

- Text above an appendix heading on the heading's own page is in no node.
- `_choose_definitions` does not stop at the appendix, so a number printed there
  further left takes the clause's place and both are lost to the appendix's text.
- A cross-reference pops the stack before it is recognised as one, and a local list
  inside a section never gives its prefix back: what follows hangs on a shallower
  clause or is numbered within the list. A section whose number is misprinted high
  turns the following ones into local lists.
- `parent_for` compares depths and not numbers, so 3.2.1 may hang on 3.1; numbers of
  an annexure without a shallower one before them hang on the annexure.
- The flat reading also reads pages whose annexure or appendix is in nodes already
  (`NothingIsLost` is about documents with headings).

*Extraction.*

- "Half yearly" and "fortnightly" have no period of their own, and a duty that has
  only that is due at the end of the day (`Duty`'s deadline).
- A clause has one deadline, one trigger and one set of conditions, whichever of its
  duties they belong to; the first shape in the patterns' order wins, wherever it
  stands. One invalid duty fails its whole clause.
- A condition too short to be kept shifts the spans of those after it onto others.
- `_verified_day_count` accepts any convention stated near the words cited.
- Section headings' own text is never compiled, and annexures are not at all.

*The engine and its screens.*

- A deadline of a negative number of days is refused neither by the schema
  (`ir/schema.py:235`) nor by the edit form (`web/app.py:1114`), a model's answer
  (`compile/llm.py:158`) or `_why_not`. The rule counts as evaluated, and each of its
  occasions is dropped where `_check` catches the calendar's `ValueError`
  (`execute/engine.py:302`), although "No rule is silently skipped" (`execute/engine.py:14`).
  The run has such rules; `ReportIsWhole` excepts their occasions (`Backward`) and fails
  without the exception, with one occasion on record.
- A silent rule is found wanting at the close of its period although its deadline
  allows days after it; `END_OF_PERIOD` ignores a count of months.
- Rules of flattened tables are left out of the diary and of the forecast and not by
  the engine (`OwedAndForetold` says so).
- An occasion due today and not filed is MISSING and clears if it is filed today;
  the health page calls an unfiled one UNFILED before it is due.
- The window of 365 days, both ends counted, is the least that always holds a
  leap year's close; a day less lets a finding flicker, which is the mutant of `FindingsStay`.

*Records, assessments and supervision.*

- Two people's rulings that overlap: the later save drops the other's ruling or
  upload, whose ids are used again, so that a mapping can land on another candidate
  than the one shown.
- A crash between the queue's save and the records' leaves records behind until the
  next ruling. A torn `assessments.json` fails every page that reads it.
- Clearing the evidence is undone by the next upload, mapping or dismissal, also an
  upload nobody can read, since all of them draw the records from the queue.
- The same inputs on another day give other findings, and `record` takes them for
  the same run: a firm that fails today is on the record as it was assessed, and the
  supervisor reads CLEAN beside an overview that reads FAILING (`assess.py:11-13`,
  `supervise.py:19-23`; `NoPositionIsStale` is about the day of the assessment).
  Clearing the evidence shows the supervisor WITHDRAWN and the firm nothing.
- `_supervisory_view` looks for the firm's profile beside the store and without the
  firm's slot, where an uploaded document's or a second firm's never is.
- A line of a PDF that names a rule becomes an occasion never filed; a spreadsheet
  row without the date column is dated by the first date in it; JSON and XLSX accept
  a filing before its occasion, CSV does not; a text that names two rules gets either.

*Firms, documents, accounts.*

- On a laptop (`Shared` FALSE) a second firm is shown the first one's files until it
  has its own; choosing frameworks saves the demonstration's profile as one's own.
- Adoption leaves a visitor's second firms and the index of firms behind, and file by
  file it may put one history's tasks beside another's records, keeping back what
  the account has.
- Nothing in a firm's files is locked. A profile saved while another request has read
  it and awaits its form (`save_frameworks`, `web/app.py:2251`) is overwritten with what
  was read; so is a record filed between another's reading and saving. A request that
  read before an adoption and saves after it makes the visitor's file again, and its
  statements are in both; a file the account is given between adoption's look and its
  move is replaced (`web/adopt.py:112`, `118`). `StatementsAreKept` excepts the stores this
  happened to.
- `clear_evidence` unlinks what is shown (`web/app.py:2386`): for a visitor without
  records of their own that is the demonstration's file, for everybody; on a laptop a
  second firm clears the first one's records.
- Slots are to be "never reused" (`companies.py:21-25`). Two requests that read the
  index before either saves lose a firm, whose number is issued again, and with it its
  files; a torn index is read as empty and its numbering begins again. Listing the firms
  saves the index too. Who asks while an index is being written is settled on the first
  firm, whichever is open. `SlotsAreIssued` excepts the indexes this happened to.
- A deletion that stops half way (`workspace.py:397`) may leave `meta.json` without
  `source.pdf`: a document that is listed and cannot be opened. Uploading it again does
  not repair it, since the same bytes are answered with the workspace there is
  (`workspace.py:365`); deleting it again does.
- Re-uploading the same bytes is refused when the quota is full; the quota does not
  see a rulebook grow; a compile that was running makes a deleted folder again.
- Two sign-ups of one address that overlap make two accounts; a torn `users.json` is
  read as none and the next sign-up overwrites it. The limiter's docstring says a
  fixed window; it slides.

## 6. Not modelled

- How glyphs become lines (`parse/layout.py`), footnotes and quality measures: text
  and geometry. ClauseTree begins at the lines.
- Prompts, prices and caching of the model calls (`compile/prompts.py`), and the
  words of patterns: Extraction begins at the phrases.
- Canonical encoding, the MAC and the hash are assumed injective and unforgeable.
- Conflicts, divergence, burden and fragility, suggestions, priorities, monitoring,
  control bindings, evaluation against gold data and coverage: functions of their
  input with no state of their own, of which no other part depends.
- Seeding the demonstration and discovering public data about a firm, pages and
  templates: input and output.
- `RemediationStore.set_status` and the remediation log's hash chain, which nothing
  in the application reaches or reads.

## 7. Plan

1. Abstract specifications: a *durable file* that AtomicWrite and RulebookStore's
   locked write implement; a *task log* that RemediationTasks implements; a *firm's
   record* that EvidenceReview implements while nobody overlaps.
2. An instance of FirmFiles with `Shared` FALSE; RuleEngine with rulebooks amended while days pass.
3. The comparison of editions over ClauseTree's trees, with sub-clauses told apart.
