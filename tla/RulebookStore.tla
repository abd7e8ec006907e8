--------------------------- MODULE RulebookStore ---------------------------
(***************************************************************************)
(* One rulebook file and everybody who rewrites it: officers using the web *)
(* workbench (web/app.py), compile jobs on worker threads (web/jobs.py)    *)
(* and clerks running the command line (cli_compile.py).  Each reads the   *)
(* whole file, changes its own copy in memory and writes the whole file    *)
(* back; the lock covers the write alone.                                  *)
(*                                                                         *)
(* RuleLifecycle shows that the ledger determines the registry, so here a  *)
(* registry is its ledger.  Calls on a registry are atomic: what threads   *)
(* do inside one is the subject of RegistryThreads.                        *)
(***************************************************************************)
EXTENDS Integers, FiniteSets, SequencesExt

CONSTANTS
  Officers,    \* request threads of the web server
  Jobs,        \* compile jobs it may run
  Clerks,      \* command-line processes
  Benches,     \* Workbench objects; bounds how many are alive at once
  Rules,       \* obligation ids, one clause each
  None,        \* no such thing
  Orphaned,    \* the lock file of a writer that died
  MaxActs,     \* bound on officers' and clerks' acts
  MaxCrashes   \* bound on deaths of a process

Writers == Officers \cup Jobs \cup Clerks

ASSUME StoreAssumption ==
  /\ None \notin Writers \cup Benches
  /\ Orphaned \notin Writers \cup {None}
  /\ Officers \cap Jobs = {} /\ Officers \cap Clerks = {} /\ Jobs \cap Clerks = {}
  /\ IsFiniteSet(Rules)
  /\ MaxActs \in Nat /\ MaxCrashes \in Nat

VARIABLES
  disk,       \* rules.json: the ledger it holds
  lock,       \* rules.json.lock
  cached,     \* _cache: the Workbench new requests are given
  bench,      \* Benches -> the registry of the Workbench
  held,       \* Writers -> the Workbench a request or an on_done refers to
  own,        \* Writers -> the registry a job or a clerk has loaded
  payload,    \* Writers -> what the writer is about to write
  pc,         \* Writers -> where it has got to
  acted,      \* Writers -> its act since it was last idle, if any
  left,       \* Jobs -> the rules it has still to extract
  state,      \* Jobs -> CompileJob.state
  cancel,     \* Jobs -> CompileJob._cancel
  acked,      \* acts an officer or a clerk has been told were done
  acts,       \* acts done so far
  crashes     \* deaths so far

fileVars == <<disk, lock>>
webVars == <<cached, bench>>
jobVars == <<left, state, cancel>>
counters == <<acked, acts, crashes>>
vars == <<fileVars, webVars, held, own, payload, pc, acted, jobVars, counters>>

Moves == {"PROPOSED", "CERTIFIED", "REJECTED", "AMENDED"}
Act == [rule : Rules, move : Moves, by : Writers \cup {None}, nr : Nat]

Places == {"idle", "loading", "open", "acted", "lock", "write", "unlock",
           "extracting", "reload", "gone"}

TypeOK ==
  /\ disk \in Seq(Act)
  /\ lock \in Writers \cup {None, Orphaned}
  /\ cached \in Benches \cup {None}
  /\ bench \in [Benches -> Seq(Act)]
  /\ held \in [Writers -> Benches \cup {None}]
  /\ own \in [Writers -> Seq(Act)] /\ payload \in [Writers -> Seq(Act)]
  /\ pc \in [Writers -> Places]
  /\ acted \in [Writers -> SUBSET Act]
  /\ left \in [Jobs -> SUBSET Rules]
  /\ state \in [Jobs -> {"none", "running", "finished", "failed", "cancelled", "lost"}]
  /\ cancel \in [Jobs -> BOOLEAN]
  /\ acked \subseteq Act /\ acts \in Nat /\ crashes \in Nat

-----------------------------------------------------------------------------
(* What may follow what: the guards of RuleLifecycle's transitions.        *)

Status(log, r) ==
  LET mine == {i \in DOMAIN log : log[i].rule = r}
  IN IF mine = {} THEN "NONE"
     ELSE log[CHOOSE i \in mine : \A j \in mine : j <= i].move

Legal(before, move) ==
  CASE move = "PROPOSED"  -> before # "CERTIFIED"
    [] move = "CERTIFIED" -> before \in {"PROPOSED", "AMENDED"}
    [] move = "REJECTED"  -> before \notin {"NONE", "CERTIFIED"}
    [] move = "AMENDED"   -> before # "NONE"

Goes(w, from, to) == pc[w] = from /\ pc' = [pc EXCEPT ![w] = to]

-----------------------------------------------------------------------------
(* Officers.                                                               *)

\* bench(): the cached Workbench, or a parse and a load of a new one.
Open(o) ==
  /\ IF cached # None
       THEN Goes(o, "idle", "open") /\ held' = [held EXCEPT ![o] = cached]
       ELSE Goes(o, "idle", "loading") /\ UNCHANGED held
  /\ UNCHANGED <<fileVars, webVars, own, payload, acted, jobVars, counters>>

\* A Workbench nobody refers to any more.
Unreferenced(b) == b # cached /\ \A w \in Writers : held[w] # b

\* The parse is over.  Two requests that both missed the cache both load, and
\* the second one's Workbench takes the place of the first one's.
Load(o) ==
  \E b \in Benches :
    /\ Unreferenced(b)
    /\ Goes(o, "loading", "open")
    /\ bench' = [bench EXCEPT ![b] = disk]
    /\ cached' = b
    /\ held' = [held EXCEPT ![o] = b]
    /\ UNCHANGED <<fileVars, own, payload, acted, jobVars, counters>>

\* The officer's decision.
Decide(o, r, move) ==
  LET act == [rule |-> r, move |-> move, by |-> o, nr |-> acts + 1]
  IN /\ Goes(o, "open", "acted")
     /\ acts < MaxActs
     /\ Legal(Status(bench[held[o]], r), move)
     /\ bench' = [bench EXCEPT ![held[o]] = Append(@, act)]
     /\ acted' = [acted EXCEPT ![o] = {act}]
     /\ acts' = acts + 1
     /\ UNCHANGED <<fileVars, cached, held, own, payload, jobVars, acked, crashes>>

\* Refused, or only looking.
CloseBench(o) ==
  /\ Goes(o, "open", "idle")
  /\ held' = [held EXCEPT ![o] = None]
  /\ UNCHANGED <<fileVars, webVars, own, payload, acted, jobVars, counters>>

\* Workbench.save reads self.registry now, which a reload may have replaced.
Collect(o) ==
  /\ Goes(o, "acted", "lock")
  /\ payload' = [payload EXCEPT ![o] = bench[held[o]]]
  /\ UNCHANGED <<fileVars, webVars, held, own, acted, jobVars, counters>>

\* Opening other documents pushes this one out of the cache.
Evict ==
  /\ cached # None
  /\ cached' = None
  /\ UNCHANGED <<fileVars, bench, held, own, payload, pc, acted, jobVars, counters>>

-----------------------------------------------------------------------------
(* Compile jobs.                                                           *)

\* Mutant: no job is refused.
StartAnyway(o, j) ==
  /\ Goes(o, "open", "idle")
  /\ state[j] = "none"
  /\ state' = [state EXCEPT ![j] = "running"]
  /\ held' = [held EXCEPT ![o] = None, ![j] = held[o]]
  /\ UNCHANGED <<fileVars, webVars, own, payload, acted, left, cancel, counters>>

\* start_compile and JobRunner.start, which checks and registers under a lock.
\* on_done keeps the Workbench the officer had open.
Start(o, j) ==
  /\ Goes(o, "open", "idle")
  /\ state[j] = "none"
  /\ \A k \in Jobs : state[k] # "running"
  /\ state' = [state EXCEPT ![j] = "running"]
  /\ held' = [held EXCEPT ![o] = None, ![j] = held[o]]
  /\ UNCHANGED <<fileVars, webVars, own, payload, acted, left, cancel, counters>>

\* cancel_compile reaches the job the runner knows.
Cancel(j) ==
  /\ state[j] = "running"
  /\ cancel' = [cancel EXCEPT ![j] = TRUE]
  /\ UNCHANGED <<fileVars, webVars, held, own, payload, pc, acted, left, state,
                 counters>>

JobLoad(j) ==
  /\ state[j] = "running"
  /\ Goes(j, "idle", "extracting")
  /\ own' = [own EXCEPT ![j] = disk]
  /\ left' = [left EXCEPT ![j] = Rules]
  /\ UNCHANGED <<fileVars, webVars, held, payload, acted, state, cancel, counters>>

\* Mutant: a draft is stored whatever the rule's status.
ExtractOverSigned(j) ==
  /\ pc[j] = "extracting"
  /\ ~cancel[j]
  /\ \E r \in left[j] :
       /\ left' = [left EXCEPT ![j] = @ \ {r}]
       /\ own' = [own EXCEPT ![j] = Append(@,
            [rule |-> r, move |-> "PROPOSED", by |-> j, nr |-> 0])]
  /\ UNCHANGED <<fileVars, webVars, held, payload, pc, acted, state, cancel, counters>>

\* The next clause: no obligation, an extraction failure, a proposal, or a
\* proposal refused because the rule is signed.
Extract(j) ==
  /\ pc[j] = "extracting"
  /\ ~cancel[j]
  /\ \E r \in left[j] :
       /\ left' = [left EXCEPT ![j] = @ \ {r}]
       /\ \/ UNCHANGED own
          \/ /\ Legal(Status(own[j], r), "PROPOSED")
             /\ own' = [own EXCEPT ![j] = Append(@,
                  [rule |-> r, move |-> "PROPOSED", by |-> j, nr |-> 0])]
  /\ UNCHANGED <<fileVars, webVars, held, payload, pc, acted, state, cancel, counters>>

\* A job that ends without finishing: no on_done.
Ends(j, from, how) ==
  /\ Goes(j, from, "gone")
  /\ state' = [state EXCEPT ![j] = how]
  /\ held' = [held EXCEPT ![j] = None]
  /\ own' = [own EXCEPT ![j] = <<>>]
  /\ payload' = [payload EXCEPT ![j] = <<>>]

\* Mutant: a cancelled run keeps what it had.
CancelledSaves(j) ==
  /\ pc[j] = "extracting"
  /\ cancel[j]
  /\ left[j] # {}
  /\ disk' = own[j]
  /\ Ends(j, "extracting", "cancelled")
  /\ UNCHANGED <<lock, webVars, acted, left, cancel, counters>>

\* The flag is looked at before each clause, and not after the last one.
Cancelled(j) ==
  /\ cancel[j]
  /\ left[j] # {}
  /\ Ends(j, "extracting", "cancelled")
  /\ UNCHANGED <<fileVars, webVars, acted, left, cancel, counters>>

\* No credentials, a store that cannot be read, or an exception out of the
\* extractor.
JobFails(j) ==
  /\ state[j] = "running"
  /\ \E from \in {"idle", "extracting"} : Ends(j, from, "failed")
  /\ UNCHANGED <<fileVars, webVars, acted, left, cancel, counters>>

JobCollect(j) ==
  /\ left[j] = {}
  /\ Goes(j, "extracting", "lock")
  /\ payload' = [payload EXCEPT ![j] = own[j]]
  /\ UNCHANGED <<fileVars, webVars, held, own, acted, jobVars, counters>>

\* on_done: the Workbench that was open when the job started re-reads the file.
Reload(j) ==
  /\ Goes(j, "reload", "gone")
  /\ bench' = [bench EXCEPT ![held[j]] = disk]
  /\ held' = [held EXCEPT ![j] = None]
  /\ UNCHANGED <<fileVars, cached, own, payload, acted, jobVars, counters>>

-----------------------------------------------------------------------------
(* Clerks: sanhita certify / amend, each a process of its own.             *)

ClerkLoad(c) ==
  /\ Goes(c, "idle", "open")
  /\ own' = [own EXCEPT ![c] = disk]
  /\ UNCHANGED <<fileVars, webVars, held, payload, acted, jobVars, counters>>

ClerkCertify(c, r) ==
  LET act == [rule |-> r, move |-> "CERTIFIED", by |-> c, nr |-> acts + 1]
  IN /\ Goes(c, "open", "lock")
     /\ acts < MaxActs
     /\ Legal(Status(own[c], r), "CERTIFIED")
     /\ payload' = [payload EXCEPT ![c] = Append(own[c], act)]
     /\ acted' = [acted EXCEPT ![c] = {act}]
     /\ acts' = acts + 1
     /\ own' = [own EXCEPT ![c] = <<>>]
     /\ UNCHANGED <<fileVars, webVars, held, jobVars, acked, crashes>>

-----------------------------------------------------------------------------
(* _save_registry, for all of them.                                        *)

Acquire(w) ==
  /\ Goes(w, "lock", "write")
  /\ lock = None
  /\ lock' = w
  /\ UNCHANGED <<disk, webVars, held, own, payload, acted, jobVars, counters>>

\* Mutants: a job waits for the lock without a limit; the error is swallowed
\* and the officer told that the act is done.
BusyJobWaits(w) ==
  /\ lock # None
  /\ w \notin Jobs
  /\ Goes(w, "lock", "idle")
  /\ held' = [held EXCEPT ![w] = None]
  /\ acted' = [acted EXCEPT ![w] = {}]
  /\ payload' = [payload EXCEPT ![w] = <<>>]
  /\ UNCHANGED <<fileVars, webVars, own, jobVars, counters>>

BusySwallowed(w) ==
  /\ lock # None
  /\ Goes(w, "lock", "idle")
  /\ held' = [held EXCEPT ![w] = None]
  /\ acked' = acked \cup acted[w]
  /\ acted' = [acted EXCEPT ![w] = {}]
  /\ payload' = [payload EXCEPT ![w] = <<>>]
  /\ UNCHANGED <<fileVars, webVars, own, jobVars, acts, crashes>>

\* The save raises: a request answers 500 and a job fails, but what an officer
\* did stays in the Workbench.
Raises(w, from) ==
  /\ IF w \in Jobs
       THEN Ends(w, from, "failed") /\ UNCHANGED acted
       ELSE /\ Goes(w, from, "idle")
            /\ held' = [held EXCEPT ![w] = None]
            /\ acted' = [acted EXCEPT ![w] = {}]
            /\ payload' = [payload EXCEPT ![w] = <<>>]
            /\ UNCHANGED <<own, state>>
  /\ UNCHANGED <<disk, webVars, left, cancel, counters>>

\* StoreBusyError after ten seconds.
Busy(w) ==
  /\ lock # None
  /\ Raises(w, "lock")
  /\ UNCHANGED lock

\* The disk is full; the lock file is removed all the same.
WriteFails(w) ==
  /\ Raises(w, "write")
  /\ lock' = None

\* sanhita certify passes empty strings for the circular id and the tree
\* fingerprint; the web and the jobs pass the real ones.
Write(w) ==
  /\ Goes(w, "write", "unlock")
  /\ disk' = payload[w]
  /\ payload' = [payload EXCEPT ![w] = <<>>]
  /\ UNCHANGED <<lock, webVars, held, own, acted, jobVars, counters>>

\* Released; the officer or clerk reads that it is done, the job is finished
\* and about to call on_done.
Release(w) ==
  /\ lock' = None
  /\ IF w \in Jobs
       THEN /\ Goes(w, "unlock", "reload")
            /\ state' = [state EXCEPT ![w] = "finished"]
            /\ own' = [own EXCEPT ![w] = <<>>]
            /\ UNCHANGED <<held, acked, acted>>
       ELSE /\ Goes(w, "unlock", "idle")
            /\ held' = [held EXCEPT ![w] = None]
            /\ acked' = acked \cup acted[w]
            /\ acted' = [acted EXCEPT ![w] = {}]
            /\ UNCHANGED <<own, state>>
  /\ UNCHANGED <<disk, webVars, payload, left, cancel, acts, crashes>>

-----------------------------------------------------------------------------
(* Deaths.  A process that dies holding the lock leaves the lock file      *)
(* behind, and every later writer waits in vain until somebody deletes it. *)

Dies(ws) ==
  /\ crashes < MaxCrashes
  /\ crashes' = crashes + 1
  /\ pc' = [w \in Writers |-> IF w \in ws THEN (IF w \in Jobs /\ pc[w] # "idle"
                                                 THEN "gone" ELSE "idle")
                                          ELSE pc[w]]
  /\ held' = [w \in Writers |-> IF w \in ws THEN None ELSE held[w]]
  /\ own' = [w \in Writers |-> IF w \in ws THEN <<>> ELSE own[w]]
  /\ payload' = [w \in Writers |-> IF w \in ws THEN <<>> ELSE payload[w]]
  /\ acted' = [w \in Writers |-> IF w \in ws THEN {} ELSE acted[w]]
  /\ lock' = IF lock \in ws THEN Orphaned ELSE lock
  /\ UNCHANGED <<disk, acked, acts>>

\* The web process: the cache, the requests and the jobs are gone.
WebDies ==
  /\ Dies(Officers \cup Jobs)
  /\ cached' = None
  /\ state' = [j \in Jobs |-> IF state[j] = "running" THEN "lost" ELSE state[j]]
  /\ UNCHANGED <<bench, left, cancel>>

ClerkDies(c) ==
  /\ pc[c] # "idle"
  /\ Dies({c})
  /\ UNCHANGED <<webVars, jobVars>>

\* The error message says to delete the lock file when nothing is running.
DeleteLock ==
  /\ lock = Orphaned
  /\ lock' = None
  /\ UNCHANGED <<disk, webVars, held, own, payload, pc, acted, jobVars,
                 counters>>

-----------------------------------------------------------------------------
\* A compile made before we look: every rule proposed.
Compiled ==
  [i \in 1..Cardinality(Rules) |->
     [rule |-> SetToSeq(Rules)[i], move |-> "PROPOSED", by |-> None, nr |-> 0]]

Init ==
  /\ disk \in {<<>>, Compiled} /\ lock = None
  /\ cached = None /\ bench = [b \in Benches |-> <<>>]
  /\ held = [w \in Writers |-> None]
  /\ own = [w \in Writers |-> <<>>] /\ payload = [w \in Writers |-> <<>>]
  /\ pc = [w \in Writers |-> "idle"]
  /\ acted = [w \in Writers |-> {}]
  /\ left = [j \in Jobs |-> {}]
  /\ state = [j \in Jobs |-> "none"] /\ cancel = [j \in Jobs |-> FALSE]
  /\ acked = {} /\ acts = 0 /\ crashes = 0

Saving(w) == Acquire(w) \/ Busy(w) \/ Write(w) \/ WriteFails(w) \/ Release(w)

Working(j) ==
  \/ JobLoad(j) \/ Extract(j) \/ Cancelled(j) \/ JobFails(j)
  \/ JobCollect(j) \/ Saving(j) \/ Reload(j)

Next ==
  \/ \E o \in Officers :
       \/ Open(o) \/ Load(o) \/ CloseBench(o) \/ Collect(o) \/ Saving(o)
       \/ \E r \in Rules, move \in Moves \ {"PROPOSED"} : Decide(o, r, move)
       \/ \E j \in Jobs : Start(o, j)
  \/ \E j \in Jobs : Cancel(j) \/ Working(j)
  \/ \E c \in Clerks :
       \/ ClerkLoad(c) \/ Saving(c) \/ ClerkDies(c)
       \/ \E r \in Rules : ClerkCertify(c, r)
  \/ Evict
  \/ WebDies
  \/ DeleteLock

Spec == Init /\ [][Next]_vars

\* Worker threads run; a crash ends their jobs too.
FairSpec == Spec /\ \A j \in Jobs : WF_vars(Working(j))
-----------------------------------------------------------------------------
(* Properties.                                                             *)

LegalHistory(log) ==
  \A i \in DOMAIN log :
    Legal(Status(SubSeq(log, 1, i - 1), log[i].rule), log[i].move)

\* Whoever writes over whom, the file holds one legal history of every rule:
\* never a mixture in which a rule is signed twice or drafted over.
StoreIsLegal == LegalHistory(disk)

\* A cancelled or failed run leaves the rulebook as it was (jobs.py:13-14):
\* proposals in the file are those of jobs that finished, are finishing, or
\* were lost with the web process after they had written.
OnlyFinishedJobsWrite ==
  \A i \in DOMAIN disk :
    disk[i].by \in Jobs =>
      \/ state[disk[i].by] \in {"finished", "lost"}
      \/ pc[disk[i].by] = "unlock"

\* Only the writer that created the lock file is between its creation and its
\* removal.
OneWriter == \A w \in Writers : pc[w] \in {"write", "unlock"} <=> lock = w

\* There is one officer, and no job or clerk has touched the file yet.
OnlyOfficer(o) ==
  /\ Officers = {o}
  /\ \A w \in Writers \ {o} : pc[w] = "idle"
  /\ \A j \in Jobs : state[j] = "none"
  /\ \A act \in acked \cup ToSet(disk) : act.by \in {o, None}

\* As long as one officer works alone, an act that was acknowledged is in the
\* file for good, whatever is evicted, refused or crashes.
AcknowledgedStays ==
  (\E o \in Officers : OnlyOfficer(o)) => acked \subseteq ToSet(disk)

\* A compile ends: it never stays running for ever, locked out or not.
JobEnds == \A j \in Jobs : state[j] = "running" ~> state[j] # "running"

\* One writer at a time, and one legal history in the file.
StoreIsSound == OneWriter /\ StoreIsLegal
=============================================================================
