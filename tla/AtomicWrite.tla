---------------------------- MODULE AtomicWrite ----------------------------
(***************************************************************************)
(* cli_compile._write_atomically: write a sibling temporary file, flush    *)
(* it, rename it over the target, flush the directory, and remove the      *)
(* temporary file if it is still there.  The temporary file is named after *)
(* the process, so the threads of one process share it.  rules.json is     *)
(* written under store_lock; the sidecar files (tasks, controls, company,  *)
(* action plans) are written without it.                                   *)
(*                                                                         *)
(* The file system is modelled from what the code asks of it: inodes and   *)
(* names live in memory first, may reach the platter at any time, and must *)
(* have reached it when fsync returns.                                     *)
(***************************************************************************)
EXTENDS Integers, FiniteSets

CONSTANTS
  Writers,      \* threads that each write the file once
  Processes,
  Process,      \* Writers -> the process the thread runs in
  Locked,       \* whether the writers take store_lock
  Inodes,
  Old,          \* the contents before anybody writes
  Blank,        \* a part of a file not written yet
  Nothing,
  MaxLosses     \* bound on power losses

Parts == {1, 2}                    \* a write reaches the file in two parts

ASSUME WriteAssumption ==
  /\ Process \in [Writers -> Processes]
  /\ Locked \in BOOLEAN
  /\ Cardinality(Inodes) > Cardinality(Writers)
  /\ Nothing \notin Writers \cup Inodes
  /\ MaxLosses \in Nat

VARIABLES
  data,         \* Inodes -> the contents a reader sees
  kept,         \* Inodes -> the contents on the platter
  target,       \* the inode the target's name refers to
  keptTarget,   \* the inode it refers to on the platter
  temp,         \* Processes -> the inode of the temporary file, if any
  file,         \* Writers -> the inode of the open handle
  pc,           \* Writers -> where the writer has got to
  lock,         \* the writer that created the lock file
  losses        \* power losses so far

disk == <<data, kept, target, keptTarget, temp>>
writeVars == <<disk, file, pc, lock, losses>>

Contents == [Parts -> Writers \cup {Old, Blank}]
Whole(x) == [p \in Parts |-> x]
Empty == Whole(Blank)

Places == {"start", "open", "first", "second", "sync", "replace", "syncdir",
           "cleanup", "release", "done", "dead"}

WriteTypeOK ==
  /\ data \in [Inodes -> Contents] /\ kept \in [Inodes -> Contents]
  /\ target \in Inodes /\ keptTarget \in Inodes
  /\ temp \in [Processes -> Inodes \cup {Nothing}]
  /\ file \in [Writers -> Inodes \cup {Nothing}]
  /\ pc \in [Writers -> Places]
  /\ lock \in Writers \cup {Nothing}
  /\ losses \in 0..MaxLosses

Goes(w, from, to) == pc[w] = from /\ pc' = [pc EXCEPT ![w] = to]

-----------------------------------------------------------------------------
(* The file system.                                                        *)

\* An inode no name and no handle refers to.
Free(i) ==
  /\ i \notin {target, keptTarget}
  /\ \A p \in Processes : temp[p] # i
  /\ \A w \in Writers : file[w] # i

\* The system writes back what it has in memory, in any order.
FlushData(i) ==
  /\ kept' = [kept EXCEPT ![i] = data[i]]
  /\ UNCHANGED <<data, target, keptTarget, temp, file, pc, lock, losses>>

FlushName ==
  /\ keptTarget' = target
  /\ UNCHANGED <<data, kept, target, temp, file, pc, lock, losses>>

\* Power loss: only what is on the platter is left, and every process is dead.
\* Nobody holds the lock; the message of StoreBusyError has the stale lock file
\* deleted by hand.
PowerLoss ==
  /\ losses < MaxLosses
  /\ losses' = losses + 1
  /\ data' = kept
  /\ target' = keptTarget
  /\ temp' = [p \in Processes |-> Nothing]
  /\ file' = [w \in Writers |-> Nothing]
  /\ pc' = [w \in Writers |-> IF pc[w] \in {"start", "done"} THEN pc[w] ELSE "dead"]
  /\ lock' = Nothing
  /\ UNCHANGED <<kept, keptTarget>>

-----------------------------------------------------------------------------
(* One write.                                                              *)

\* store_lock, for the writers that take it.
Enter(w) ==
  /\ Goes(w, "start", "open")
  /\ IF Locked THEN lock = Nothing /\ lock' = w ELSE UNCHANGED lock
  /\ UNCHANGED <<disk, file, losses>>

\* open(temp, "w"): a file of that name is truncated, otherwise one is made.
OpenTemp(w) ==
  LET p == Process[w]
  IN /\ Goes(w, "open", "first")
     /\ \E i \in Inodes :
          /\ IF temp[p] = Nothing THEN Free(i) ELSE i = temp[p]
          /\ temp' = [temp EXCEPT ![p] = i]
          /\ file' = [file EXCEPT ![w] = i]
          /\ data' = [data EXCEPT ![i] = Empty]
     /\ UNCHANGED <<kept, target, keptTarget, lock, losses>>

WritePart(w, from, part, to) ==
  /\ Goes(w, from, to)
  /\ data' = [data EXCEPT ![file[w]][part] = w]
  /\ UNCHANGED <<kept, target, keptTarget, temp, file, lock, losses>>

\* The disk is full: the exception goes through the finally clause.
WriteRaises(w) ==
  /\ pc[w] \in {"first", "second", "sync"}
  /\ pc' = [pc EXCEPT ![w] = "cleanup"]
  /\ file' = [file EXCEPT ![w] = Nothing]
  /\ UNCHANGED <<disk, lock, losses>>

\* Mutant: flush() without fsync() leaves the data in memory.
FlushOnly(w) ==
  /\ Goes(w, "sync", "replace")
  /\ file' = [file EXCEPT ![w] = Nothing]
  /\ UNCHANGED <<disk, lock, losses>>

\* os.fsync(handle), and the handle is closed.
Sync(w) ==
  /\ Goes(w, "sync", "replace")
  /\ kept' = [kept EXCEPT ![file[w]] = data[file[w]]]
  /\ file' = [file EXCEPT ![w] = Nothing]
  /\ UNCHANGED <<data, target, keptTarget, temp, lock, losses>>

\* os.replace(temp, target); without a temporary file it raises.
Replace(w) ==
  LET i == temp[Process[w]]
  IN /\ pc[w] = "replace"
     /\ pc' = [pc EXCEPT ![w] = IF i # Nothing THEN "syncdir" ELSE "cleanup"]
     /\ target' = IF i # Nothing THEN i ELSE target
     /\ temp' = [temp EXCEPT ![Process[w]] = Nothing]
     /\ UNCHANGED <<data, kept, keptTarget, file, lock, losses>>

\* Mutant: the rename is not flushed.
SkipDirectory(w) ==
  /\ Goes(w, "syncdir", "cleanup")
  /\ UNCHANGED <<disk, file, lock, losses>>

\* os.fsync(directory).
SyncDirectory(w) ==
  /\ Goes(w, "syncdir", "cleanup")
  /\ keptTarget' = target
  /\ UNCHANGED <<data, kept, target, temp, file, lock, losses>>

\* finally: if the temporary file is there it is removed, whoever made it.
Cleanup(w) ==
  /\ Goes(w, "cleanup", "release")
  /\ temp' = [temp EXCEPT ![Process[w]] = Nothing]
  /\ UNCHANGED <<data, kept, target, keptTarget, file, lock, losses>>

Leave(w) ==
  /\ Goes(w, "release", "done")
  /\ lock' = IF Locked THEN Nothing ELSE lock
  /\ UNCHANGED <<disk, file, losses>>

-----------------------------------------------------------------------------
WriteInit ==
  /\ target \in Inodes
  /\ keptTarget = target
  /\ data = [i \in Inodes |-> IF i = target THEN Whole(Old) ELSE Empty]
  /\ kept = data
  /\ temp = [p \in Processes |-> Nothing]
  /\ file = [w \in Writers |-> Nothing]
  /\ pc = [w \in Writers |-> "start"]
  /\ lock = Nothing
  /\ losses = 0

WriteNext ==
  \/ \E w \in Writers :
       \/ Enter(w) \/ OpenTemp(w)
       \/ WritePart(w, "first", 1, "second") \/ WritePart(w, "second", 2, "sync")
       \/ WriteRaises(w) \/ Sync(w) \/ Replace(w) \/ SyncDirectory(w)
       \/ Cleanup(w) \/ Leave(w)
  \/ \E i \in Inodes : FlushData(i)
  \/ FlushName
  \/ PowerLoss

WriteSpec == WriteInit /\ [][WriteNext]_writeVars
-----------------------------------------------------------------------------
(* Properties.                                                             *)

OneWriting(c) == \E x \in Writers \cup {Old} : c = Whole(x)

\* A reader sees either the whole old file or a whole new one and never a
\* partial write (cli_compile.py:242-246).  Broken when two threads of one
\* process write a sidecar at once.
ReaderSeesWhole == OneWriting(data[target])

\* After a power loss at any moment the file is whole (cli_compile.py:237-240).
PlatterIsWhole == OneWriting(kept[keptTarget])

\* Whole for whoever reads it now, and for whoever reads it after a power loss.
FileIsWhole == ReaderSeesWhole /\ PlatterIsWhole
=============================================================================
