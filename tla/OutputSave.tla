----------------------------- MODULE OutputSave -----------------------------
(***************************************************************************)
(* Saving images into one output directory: ImageExecutor._save            *)
(* (application/image_executor.py) under the directory lock                *)
(* (output/output_lock.py), with the allocator's reservations              *)
(* (output/output_allocator.py) and the atomic publication of the file     *)
(* (storage/filesystem.py).                                                *)
(*                                                                         *)
(* Tasks are image jobs; each belongs to a process running one operation,  *)
(* with an allocator and an image ledger of its own.  Tasks of a process   *)
(* interleave at awaits, processes at every file system call.  The lock is *)
(* the mutex InterProcessLock implements.  Two directories with different  *)
(* lock keys share no file, so one directory is the general case.          *)
(***************************************************************************)
EXTENDS AllocationRules

CONSTANTS Tasks, Procs,
          ProcOf,   \* the process a task runs in
          Base,     \* the file name its output format gives
          Old,      \* content that was in the directory before
          MaybeOld  \* names the directory may already hold then

ASSUME TasksAssumption ==
  /\ ProcOf \in [Tasks -> Procs]
  /\ Base \in [Tasks -> Names]
  /\ MaybeOld \subseteq Names
  /\ None \notin Tasks /\ Old \notin Tasks /\ None # Old

Steps == {"idle", "working", "acquiring", "locked", "refreshed", "allocated",
          "written", "aborting", "committed", "skipping", "reporting", "saved",
          "ended", "cancelled"}

\* Steps inside the "async with output_locks.hold(...)" block.
Critical == {"locked", "refreshed", "allocated", "written", "aborting",
             "committed", "skipping"}
Terminal == {"ended", "cancelled"}

Outcomes == {"none", "attempted", "saved", "skipped", "failed"}
Faults == {"none", "work", "lock", "conflict", "exhausted", "write", "release"}

VARIABLES
  mode,       \* output.existing_file of the run
  disk,       \* disk[n]: None, or whose content the file n holds
  holder,     \* the task holding the directory lock
  known,      \* known[p]: the allocator's _known_files
  reserved,   \* reserved[p][k]: the task whose reservation of k is open
  committed,  \* committed[p]: _committed_by_operation
  step,       \* step[t]: the await task t is suspended in
  target,     \* target[t]: its allocation's relative_path
  ledger,     \* ledger[t]: what the image ledger remembers of it
  fault,      \* fault[t]: the error it is reporting or reported
  interrupted \* interrupted[t]: cancelled while finish_task settles

memory == <<known, reserved, committed>>
vars == <<mode, disk, holder, known, reserved, committed, step, target, ledger, fault, interrupted>>

Files == {n \in Names : disk[n] # None}
Reserved(p) == {k \in Keys : reserved[p][k] # None}

\* What the allocator of process p decides on.
View(p) == [mode |-> mode, known |-> known[p], reserved |-> Reserved(p),
            committed |-> committed[p], files |-> Files]

MyTasks(p) == {t \in Tasks : ProcOf[t] = p}

Init ==
  /\ mode \in Modes
  /\ \E old \in SUBSET MaybeOld : disk = [n \in Names |-> IF n \in old THEN Old ELSE None]
  /\ holder = None
  /\ known = [p \in Procs |-> [k \in Keys |-> None]]
  /\ reserved = [p \in Procs |-> [k \in Keys |-> None]]
  /\ committed = [p \in Procs |-> {}]
  /\ step = [t \in Tasks |-> "idle"]
  /\ target = [t \in Tasks |-> None]
  /\ ledger = [t \in Tasks |-> "none"]
  /\ fault = [t \in Tasks |-> "none"]
  /\ interrupted = [t \in Tasks |-> FALSE]

Goto(t, s) == step' = [step EXCEPT ![t] = s]
Remember(t, o) == ledger' = [ledger EXCEPT ![t] = o]

\* An _ImageJobError is on its way to _report_failure.
Fails(t, why) ==
  /\ Goto(t, "reporting")
  /\ fault' = [fault EXCEPT ![t] = why]

\* execute(): the ledger marks the attempt, then the image is fetched.
Begin(t) ==
  /\ step[t] = "idle"
  /\ Goto(t, "working")
  /\ Remember(t, "attempted")
  /\ UNCHANGED <<mode, disk, holder, memory, target, fault, interrupted>>

\* _fetch and _process touch nothing that is shared here.
Processed(t) ==
  /\ step[t] = "working"
  /\ Goto(t, "acquiring")
  /\ UNCHANGED <<mode, disk, holder, memory, target, ledger, fault, interrupted>>

WorkFails(t) ==
  /\ step[t] = "working"
  /\ Fails(t, "work")
  /\ UNCHANGED <<mode, disk, holder, memory, target, ledger, interrupted>>

Acquire(t) ==
  /\ step[t] = "acquiring"
  /\ holder = None
  /\ holder' = t
  /\ Goto(t, "locked")
  /\ UNCHANGED <<mode, disk, memory, target, ledger, fault, interrupted>>

\* The lock's timeout, or an error opening the lock file.
LockFails(t) ==
  /\ step[t] = "acquiring"
  /\ Fails(t, "lock")
  /\ UNCHANGED <<mode, disk, holder, memory, target, ledger, interrupted>>

\* Mutant: what was loaded once is believed.
RefreshNothing(t) ==
  /\ step[t] = "locked"
  /\ Goto(t, "refreshed")
  /\ UNCHANGED <<mode, disk, holder, memory, target, ledger, fault, interrupted>>

\* refresh_directory: what the allocator knew of the directory is replaced by
\* what is there now.
RefreshDirectory(t) ==
  /\ step[t] = "locked"
  /\ known' = [known EXCEPT ![ProcOf[t]] = Scan(Files)]
  /\ Goto(t, "refreshed")
  /\ UNCHANGED <<mode, disk, holder, reserved, committed, target, ledger, fault, interrupted>>

\* allocate() ends in a reservation.
Allocate(t) ==
  LET p == ProcOf[t] IN
  /\ step[t] = "refreshed"
  /\ \E n \in Names :
       /\ Reserves(View(p), Base[t], n)
       /\ target' = [target EXCEPT ![t] = n]
       /\ reserved' = [reserved EXCEPT ![p][KeyOf[n]] = t]
  /\ Goto(t, "allocated")
  /\ UNCHANGED <<mode, disk, holder, known, committed, ledger, fault, interrupted>>

\* allocate() returns the existing file; nothing is written.
AllocateSkip(t) ==
  LET p == ProcOf[t] IN
  /\ step[t] = "refreshed"
  /\ Skips(View(p), Base[t])
  /\ target' = [target EXCEPT ![t] = Existing(View(p), Base[t])]
  /\ Goto(t, "skipping")
  /\ UNCHANGED <<mode, disk, holder, memory, ledger, fault, interrupted>>

\* allocate() raises; the lock is released on the way out.
AllocateFails(t) ==
  LET p == ProcOf[t] IN
  /\ step[t] = "refreshed"
  /\ \/ Conflicts(View(p), Base[t]) /\ Fails(t, "conflict")
     \/ Exhausted(View(p), Base[t]) /\ Fails(t, "exhausted")
  /\ holder' = None
  /\ UNCHANGED <<mode, disk, memory, target, ledger, interrupted>>

\* write_bytes_atomic publishes the complete file by os.replace.
Write(t) ==
  /\ step[t] = "allocated"
  /\ disk' = [disk EXCEPT ![target[t]] = t]
  /\ Goto(t, "written")
  /\ UNCHANGED <<mode, holder, memory, target, ledger, fault, interrupted>>

\* It raises before the replace: no file changes but a temporary one.
WriteFails(t) ==
  /\ step[t] = "allocated"
  /\ Goto(t, "aborting")
  /\ fault' = [fault EXCEPT ![t] = "write"]
  /\ UNCHANGED <<mode, disk, holder, memory, target, ledger, interrupted>>

Unreserve(t) == reserved' = [reserved EXCEPT ![ProcOf[t]][KeyOf[target[t]]] = None]

\* The aborted allocation is settled, then the lock released.  A cancellation
\* that came meanwhile replaces the write error and nothing is reported.
AbortAllocation(t) ==
  /\ step[t] = "aborting"
  /\ Unreserve(t)
  /\ Goto(t, IF interrupted[t] THEN "cancelled" ELSE "reporting")
  /\ holder' = None
  /\ UNCHANGED <<mode, disk, known, committed, target, ledger, fault, interrupted>>

Committing(t, keys) ==
  LET p == ProcOf[t] IN
  /\ step[t] = "written"
  /\ Unreserve(t)
  /\ known' = [known EXCEPT ![p][KeyOf[target[t]]] = target[t]]
  /\ committed' = [committed EXCEPT ![p] = @ \cup keys]
  /\ Goto(t, "committed")
  /\ UNCHANGED <<mode, disk, holder, target, ledger, fault, interrupted>>

\* Mutant: the operation does not remember what it wrote.
CommitUnrecorded(t) == Committing(t, {})

CommitAllocation(t) ==
  Committing(t, {KeyOf[target[t]]})

\* Mutant: a cancellation noted during the commit leaves before remembering.
ReleaseWithoutRemembering(t) ==
  /\ step[t] \in {"committed", "skipping"}
  /\ IF interrupted[t] THEN UNCHANGED ledger
     ELSE Remember(t, IF step[t] = "committed" THEN "saved" ELSE "skipped")
  /\ Goto(t, IF interrupted[t] THEN "cancelled" ELSE "saved")
  /\ holder' = None
  /\ UNCHANGED <<mode, disk, memory, target, fault, interrupted>>

\* The outcome is remembered before the lock is released, also when the commit
\* settled under a cancellation (_commit_image_allocation).
RememberAndRelease(t) ==
  /\ step[t] \in {"committed", "skipping"}
  /\ Remember(t, IF step[t] = "committed" THEN "saved" ELSE "skipped")
  /\ Goto(t, IF interrupted[t] THEN "cancelled" ELSE "saved")
  /\ holder' = None
  /\ UNCHANGED <<mode, disk, memory, target, fault, interrupted>>

\* The unlock raises; the stream is closed all the same.  On the way out of a
\* cancellation the lock error is only logged.
ReleaseFails(t) ==
  /\ step[t] \in {"committed", "skipping"}
  /\ ~interrupted[t]
  /\ Remember(t, IF step[t] = "committed" THEN "saved" ELSE "skipped")
  /\ Fails(t, "release")
  /\ holder' = None
  /\ UNCHANGED <<mode, disk, memory, target, interrupted>>

\* Events, the after-save hook, the ledger and the reporter.
ReportSaved(t) ==
  /\ step[t] = "saved"
  /\ Goto(t, "ended")
  /\ UNCHANGED <<mode, disk, holder, memory, target, ledger, fault, interrupted>>

\* _report_failure: whatever the ledger held, it holds the failure now.
ReportFailure(t) ==
  /\ step[t] = "reporting"
  /\ Remember(t, "failed")
  /\ Goto(t, "ended")
  /\ UNCHANGED <<mode, disk, holder, memory, target, fault, interrupted>>

\* Cancellation at an await outside the locked block ends the job at once.
Cancel(t) ==
  /\ step[t] \in {"idle", "working", "acquiring", "reporting", "saved"}
  /\ Goto(t, "cancelled")
  /\ UNCHANGED <<mode, disk, holder, memory, target, ledger, fault, interrupted>>

\* Inside it the only awaits settle an allocation (finish_task), and the
\* cancellation is raised when that is done.
CancelSettling(t) ==
  /\ step[t] \in {"written", "aborting"}
  /\ ~interrupted[t]
  /\ interrupted' = [interrupted EXCEPT ![t] = TRUE]
  /\ UNCHANGED <<mode, disk, holder, memory, step, target, ledger, fault>>

\* The process dies and is started again: memory is lost, the lock is freed by
\* the operating system, published files stay and are old files now.
Crash(p) ==
  LET reset(f, v) == [t \in Tasks |-> IF ProcOf[t] = p THEN v ELSE f[t]] IN
  /\ disk' = [n \in Names |-> IF disk[n] \in MyTasks(p) THEN Old ELSE disk[n]]
  /\ holder' = IF holder \in MyTasks(p) THEN None ELSE holder
  /\ known' = [known EXCEPT ![p] = [k \in Keys |-> None]]
  /\ reserved' = [reserved EXCEPT ![p] = [k \in Keys |-> None]]
  /\ committed' = [committed EXCEPT ![p] = {}]
  /\ step' = reset(step, "idle")
  /\ target' = reset(target, None)
  /\ ledger' = reset(ledger, "none")
  /\ fault' = reset(fault, "none")
  /\ interrupted' = reset(interrupted, FALSE)
  /\ UNCHANGED mode

Runs(t) ==
  \/ Processed(t) \/ WorkFails(t)
  \/ Acquire(t) \/ LockFails(t)
  \/ RefreshDirectory(t)
  \/ Allocate(t) \/ AllocateSkip(t) \/ AllocateFails(t)
  \/ Write(t) \/ WriteFails(t)
  \/ AbortAllocation(t) \/ CommitAllocation(t)
  \/ RememberAndRelease(t) \/ ReleaseFails(t)
  \/ ReportSaved(t) \/ ReportFailure(t)

Next ==
  \/ \E t \in Tasks : Begin(t) \/ Runs(t) \/ Cancel(t) \/ CancelSettling(t)
  \/ \E p \in Procs : Crash(p)

Spec == Init /\ [][Next]_vars

\* A started job runs on: its requests and its wait for the lock time out
\* (InterProcessLock, AcquireEnds), the rest never blocks.
Fairness == \A t \in Tasks : WF_vars(Runs(t))
FairSpec == Spec /\ Fairness

----------------------------------------------------------------------------

\* Every variable has its type.
TypeOK ==
  /\ mode \in Modes
  /\ disk \in [Names -> Tasks \cup {None, Old}]
  /\ holder \in Tasks \cup {None}
  /\ known \in [Procs -> [Keys -> Names \cup {None}]]
  /\ reserved \in [Procs -> [Keys -> Tasks \cup {None}]]
  /\ committed \in [Procs -> SUBSET Keys]
  /\ step \in [Tasks -> Steps]
  /\ target \in [Tasks -> Names \cup {None}]
  /\ ledger \in [Tasks -> Outcomes]
  /\ fault \in [Tasks -> Faults]
  /\ interrupted \in [Tasks -> BOOLEAN]

\* At most one image job is inside the locked block, over all processes, and
\* it is the holder: no exit of the block leaves the lock behind.
OneSaver == \A t \in Tasks : step[t] \in Critical <=> holder = t

\* A reservation lives only while its task holds the directory lock: no other
\* job that allocates here can find one, so skip mode never waits, under the
\* lock, for a job that needs the lock.
ReservedUnderLock ==
  \A p \in Procs, k \in Keys :
    LET t == reserved[p][k] IN
    t # None => /\ holder = t /\ ProcOf[t] = p
                /\ step[t] \in {"allocated", "written", "aborting"}
                /\ KeyOf[target[t]] = k

\* While a job decides on a name, its allocator's cache is exactly what is in
\* the directory, files other processes published in the meantime included.
CacheIsFresh ==
  \A t \in Tasks : step[t] \in {"refreshed", "allocated"} =>
    known[ProcOf[t]] = Scan(Files)

\* n holds what t's operation wrote.
OwnWork(t, n) == disk[n] \in MyTasks(ProcOf[t])

\* What the ledger remembers and what is on the disk agree whenever a job is
\* over, cancelled or not: saved means the file is there with its content (or
\* another process overwrote it), and a published file is never forgotten nor
\* reported as failed unless the unlock after it failed.
OutcomeMatchesDisk ==
  \A t \in Tasks :
    /\ ledger[t] = "saved" =>
         \/ disk[target[t]] = t
         \/ mode = "overwrite" /\ ~OwnWork(t, target[t])
    /\ ledger[t] = "skipped" => target[t] \in Files
    /\ step[t] \in Terminal /\ (\E n \in Names : disk[n] = t) =>
         ledger[t] = "saved" \/ fault[t] = "release"

\* No file is replaced outside overwrite mode; in overwrite mode a job never
\* replaces what its own operation wrote.
NeverReplacesOwn ==
  [][\A n \in Names, t \in Tasks :
       disk[n] \notin {None, t} /\ disk'[n] = t =>
         /\ mode = "overwrite"
         /\ ~OwnWork(t, n)]_vars

\* A new name is used only when no file with its collision key exists, so the
\* output can be copied to a case-insensitive file system.
NewNamesAreFree ==
  [][\A n \in Names : disk[n] = None /\ disk'[n] # None =>
       SameKey(KeyOf[n]) \cap Files = {}]_vars

\* A job that was started comes to an end, unless its process dies.
JobEnds == \A t \in Tasks : step[t] = "working" ~> step[t] \in Terminal \cup {"idle"}

=============================================================================
