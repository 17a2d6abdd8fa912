-------------------------- MODULE OutputSave_proofs --------------------------
(***************************************************************************)
(* For any set of jobs, processes, names and collision keys: the directory *)
(* lock and the reservations agree, the allocator decides on what is in    *)
(* the directory, no file is replaced that must not be, and the ledger says *)
(* what is on the disk.  For any number of writers, appenders and readers of *)
(* one file, and any number of pieces: it is always one completed write.     *)
(***************************************************************************)
EXTENDS MCSavesAndFiles, Sequences, TLAPS

\* A job that decided on a name has one.
Targeted ==
  \A t \in Tasks : step[t] \in {"allocated", "written", "aborting", "committed", "skipping"} =>
    target[t] \in Names

\* What a job may write to: a name no file collides with, or in overwrite mode
\* a file that its operation has not written.
TargetFits ==
  \A t \in Tasks : step[t] = "allocated" =>
    \/ SameKey(KeyOf[target[t]]) \cap Files = {}
    \/ mode = "overwrite" /\ target[t] \in Files /\ ~OwnWork(t, target[t])

\* An operation remembers the keys of all files it has on the disk, except the
\* one being committed.
OwnRecorded ==
  \A n \in Names : disk[n] \in Tasks =>
    \/ KeyOf[n] \in committed[ProcOf[disk[n]]]
    \/ step[disk[n]] = "written" /\ target[disk[n]] = n

\* The inductive invariant.
Inv ==
  /\ TypeOK /\ Targeted /\ OneSaver /\ ReservedUnderLock
  /\ CacheIsFresh /\ TargetFits /\ OwnRecorded

----------------------------------------------------------------------------
(* The allocator's decisions *)

\* A key is absent from the cache built from a directory exactly when no file
\* has that key; otherwise its spelling is that of such a file.
LEMMA ScanNone ==
  ASSUME NEW S \in SUBSET Names, NEW k \in Keys
  PROVE  /\ Scan(S)[k] = None <=> SameKey(k) \cap S = {}
         /\ Scan(S)[k] # None => Scan(S)[k] \in SameKey(k) \cap S
<1> DEFINE found == SameKey(k) \cap S
<1>1. found \in SUBSET Names
  BY DEF SameKey
<1>2. found # {} => First[found] \in found /\ First[found] # None
  BY <1>1, NamesAssumption
<1>3. Scan(S)[k] = IF found = {} THEN None ELSE First[found]
  BY DEF Scan
<1> QED
  BY <1>2, <1>3

\* The cache has its type.
LEMMA ScanType ==
  ASSUME NEW S \in SUBSET Names
  PROVE  Scan(S) \in [Keys -> Names \cup {None}]
<1> DEFINE spelling(k) == LET found == SameKey(k) \cap S IN IF found = {} THEN None ELSE First[found]
<1>1. Scan(S) = [k \in Keys |-> spelling(k)]
  BY DEF Scan
<1>2. ASSUME NEW k \in Keys PROVE spelling(k) \in Names \cup {None}
  <2>1. Scan(S)[k] \in Names \cup {None}
    BY ScanNone DEF SameKey
  <2> QED
    BY <1>1, <2>1
<1> HIDE DEF spelling
<1> QED
  BY <1>1, <1>2

\* With a fresh cache, a name is free only if no file collides with it, and
\* what exists of its key is a file of that key.
LEMMA FreshDecision ==
  ASSUME NEW p \in Procs, NEW n \in Names, known[p] = Scan(Files)
  PROVE  /\ Free(View(p), n) => SameKey(KeyOf[n]) \cap Files = {}
         /\ Existing(View(p), n) # None => Existing(View(p), n) \in SameKey(KeyOf[n]) \cap Files
<1>1. Files \in SUBSET Names /\ KeyOf[n] \in Keys /\ None \notin Names
  BY NamesAssumption DEF Files
<1>2. /\ Scan(Files)[KeyOf[n]] = None <=> SameKey(KeyOf[n]) \cap Files = {}
      /\ Scan(Files)[KeyOf[n]] # None => Scan(Files)[KeyOf[n]] \in SameKey(KeyOf[n]) \cap Files
  BY <1>1, ScanNone
<1> QED
  BY <1>1, <1>2 DEF Free, Existing, View, SameKey

\* A reserved name fits.
LEMMA ReservedFits ==
  ASSUME NEW p \in Procs, NEW base \in Names, NEW n \in Names, known[p] = Scan(Files),
         Reserves(View(p), base, n)
  PROVE  \/ SameKey(KeyOf[n]) \cap Files = {}
         \/ mode = "overwrite" /\ n \in Files /\ KeyOf[n] \notin committed[p]
<1>1. CASE Free(View(p), base) /\ n = base
  BY <1>1, FreshDecision
<1>2. CASE Overwrites(View(p), base) /\ n = Existing(View(p), base)
  <2>1. n \in SameKey(KeyOf[base]) \cap Files
    BY <1>2, FreshDecision DEF Overwrites, Present
  <2> QED
    BY <1>2, <2>1 DEF Overwrites, SameKey, View
<1>3. ASSUME NEW i \in 1..MaxSuffix, IsUnique(View(p), base, i), n = Renamed[base][i]
      PROVE  SameKey(KeyOf[n]) \cap Files = {}
  BY <1>3, FreshDecision DEF IsUnique
<1> QED
  BY <1>1, <1>2, <1>3 DEF Reserves

----------------------------------------------------------------------------
(* Inductive invariant *)

\* No job is running and nothing is reserved at the start.
LEMMA InitInv == Init => Inv
  BY NamesAssumption, TasksAssumption
  DEF Init, Inv, TypeOK, Targeted, OneSaver, ReservedUnderLock, CacheIsFresh, TargetFits, OwnRecorded,
      Modes, Steps, Outcomes, Faults, Critical

\* A step outside the locked block, or one that only notes a cancellation.
Outside(t) ==
  /\ UNCHANGED <<mode, disk, holder, memory, target>>
  /\ step' = step \/ \E s \in Steps \ Critical : step[t] \notin Critical /\ Goto(t, s)
  /\ ledger' \in [Tasks -> Outcomes]
  /\ fault' \in [Tasks -> Faults]
  /\ interrupted' \in [Tasks -> BOOLEAN]

\* Such a step disturbs nothing.
LEMMA OutsideInv ==
  ASSUME Inv, NEW t \in Tasks, Outside(t)
  PROVE  Inv'
<1> USE DEF Inv, Outside, Goto, memory, TypeOK, Critical
<1>1. TypeOK'
  BY DEF Steps
<1>2. Targeted'
  BY DEF Targeted
<1>3. OneSaver'
  BY DEF OneSaver
<1>4. ReservedUnderLock'
  BY DEF ReservedUnderLock
<1>5. CacheIsFresh'
  BY DEF CacheIsFresh, Files
<1>6. TargetFits'
  BY DEF TargetFits, Files, OwnWork, MyTasks
<1>7. OwnRecorded'
  BY DEF OwnRecorded
<1> QED
  BY <1>1, <1>2, <1>3, <1>4, <1>5, <1>6, <1>7

\* The steps outside the locked block.
LEMMA OutsideSteps ==
  ASSUME Inv, NEW t \in Tasks,
         \/ Begin(t) \/ Processed(t) \/ WorkFails(t) \/ LockFails(t)
         \/ ReportSaved(t) \/ ReportFailure(t) \/ Cancel(t) \/ CancelSettling(t)
  PROVE  Outside(t)
<1> USE DEF Inv, TypeOK, Outside, Goto, Steps, Critical, Outcomes, Faults
<1>1. CASE Begin(t)
  BY <1>1 DEF Begin, Remember
<1>2. CASE Processed(t)
  BY <1>2 DEF Processed
<1>3. CASE WorkFails(t)
  BY <1>3 DEF WorkFails, Fails
<1>4. CASE LockFails(t)
  BY <1>4 DEF LockFails, Fails
<1>5. CASE ReportSaved(t)
  BY <1>5 DEF ReportSaved
<1>6. CASE ReportFailure(t)
  BY <1>6 DEF ReportFailure, Remember
<1>7. CASE Cancel(t)
  BY <1>7 DEF Cancel
<1>8. CASE CancelSettling(t)
  BY <1>8 DEF CancelSettling
<1> QED
  BY <1>1, <1>2, <1>3, <1>4, <1>5, <1>6, <1>7, <1>8

\* The decisions, made under the lock with a fresh cache.
LEMMA AllocateInv ==
  ASSUME Inv, NEW t \in Tasks, Allocate(t)
  PROVE  Inv'
<1> USE NamesAssumption, TasksAssumption
<1> DEFINE p == ProcOf[t]
<1>1. PICK n \in Names : /\ Reserves(View(p), Base[t], n)
                         /\ target' = [target EXCEPT ![t] = n]
                         /\ reserved' = [reserved EXCEPT ![p][KeyOf[n]] = t]
  BY DEF Allocate
<1>2. p \in Procs /\ Base[t] \in Names /\ known[p] = Scan(Files) /\ step[t] = "refreshed"
  BY DEF Allocate, Inv, CacheIsFresh
<1>3. \/ SameKey(KeyOf[n]) \cap Files = {}
      \/ mode = "overwrite" /\ n \in Files /\ KeyOf[n] \notin committed[p]
  BY <1>1, <1>2, ReservedFits
<1>4. \A u \in Tasks : step[u] = "written" => u = t
  BY <1>2 DEF Inv, OneSaver, Critical
<1>5. n \in Files /\ KeyOf[n] \notin committed[p] => ~OwnWork(t, n)
  BY <1>2, <1>4 DEF OwnWork, MyTasks, Inv, OwnRecorded
<1>6. \/ SameKey(KeyOf[n]) \cap Files = {}
      \/ mode = "overwrite" /\ n \in Files /\ ~OwnWork(t, n)
  BY <1>3, <1>5
<1>7. /\ step' = [step EXCEPT ![t] = "allocated"]
      /\ UNCHANGED <<mode, disk, holder, known, committed, ledger, fault, interrupted>>
  BY DEF Allocate, Goto
<1> USE DEF Inv, TypeOK, Critical
<1>8. TypeOK'
  BY <1>1, <1>2, <1>7 DEF Steps
<1>9. Targeted'
  BY <1>1, <1>7 DEF Targeted
<1>10. OneSaver'
  BY <1>2, <1>7 DEF OneSaver
<1>11. ReservedUnderLock'
  BY <1>1, <1>2, <1>7 DEF OneSaver, ReservedUnderLock
<1>12. CacheIsFresh'
  BY <1>2, <1>7 DEF CacheIsFresh, Files
<1>13. TargetFits'
  <2>1. target'[t] = n /\ Files' = Files /\ (OwnWork(t, n) <=> OwnWork(t, n)')
    BY <1>1, <1>7 DEF Files, OwnWork, MyTasks
  <2>2. \A u \in Tasks : step'[u] = "allocated" => u = t
    BY <1>2, <1>7 DEF OneSaver
  <2> QED
    BY <1>6, <2>1, <2>2, <1>7 DEF TargetFits, OwnWork, MyTasks
<1>14. OwnRecorded'
  BY <1>2, <1>1, <1>7 DEF OwnRecorded
<1> QED
  BY <1>8, <1>9, <1>10, <1>11, <1>12, <1>13, <1>14

\* What skip mode returns is a name.
LEMMA SkippedExists ==
  ASSUME Inv, NEW t \in Tasks, AllocateSkip(t)
  PROVE  Existing(View(ProcOf[t]), Base[t]) \in Names
<1>1. ProcOf[t] \in Procs /\ Base[t] \in Names
  BY TasksAssumption
<1>2. known[ProcOf[t]] = Scan(Files)
  BY DEF AllocateSkip, Inv, CacheIsFresh
<1>3. Existing(View(ProcOf[t]), Base[t]) # None
  BY DEF AllocateSkip, Skips, Present
<1>4. Existing(View(ProcOf[t]), Base[t]) \in SameKey(KeyOf[Base[t]])
  BY <1>1, <1>2, <1>3, FreshDecision
<1> QED
  BY <1>4 DEF SameKey

\* Every step of a job.
LEMMA JobInv ==
  ASSUME Inv, NEW t \in Tasks, Begin(t) \/ Runs(t) \/ Cancel(t) \/ CancelSettling(t)
  PROVE  Inv'
<1> USE NamesAssumption, TasksAssumption
<1> DEFINE p == ProcOf[t]
<1>1. CASE Outside(t)
  BY <1>1, OutsideInv
<1>2. CASE Allocate(t)
  BY <1>2, AllocateInv
<1> USE DEF Inv, TypeOK, Targeted, OneSaver, ReservedUnderLock, CacheIsFresh, TargetFits, OwnRecorded
<1> USE DEF memory, Goto, Steps, Faults, Outcomes, Critical, Files, OwnWork, MyTasks
<1>3. CASE Acquire(t)
  BY <1>3 DEF Acquire
<1>4. CASE RefreshDirectory(t)
  <2>1. Scan(Files) \in [Keys -> Names \cup {None}]
    BY ScanType
  <2>2. known' = [known EXCEPT ![p] = Scan(Files)] /\ known' \in [Procs -> [Keys -> Names \cup {None}]]
    BY <1>4, <2>1 DEF RefreshDirectory
  <2>3. UNCHANGED <<mode, disk, holder, reserved, committed, target, ledger, fault, interrupted>>
    BY <1>4 DEF RefreshDirectory
  <2>4. step[t] = "locked" /\ step' = [step EXCEPT ![t] = "refreshed"]
    BY <1>4 DEF RefreshDirectory
  <2>5. CacheIsFresh'
    BY <2>2, <2>3, <2>4
  <2>6. (TypeOK /\ Targeted /\ OneSaver /\ ReservedUnderLock /\ TargetFits /\ OwnRecorded)'
    BY <2>2, <2>3, <2>4
  <2> QED
    BY <2>5, <2>6
<1>5. CASE AllocateSkip(t)
  <2> DEFINE n == Existing(View(p), Base[t])
  <2>1. n \in Names
    BY <1>5, SkippedExists
  <2>2. /\ step[t] = "refreshed" /\ step' = [step EXCEPT ![t] = "skipping"]
        /\ target' = [target EXCEPT ![t] = n]
        /\ UNCHANGED <<mode, disk, holder, memory, ledger, fault, interrupted>>
    BY <1>5 DEF AllocateSkip
  <2> HIDE DEF n
  <2> QED
    BY <2>1, <2>2
<1>6. CASE AllocateFails(t)
  <2>1. \E why \in Faults : Fails(t, why)
    BY <1>6 DEF AllocateFails
  <2>2. step[t] = "refreshed" /\ holder' = None /\ UNCHANGED <<mode, disk, memory, target, ledger, interrupted>>
    BY <1>6 DEF AllocateFails
  <2> QED
    BY <2>1, <2>2 DEF Fails
<1>7. CASE Write(t)
  BY <1>7 DEF Write
<1>8. CASE WriteFails(t)
  BY <1>8 DEF WriteFails
<1>9. CASE AbortAllocation(t)
  BY <1>9 DEF AbortAllocation, Unreserve
<1>10. CASE CommitAllocation(t)
  BY <1>10 DEF CommitAllocation, Committing, Unreserve
<1>11. CASE RememberAndRelease(t)
  BY <1>11 DEF RememberAndRelease, Remember
<1>12. CASE ReleaseFails(t)
  BY <1>12 DEF ReleaseFails, Remember, Fails
<1> QED
  BY <1>1, <1>2, <1>3, <1>4, <1>5, <1>6, <1>7, <1>8, <1>9, <1>10, <1>11, <1>12, OutsideSteps DEF Runs

\* The death of a process forgets what it had reserved and frees its lock.
LEMMA CrashInv ==
  ASSUME Inv, NEW p \in Procs, Crash(p)
  PROVE  Inv'
<1> USE NamesAssumption, TasksAssumption
<1> USE DEF Inv, Crash, TypeOK, Critical
<1>1. TypeOK'
  BY DEF Steps, Faults, Outcomes
<1>2. /\ Files' = Files
      /\ \A t \in Tasks : ProcOf[t] = p => step'[t] = "idle"
      /\ \A t \in Tasks : ProcOf[t] # p => step'[t] = step[t] /\ target'[t] = target[t]
      /\ \A q \in Procs : q # p => known'[q] = known[q] /\ reserved'[q] = reserved[q]
                                    /\ committed'[q] = committed[q]
      /\ \A n \in Names : disk'[n] \in Tasks => disk'[n] = disk[n] /\ ProcOf[disk[n]] # p
  BY DEF Files, MyTasks
<1>3. Targeted'
  BY <1>2 DEF Targeted
<1>4. OneSaver'
  BY DEF OneSaver, MyTasks
<1>5. ReservedUnderLock'
  BY <1>2 DEF ReservedUnderLock, MyTasks
<1>6. CacheIsFresh'
  BY <1>2 DEF CacheIsFresh
<1>7. TargetFits'
  <2> SUFFICES ASSUME NEW t \in Tasks, step'[t] = "allocated"
               PROVE  \/ SameKey(KeyOf[target[t]])' \cap Files' = {}
                      \/ mode' = "overwrite" /\ target'[t] \in Files' /\ ~OwnWork(t, target[t])'
    BY DEF TargetFits
  <2>1. ProcOf[t] # p /\ step[t] = "allocated" /\ target'[t] = target[t] /\ target[t] \in Names
    BY <1>2 DEF Targeted
  <2>2. OwnWork(t, target[t])' => OwnWork(t, target[t])
    BY <1>2, <2>1 DEF OwnWork, MyTasks
  <2> QED
    BY <1>2, <2>1, <2>2 DEF TargetFits, OwnWork
<1>8. OwnRecorded'
  BY <1>2 DEF OwnRecorded
<1> QED
  BY <1>1, <1>3, <1>4, <1>5, <1>6, <1>7, <1>8

\* Every step keeps the invariant.
LEMMA NextInv == Inv /\ [Next]_vars => Inv'
<1> SUFFICES ASSUME Inv, [Next]_vars PROVE Inv'
  OBVIOUS
<1>1. CASE UNCHANGED vars
  BY <1>1 DEF vars, memory, Inv, TypeOK, Targeted, OneSaver, ReservedUnderLock, CacheIsFresh, TargetFits,
     OwnRecorded, Files, OwnWork, MyTasks
<1> QED
  BY <1>1, JobInv, CrashInv DEF Next

\* The inductive invariant holds in every reachable state.
THEOREM Invariance == Spec => []Inv
<1> QED
  BY InitInv, NextInv, PTL DEF Spec

\* The allocator's tables, the ledger and the lock keep their types.
THEOREM TypeCorrect == Spec => []TypeOK
  BY Invariance, PTL DEF Inv

\* At most one job over all processes is inside the locked block, and no exit
\* of the block leaves the lock behind.
THEOREM OneSaverHolds == Spec => []OneSaver
  BY Invariance, PTL DEF Inv

\* A reservation never outlives its task's hold of the directory lock.
THEOREM ReservationsAreLocked == Spec => []ReservedUnderLock
  BY Invariance, PTL DEF Inv

\* Names are decided on what is in the directory at that moment.
THEOREM DecisionsAreFresh == Spec => []CacheIsFresh
  BY Invariance, PTL DEF Inv

----------------------------------------------------------------------------
(* What a step may never do to a file *)

\* Only Write brings a job's content to the disk.
LEMMA OnlyWriteWrites ==
  ASSUME Inv, [Next]_vars, disk' # disk
  PROVE  \/ \E t \in Tasks : Write(t)
         \/ \E p \in Procs : Crash(p)
<1> USE DEF memory, vars
<1>1. ASSUME NEW t \in Tasks, Begin(t) \/ Runs(t) \/ Cancel(t) \/ CancelSettling(t)
      PROVE  Write(t)
  BY <1>1 DEF Begin, Runs, Cancel, CancelSettling, Processed, WorkFails, Acquire, LockFails,
     RefreshDirectory, Allocate, AllocateSkip, AllocateFails, WriteFails, AbortAllocation,
     CommitAllocation, Committing, RememberAndRelease, ReleaseFails, ReportSaved, ReportFailure
<1> QED
  BY <1>1 DEF Next

KeepsFiles ==
  \A n \in Names, t \in Tasks :
    disk[n] \notin {None, t} /\ disk'[n] = t =>
      /\ mode = "overwrite"
      /\ ~OwnWork(t, n)

UsesFreeNames ==
  \A n \in Names : disk[n] = None /\ disk'[n] # None => SameKey(KeyOf[n]) \cap Files = {}

\* What TargetFits says of the name a job writes to is what both need.
LEMMA NextKeepsFiles == Inv /\ [Next]_vars => KeepsFiles /\ UsesFreeNames
<1> SUFFICES ASSUME Inv, [Next]_vars PROVE KeepsFiles /\ UsesFreeNames
  OBVIOUS
<1> USE TasksAssumption, NamesAssumption
<1>1. CASE disk' = disk
  BY <1>1 DEF KeepsFiles, UsesFreeNames
<1>2. ASSUME NEW t \in Tasks, Write(t) PROVE KeepsFiles /\ UsesFreeNames
  <2>1. /\ step[t] = "allocated" /\ target[t] \in Names
        /\ disk' = [disk EXCEPT ![target[t]] = t] /\ disk \in [Names -> Tasks \cup {None, Old}]
    BY <1>2 DEF Write, Inv, Targeted, TypeOK
  <2>2. \/ SameKey(KeyOf[target[t]]) \cap Files = {}
        \/ mode = "overwrite" /\ target[t] \in Files /\ ~OwnWork(t, target[t])
    BY <2>1 DEF Inv, TargetFits
  <2>3. target[t] \in SameKey(KeyOf[target[t]])
    BY <2>1 DEF SameKey
  <2> QED
    BY <2>1, <2>2, <2>3 DEF KeepsFiles, UsesFreeNames, Files
<1>3. ASSUME NEW p \in Procs, Crash(p) PROVE KeepsFiles /\ UsesFreeNames
  BY <1>3 DEF Crash, KeepsFiles, UsesFreeNames, MyTasks, Inv, TypeOK
<1> QED
  BY <1>1, <1>2, <1>3, OnlyWriteWrites

\* No file is replaced outside overwrite mode, and none of the operation's own.
THEOREM OwnFilesSurvive == Spec => NeverReplacesOwn
<1>1. Inv /\ [Next]_vars => [KeepsFiles]_vars
  BY NextKeepsFiles
<1> QED
  BY <1>1, Invariance, PTL DEF Spec, NeverReplacesOwn, KeepsFiles

\* A new name is used only when no file has its collision key.
THEOREM NewNamesDoNotCollide == Spec => NewNamesAreFree
<1>1. Inv /\ [Next]_vars => [UsesFreeNames]_vars
  BY NextKeepsFiles
<1> QED
  BY <1>1, Invariance, PTL DEF Spec, NewNamesAreFree, UsesFreeNames
----------------------------------------------------------------------------
(* The ledger and the disk *)

\* The steps of a job before its outcome is decided.
Undecided == {"idle", "working", "acquiring"} \cup Critical

\* What the ledger and the error of a job say at every step: the outcome is
\* remembered only when the file is published, the key of a saved file is known
\* to its operation, and a file a job published is there until the job
\* remembers it, while nobody else is in the locked block.
Accounted ==
  \A t \in Tasks :
    /\ step[t] \in Undecided => ledger[t] \in {"none", "attempted"} /\ fault[t] # "release"
    /\ step[t] \in {"written", "committed"} => disk[target[t]] = t
    /\ step[t] = "skipping" => target[t] \in Files
    /\ step[t] = "committed" \/ ledger[t] = "saved" =>
         target[t] \in Files /\ KeyOf[target[t]] \in committed[ProcOf[t]]
    /\ step[t] = "allocated" =>
         \/ target[t] \notin Files
         \/ mode = "overwrite" /\ KeyOf[target[t]] \notin committed[ProcOf[t]]
    /\ step[t] = "reporting" /\ ledger[t] = "saved" => fault[t] = "release"
    /\ ledger[t] = "saved" =>
         disk[target[t]] = t \/ (mode = "overwrite" /\ ~OwnWork(t, target[t]))
    /\ ledger[t] = "skipped" => target[t] \in Files
    /\ (\E n \in Names : disk[n] = t) =>
         step[t] \in {"written", "committed"} \/ ledger[t] = "saved" \/ fault[t] = "release"

LInv == Inv /\ Accounted
\* Nothing is accounted for at the start.
LEMMA InitAccounted == Init => Accounted
  BY NamesAssumption, TasksAssumption DEF Init, Accounted, Undecided, Critical, Files

\* The steps that change no file, no name and no table.
LEMMA QuietAccounted ==
  ASSUME LInv, NEW t \in Tasks, UNCHANGED <<mode, disk, target, committed>>,
         \/ Begin(t) \/ Processed(t) \/ WorkFails(t) \/ Acquire(t) \/ LockFails(t)
         \/ RefreshDirectory(t) \/ AllocateFails(t) \/ WriteFails(t) \/ AbortAllocation(t)
         \/ RememberAndRelease(t) \/ ReleaseFails(t) \/ ReportSaved(t) \/ ReportFailure(t)
         \/ Cancel(t) \/ CancelSettling(t)
  PROVE  Accounted'
<1> USE DEF LInv, Inv, TypeOK, Accounted, Undecided, Critical, Files, OwnWork, MyTasks, Goto, Remember, Fails
<1>1. CASE Begin(t)
  BY <1>1 DEF Begin
<1>2. CASE Processed(t)
  BY <1>2 DEF Processed
<1>3. CASE WorkFails(t)
  BY <1>3 DEF WorkFails
<1>4. CASE Acquire(t)
  BY <1>4 DEF Acquire
<1>5. CASE LockFails(t)
  BY <1>5 DEF LockFails
<1>6. CASE RefreshDirectory(t)
  BY <1>6 DEF RefreshDirectory
<1>7. CASE AllocateFails(t)
  BY <1>7 DEF AllocateFails
<1>8. CASE WriteFails(t)
  BY <1>8 DEF WriteFails
<1>9. CASE AbortAllocation(t)
  BY <1>9 DEF AbortAllocation
<1>10. CASE RememberAndRelease(t)
  BY <1>10 DEF RememberAndRelease
<1>11. CASE ReleaseFails(t)
  BY <1>11 DEF ReleaseFails
<1>12. CASE ReportSaved(t)
  BY <1>12 DEF ReportSaved
<1>13. CASE ReportFailure(t)
  BY <1>13 DEF ReportFailure
<1>14. CASE Cancel(t)
  BY <1>14 DEF Cancel
<1>15. CASE CancelSettling(t)
  BY <1>15 DEF CancelSettling
<1> QED
  BY <1>1, <1>2, <1>3, <1>4, <1>5, <1>6, <1>7, <1>8, <1>9, <1>10, <1>11, <1>12, <1>13, <1>14, <1>15

\* A decided name is not one that a saved file of the operation has.
LEMMA DecisionAccounted ==
  ASSUME LInv, NEW t \in Tasks, Allocate(t) \/ AllocateSkip(t)
  PROVE  Accounted'
<1> USE NamesAssumption, TasksAssumption
<1> DEFINE p == ProcOf[t]
<1>1. p \in Procs /\ Base[t] \in Names /\ known[p] = Scan(Files) /\ step[t] = "refreshed"
  BY DEF Allocate, AllocateSkip, LInv, Inv, CacheIsFresh
<1>2. CASE Allocate(t)
  <2>1. PICK n \in Names : Reserves(View(p), Base[t], n) /\ target' = [target EXCEPT ![t] = n]
    BY <1>2 DEF Allocate
  <2>2. n \in SameKey(KeyOf[n])
    BY DEF SameKey
  <2>3. n \notin Files \/ (mode = "overwrite" /\ KeyOf[n] \notin committed[p])
    BY <1>1, <2>1, <2>2, ReservedFits
  <2>4. step' = [step EXCEPT ![t] = "allocated"] /\ UNCHANGED <<mode, disk, committed, ledger, fault>>
    BY <1>2 DEF Allocate, Goto
  <2> QED
    BY <1>1, <2>1, <2>3, <2>4 DEF LInv, Inv, TypeOK, Accounted, Undecided, Critical, Files, OwnWork, MyTasks
<1>3. CASE AllocateSkip(t)
  <2> DEFINE n == Existing(View(p), Base[t])
  <2>1. n # None /\ target' = [target EXCEPT ![t] = n]
    BY <1>3 DEF AllocateSkip, Skips, Present
  <2>2. n \in Files
    BY <1>1, <2>1, FreshDecision
  <2>3. step' = [step EXCEPT ![t] = "skipping"] /\ UNCHANGED <<mode, disk, committed, ledger, fault>>
    BY <1>3 DEF AllocateSkip, Goto, memory
  <2> HIDE DEF n
  <2> QED
    BY <1>1, <2>1, <2>2, <2>3 DEF LInv, Inv, TypeOK, Accounted, Undecided, Critical, Files, OwnWork, MyTasks
<1> QED
  BY <1>2, <1>3

\* The file a job replaces is nobody's that its operation has saved.
LEMMA WriteAccounted ==
  ASSUME LInv, NEW t \in Tasks, Write(t)
  PROVE  Accounted'
<1> USE NamesAssumption, TasksAssumption DEF LInv, Inv
<1>1. step[t] = "allocated" /\ target[t] \in Names /\ step \in [Tasks -> Steps]
  BY DEF Write, Targeted, TypeOK
<1>2. /\ disk' = [disk EXCEPT ![target[t]] = t] /\ disk \in [Names -> Tasks \cup {None, Old}]
      /\ step' = [step EXCEPT ![t] = "written"]
      /\ UNCHANGED <<mode, target, committed, ledger, fault>>
  BY DEF Write, Goto, TypeOK, memory
<1>3. \A u \in Tasks \ {t} : step[u] \notin Critical
  BY <1>1 DEF OneSaver, Critical
<1>4. Files' = Files \cup {target[t]} /\ t # None
  BY <1>1, <1>2 DEF Files
<1>5. ledger[t] \in {"none", "attempted"} /\ fault[t] # "release"
  BY <1>1 DEF Accounted, Undecided, Critical
<1>6. ASSUME NEW u \in Tasks, ledger[u] = "saved"
      PROVE  disk'[target[u]] = u \/ (mode = "overwrite" /\ ~OwnWork(u, target[u])')
  <2>1. /\ target[u] \in Files /\ KeyOf[target[u]] \in committed[ProcOf[u]]
        /\ disk[target[u]] = u \/ (mode = "overwrite" /\ ~OwnWork(u, target[u]))
    BY <1>6 DEF Accounted
  <2>2. CASE target[u] # target[t]
    BY <1>2, <2>1, <2>2 DEF OwnWork, MyTasks, Files
  <2>3. CASE target[u] = target[t]
    <3>1. mode = "overwrite" /\ KeyOf[target[t]] \notin committed[ProcOf[t]]
      BY <1>1, <2>1, <2>3 DEF Accounted
    <3>2. ProcOf[t] # ProcOf[u] /\ disk'[target[u]] = t
      BY <1>1, <1>2, <2>1, <2>3, <3>1
    <3> QED
      BY <1>2, <3>1, <3>2 DEF OwnWork, MyTasks
  <2> QED
    BY <2>2, <2>3
<1> QED
  BY <1>1, <1>2, <1>3, <1>4, <1>5, <1>6 DEF Accounted, Undecided, Critical

\* The key is recorded with the file on the disk.
LEMMA CommitAccounted ==
  ASSUME LInv, NEW t \in Tasks, CommitAllocation(t)
  PROVE  Accounted'
<1> USE NamesAssumption, TasksAssumption DEF LInv, Inv
<1>1. /\ step[t] = "written" /\ step' = [step EXCEPT ![t] = "committed"]
      /\ committed' = [committed EXCEPT ![ProcOf[t]] = @ \cup {KeyOf[target[t]]}]
      /\ UNCHANGED <<mode, disk, target, ledger, fault>>
  BY DEF CommitAllocation, Committing, Goto
<1>2. \A u \in Tasks \ {t} : step[u] \notin Critical
  BY <1>1 DEF OneSaver, Critical
<1>3. target[t] \in Files
  BY <1>1 DEF Accounted, Files, Targeted
<1> QED
  BY <1>1, <1>2, <1>3 DEF Accounted, Undecided, Critical, Files, OwnWork, MyTasks, TypeOK

\* The death of a process leaves the accounts of the others as they are.
LEMMA CrashAccounted ==
  ASSUME LInv, NEW p \in Procs, Crash(p)
  PROVE  Accounted'
<1> USE NamesAssumption, TasksAssumption DEF LInv, Inv
<1>1. /\ Files' = Files /\ mode' = mode
      /\ \A n \in Names : disk'[n] \in Tasks => disk'[n] = disk[n] /\ ProcOf[disk[n]] # p
      /\ \A n \in Names : disk[n] \in Tasks /\ ProcOf[disk[n]] # p => disk'[n] = disk[n]
  BY DEF Crash, Files, MyTasks, TypeOK
<1>2. ASSUME NEW t \in Tasks, ProcOf[t] = p
      PROVE  step'[t] = "idle" /\ ledger'[t] = "none" /\ fault'[t] = "none" /\ \A n \in Names : disk'[n] # t
  BY <1>1, <1>2 DEF Crash
<1>3. ASSUME NEW t \in Tasks, ProcOf[t] # p
      PROVE  /\ step'[t] = step[t] /\ ledger'[t] = ledger[t] /\ fault'[t] = fault[t]
             /\ target'[t] = target[t] /\ committed'[ProcOf[t]] = committed[ProcOf[t]]
  BY <1>3 DEF Crash, TypeOK
<1>4. ASSUME NEW t \in Tasks, ProcOf[t] # p, target[t] \in Names
      PROVE  /\ disk[target[t]] = t <=> disk'[target[t]] = t
             /\ OwnWork(t, target[t])' => OwnWork(t, target[t])
  BY <1>1, <1>3, <1>4 DEF OwnWork, MyTasks
<1>5. ASSUME NEW t \in Tasks, ProcOf[t] # p PROVE
        \/ target[t] \in Names
        \/ step[t] \notin {"allocated", "written", "committed", "skipping"} /\ ledger[t] \notin {"saved", "skipped"}
  BY DEF Accounted, Files, Targeted
<1>6. ASSUME NEW t \in Tasks, ProcOf[t] # p
      PROVE  /\ step[t] \in {"written", "committed"} => disk'[target[t]] = t
             /\ step[t] \in {"skipping", "committed"} => target[t] \in Files
             /\ ledger[t] = "saved" =>
                  disk'[target[t]] = t \/ (mode = "overwrite" /\ ~OwnWork(t, target[t])')
  BY <1>4, <1>5, <1>6 DEF Accounted
<1>7. ASSUME NEW t \in Tasks, ProcOf[t] # p, NEW n \in Names, disk'[n] = t
      PROVE  step[t] \in {"written", "committed"} \/ ledger[t] = "saved" \/ fault[t] = "release"
  BY <1>1, <1>7 DEF Accounted
<1>8. ASSUME NEW t \in Tasks, ProcOf[t] # p
      PROVE  /\ step'[t] \in Undecided => ledger'[t] \in {"none", "attempted"} /\ fault'[t] # "release"
             /\ step'[t] \in {"written", "committed"} => disk'[target'[t]] = t
             /\ step'[t] = "skipping" => target'[t] \in Files'
             /\ step'[t] = "committed" \/ ledger'[t] = "saved" =>
                  target'[t] \in Files' /\ KeyOf[target'[t]] \in committed'[ProcOf[t]]
             /\ step'[t] = "allocated" =>
                  \/ target'[t] \notin Files'
                  \/ mode' = "overwrite" /\ KeyOf[target'[t]] \notin committed'[ProcOf[t]]
             /\ step'[t] = "reporting" /\ ledger'[t] = "saved" => fault'[t] = "release"
             /\ ledger'[t] = "skipped" => target'[t] \in Files'
  BY <1>1, <1>3, <1>6, <1>8 DEF Accounted
<1>9. ASSUME NEW t \in Tasks, ProcOf[t] # p, ledger'[t] = "saved"
      PROVE  disk'[target'[t]] = t \/ (mode' = "overwrite" /\ disk'[target'[t]] \notin MyTasks(ProcOf[t]))
  BY <1>1, <1>3, <1>6, <1>9 DEF OwnWork, MyTasks
<1>10. ASSUME NEW t \in Tasks, ProcOf[t] # p, \E n \in Names : disk'[n] = t
       PROVE  step'[t] \in {"written", "committed"} \/ ledger'[t] = "saved" \/ fault'[t] = "release"
  BY <1>3, <1>7, <1>10
<1> HIDE DEF LInv, Inv
<1> QED
  BY <1>2, <1>8, <1>9, <1>10 DEF Accounted, Undecided, Critical, OwnWork, MyTasks

\* Every step keeps the accounts.
LEMMA NextAccounted == LInv /\ [Next]_vars => Accounted'
<1> SUFFICES ASSUME LInv, [Next]_vars PROVE Accounted'
  OBVIOUS
<1>1. CASE UNCHANGED vars
  BY <1>1 DEF vars, memory, LInv, Accounted, Files, OwnWork, MyTasks
<1>2. ASSUME NEW t \in Tasks, Begin(t) \/ Runs(t) \/ Cancel(t) \/ CancelSettling(t)
      PROVE  Accounted'
  <2>1. CASE Write(t)
    BY <2>1, WriteAccounted
  <2>2. CASE Allocate(t) \/ AllocateSkip(t)
    BY <2>2, DecisionAccounted
  <2>3. CASE CommitAllocation(t)
    BY <2>3, CommitAccounted
  <2>4. CASE \/ Begin(t) \/ Processed(t) \/ WorkFails(t) \/ Acquire(t) \/ LockFails(t)
             \/ RefreshDirectory(t) \/ AllocateFails(t) \/ WriteFails(t) \/ AbortAllocation(t)
             \/ RememberAndRelease(t) \/ ReleaseFails(t) \/ ReportSaved(t) \/ ReportFailure(t)
             \/ Cancel(t) \/ CancelSettling(t)
    <3>1. UNCHANGED <<mode, disk, target, committed>>
      BY <2>4 DEF Begin, Processed, WorkFails, Acquire, LockFails, RefreshDirectory, AllocateFails, WriteFails,
         AbortAllocation, RememberAndRelease, ReleaseFails, ReportSaved, ReportFailure, Cancel, CancelSettling, memory
    <3> QED
      BY <2>4, <3>1, QuietAccounted
  <2> QED
    BY <1>2, <2>1, <2>2, <2>3, <2>4 DEF Runs
<1> QED
  BY <1>1, <1>2, CrashAccounted DEF Next

\* Whatever interrupts a job or fails in it, and whoever else saves into the
\* directory: what the ledger says of a job that is over is what is on the disk.
THEOREM OutcomesAreTrue == Spec => []OutcomeMatchesDisk
<1>1. LInv => OutcomeMatchesDisk
  BY DEF LInv, Inv, Accounted, OutcomeMatchesDisk, Terminal
<1>2. LInv /\ [Next]_vars => LInv'
  BY NextInv, NextAccounted DEF LInv
<1>3. Init => LInv
  BY InitInv, InitAccounted DEF LInv
<1> QED
  BY <1>1, <1>2, <1>3, PTL DEF Spec
-----------------------------------------------------------------------------
(* One file (FileWrites).                                                     *)

\* What an inode may hold: pieces of writers, of who is appending, and the mark
\* of who made the file.
AllPieces == Writers \cup {Old} \cup Appenders \cup {<<a>> : a \in Appenders}

FileTyped ==
  /\ path \in Numbers \cup {None}
  /\ data \in [Numbers -> Seq(AllPieces)]
  /\ kind \in Casts
  /\ DOMAIN fileStep = File!Actors
  /\ temp \in [Writers -> Numbers \cup {None}]
  /\ opened \in [Appenders \cup Readers -> Numbers \cup {None}]
  /\ DOMAIN seen = Readers /\ DOMAIN value = Readers
  /\ published \subseteq Writers

\* A file that is being written is known to its writer only.
Private ==
  \A w \in Writers : fileStep[w] \in {"write", "publish"} =>
    /\ temp[w] \in Numbers
    /\ temp[w] # path
    /\ \A a \in Appenders \cup Readers : opened[a] # temp[w]
    /\ \A v \in Writers \ {w} : temp[v] # temp[w]

\* It is complete when it gets its name, which it gets once.
NamedOnce(w) ==
  /\ fileStep[w] \in {"absent", "start", "write", "publish"} => w \notin published
  /\ fileStep[w] \in {"unlink", "ok"} => w \in published
  /\ fileStep[w] \in {"abort", "failed"} /\ w \in published => w \in atLink
  /\ fileStep[w] = "publish" => data[temp[w]] = File!Whole(w)

Publication == \A w \in Writers : NamedOnce(w)

Bases == {File!Created(a) : a \in Appenders} \cup {File!Whole(w) : w \in Writers \cup {Old}}

Grown(x, c) ==
  /\ Len(x) <= Len(c)
  /\ \A n \in 1..Len(x) : c[n] = x[n]
  /\ \A n \in (Len(x) + 1)..Len(c) : c[n] \in Appenders

IsSound(c) == \E x \in Bases : Grown(x, c)

\* Whose first pieces have had the name.
IsUsed(b) ==
  \/ b \in published \cup {Old}
  \/ \E a \in Appenders : b = <<a>> /\ fileStep[a] \notin {"absent", "start", "open"}

Named ==
  path # None => IsUsed(data[path][1]) /\ IsSound(data[path])

Appending ==
  \A a \in Appenders :
    /\ kind[a] = None => fileStep[a] = "absent"
    /\ fileStep[a] \in {"opened", "append"} => opened[a] \in Numbers

\* What r has seen was replaced, deleted or appended to, and never comes back.
Moved(r) ==
  \/ path = None
  \/ data[path][1] # seen[r].data[1]
  \/ Len(data[path]) > Len(seen[r].data)

Watching(r) ==
  /\ kind[r] = None => fileStep[r] = "absent"
  /\ fileStep[r] \in {"absent", "start"} => since[r] = {}
  /\ fileStep[r] \in {"open", "read", "verify"} =>
       /\ File!Content(path, data) \in since[r]
       /\ seen[r] \in [inode : Numbers, data : Seq(AllPieces)]
       /\ Len(seen[r].data) > 0 /\ IsUsed(seen[r].data[1])

ReadsText(r) ==
  kind[r] = "text" =>
    /\ fileStep[r] = "read" => opened[r] \in Numbers /\ data[opened[r]] \in since[r]
    /\ fileStep[r] \in {"verify", "ok"} => value[r] \in since[r]

\* An inode that has lost its name does not get it again while it is open.
ReadsBounded(r) ==
  kind[r] = "bounded" =>
    /\ fileStep[r] \in {"read", "verify"} => opened[r] \in Numbers /\ opened[r] = seen[r].inode
    /\ fileStep[r] = "verify" => value[r] \in since[r] \/ path # opened[r]
    /\ fileStep[r] = "ok" => value[r] \in since[r]

ReadsStable(r) ==
  kind[r] = "stable" =>
    /\ fileStep[r] = "open" => Moved(r) \/ since[r] = {seen[r].data}
    /\ fileStep[r] = "read" => Moved(r) \/ (since[r] = {seen[r].data} /\ path = opened[r])
    /\ fileStep[r] = "verify" => Moved(r) \/ (since[r] = {seen[r].data} /\ value[r] = seen[r].data)
    /\ fileStep[r] = "ok" => since[r] = {value[r]}

\* What holds of the files and of who writes them.
Stored == FileTyped /\ Private /\ Publication /\ Named /\ Appending

Reading(r) == Watching(r) /\ ReadsText(r) /\ ReadsBounded(r) /\ ReadsStable(r)

\* The inductive invariant.
FileInv == Stored /\ \A r \in Readers : Reading(r)

\* What a step may do to the file: append to it, delete it, or give its name to
\* an inode whose content has not had it before; and to an inode that stays open.
Effects ==
  /\ \/ path' = path /\ (path # None => data'[path] = data[path])
     \/ path' = path /\ path # None /\ \E a \in Appenders : data'[path] = Append(data[path], a)
     \/ path' = None
     \/ path' \in Numbers /\ ~IsUsed(data'[path'][1])
  /\ \A r \in Readers :
       opened[r] \in Numbers /\ opened'[r] = opened[r] =>
         /\ path # opened[r] => path' # opened[r]
         /\ data'[opened[r]] = data[opened[r]] \/ \E a \in Appenders : kind[a] # None
  /\ kind' = kind
  /\ \A b : IsUsed(b) => IsUsed(b)'

-----------------------------------------------------------------------------
(* What each operation leaves.                                                *)

\* What nothing refers to is gone, the rest stays.
LEMMA ClearedKeeps ==
  ASSUME FileTyped, data' = File!Cleared
  PROVE  /\ data' \in [Numbers -> Seq(AllPieces)]
         /\ \A i \in Numbers : i \in File!InUse' => data'[i] = data[i]
BY DEF FileTyped, File!Cleared

\* A path, temporary or open inode is in use.
LEMMA UsedInodes ==
  /\ path \in File!InUse
  /\ \A w \in Writers : temp[w] \in File!InUse
  /\ \A a \in Appenders \cup Readers : opened[a] \in File!InUse
  /\ path' \in File!InUse'
  /\ \A w \in Writers : temp'[w] \in File!InUse'
  /\ \A a \in Appenders \cup Readers : opened'[a] \in File!InUse'
BY DEF File!InUse

\* A writer that does not move is where it was.
LEMMA WriterStays ==
  ASSUME Stored, NEW v \in Writers, published' \subseteq published \cup (Writers \ {v}), published \subseteq published',
         atLink \subseteq atLink', fileStep'[v] = fileStep[v], temp'[v] = temp[v],
         fileStep[v] = "publish" => data'[temp[v]] = data[temp[v]]
  PROVE  NamedOnce(v)'
BY DEF Stored, Publication, NamedOnce

\* What is whole is sound, as is what was made to be appended to.
LEMMA BasesAreSound ==
  /\ \A w \in Writers \cup {Old} : IsSound(File!Whole(w)) /\ File!Whole(w)[1] = w /\ Len(File!Whole(w)) > 0
  /\ \A a \in Appenders : IsSound(File!Created(a)) /\ File!Created(a)[1] = <<a>> /\ Len(File!Created(a)) > 0
<1>. USE FileHolds DEF File!FileAssumption
<1>1. ASSUME NEW w \in Writers \cup {Old} PROVE IsSound(File!Whole(w)) /\ File!Whole(w)[1] = w /\ Len(File!Whole(w)) > 0
  <2>1. File!Whole(w) \in Bases
    BY DEF Bases
  <2>2. Len(File!Whole(w)) = Pieces
    BY DEF File!Whole
  <2>3. Grown(File!Whole(w), File!Whole(w))
    BY <2>2 DEF Grown
  <2>4. File!Whole(w)[1] = w
    BY DEF File!Whole
  <2> QED
    BY <2>1, <2>2, <2>3, <2>4 DEF IsSound
<1>2. ASSUME NEW a \in Appenders PROVE IsSound(File!Created(a)) /\ File!Created(a)[1] = <<a>> /\ Len(File!Created(a)) > 0
  <2>1. File!Created(a) \in Bases
    BY DEF Bases
  <2>2. Len(File!Created(a)) = 1 /\ File!Created(a)[1] = <<a>>
    BY DEF File!Created
  <2>3. Grown(File!Created(a), File!Created(a))
    BY <2>2 DEF Grown
  <2> QED
    BY <2>1, <2>2, <2>3 DEF IsSound
<1> QED
  BY <1>1, <1>2

LEMMA AppendedIsSound ==
  ASSUME NEW c \in Seq(AllPieces), IsSound(c), NEW a \in Appenders
  PROVE  IsSound(Append(c, a)) /\ Append(c, a)[1] = c[1] /\ Len(Append(c, a)) = Len(c) + 1
<1>1. PICK x \in Bases : Grown(x, c)
  BY DEF IsSound
<1>2. Len(x) \in Nat \ {0}
  BY FileHolds DEF File!FileAssumption, Bases, File!Whole, File!Created
<1>3. Append(c, a) \in Seq(AllPieces \cup {a}) /\ Len(Append(c, a)) = Len(c) + 1 /\ Append(c, a)[Len(c) + 1] = a
  OBVIOUS
<1>4. \A n \in 1..Len(c) : Append(c, a)[n] = c[n]
  OBVIOUS
<1>5. Grown(x, Append(c, a))
  BY <1>1, <1>2, <1>3, <1>4 DEF Grown
<1> QED
  BY <1>1, <1>2, <1>3, <1>4, <1>5 DEF IsSound, Grown

LEMMA BeginKeeps ==
  ASSUME Stored, NEW w \in Writers, File!Begin(w)
  PROVE  Stored' /\ Effects
<1>. USE FileHolds DEF File!FileAssumption, Stored
<1>1. CASE fileStep' = [fileStep EXCEPT ![w] = "failed"] /\ UNCHANGED <<data, temp>>
  <2>1. FileTyped'
    BY <1>1 DEF File!Begin, FileTyped
  <2>2. Private'
    BY <1>1 DEF File!Begin, FileTyped, Private, File!Actors
  <2>3. Publication'
    BY <1>1 DEF File!Begin, FileTyped, Publication, NamedOnce, File!Actors
  <2>4. Named'
    BY <1>1 DEF File!Begin, FileTyped, Named, File!Actors, IsUsed
  <2>5. Appending'
    BY <1>1 DEF File!Begin, FileTyped, Appending, File!Actors
  <2>6. Effects
    BY <1>1 DEF File!Begin, FileTyped, Effects, File!Actors, IsUsed
  <2> QED
    BY <2>1, <2>2, <2>3, <2>4, <2>5, <2>6
<1>2. ASSUME NEW i \in File!Free, temp' = [temp EXCEPT ![w] = i], data' = [data EXCEPT ![i] = <<>>],
             fileStep' = [fileStep EXCEPT ![w] = "write"]
      PROVE  Stored' /\ Effects
  <2>0. i \in Numbers /\ path # i /\ (\A v \in Writers : temp[v] # i) /\ (\A a \in Appenders \cup Readers : opened[a] # i)
    BY <1>2, UsedInodes DEF File!Free
  <2>1. FileTyped'
    BY <1>2, <2>0 DEF File!Begin, FileTyped
  <2>2. Private'
    BY <1>2, <2>0 DEF File!Begin, FileTyped, Private, File!Actors
  <2>3. Publication'
    BY <1>2, <2>0 DEF File!Begin, FileTyped, Private, Publication, NamedOnce, File!Actors
  <2>4. Named'
    BY <1>2, <2>0 DEF File!Begin, FileTyped, Named, File!Actors, IsUsed
  <2>5. Appending'
    BY <1>2, <2>0 DEF File!Begin, FileTyped, Appending, File!Actors
  <2>6. Effects
    BY <1>2, <2>0 DEF File!Begin, FileTyped, Effects, File!Actors, IsUsed
  <2> QED
    BY <2>1, <2>2, <2>3, <2>4, <2>5, <2>6
<1> QED
  BY <1>1, <1>2 DEF File!Begin, File!Goto

LEMMA WriteKeeps ==
  ASSUME Stored, NEW w \in Writers, File!Write(w)
  PROVE  Stored' /\ Effects
<1>. USE FileHolds DEF File!FileAssumption, Stored
<1>1. FileTyped'
  <2>1. temp[w] \in Numbers /\ w \in AllPieces
    BY DEF File!Write, Private, AllPieces
  <2>2. data' \in [Numbers -> Seq(AllPieces)]
    BY <2>1 DEF File!Write, FileTyped
  <2> QED
    BY <2>2 DEF File!Write, FileTyped
<1>2. Private'
  BY DEF File!Write, File!Goto, FileTyped, File!Actors, Private
<1>3. Publication'
  <2>1. NamedOnce(w)'
    BY BasesAreSound DEF File!Write, File!Goto, FileTyped, File!Actors, Publication, NamedOnce, Private
  <2>2. ASSUME NEW v \in Writers \ {w} PROVE NamedOnce(v)'
    BY <2>2, WriterStays DEF File!Write, File!Goto, FileTyped, File!Actors, Private
  <2> QED
    BY <2>1, <2>2 DEF Publication
<1>4. Named'
  BY DEF File!Write, File!Goto, FileTyped, File!Actors, Named, IsUsed, Private
<1>5. Appending'
  BY DEF File!Write, File!Goto, FileTyped, File!Actors, Appending
<1>6. Effects
  BY DEF File!Write, File!Goto, FileTyped, File!Actors, Effects, IsUsed, Private
<1> QED
  BY <1>1, <1>2, <1>3, <1>4, <1>5, <1>6

LEMMA CheckKeeps ==
  ASSUME Stored, NEW w \in Writers, File!Check(w)
  PROVE  Stored' /\ Effects
<1>. USE FileHolds DEF File!FileAssumption, Stored
<1>1. FileTyped'
  BY DEF File!Check, File!Goto, FileTyped, File!Actors, AllPieces
<1>2. Private'
  BY DEF File!Check, File!Goto, FileTyped, File!Actors, Private
<1>3. Publication'
  <2>1. NamedOnce(w)'
    BY BasesAreSound DEF File!Check, File!Goto, FileTyped, File!Actors, Publication, NamedOnce, Private
  <2>2. ASSUME NEW v \in Writers \ {w} PROVE NamedOnce(v)'
    BY <2>2, WriterStays DEF File!Check, File!Goto, FileTyped, File!Actors, Private
  <2> QED
    BY <2>1, <2>2 DEF Publication
<1>4. Named'
  BY DEF File!Check, File!Goto, FileTyped, File!Actors, Named, IsUsed, Private
<1>5. Appending'
  BY DEF File!Check, File!Goto, FileTyped, File!Actors, Appending
<1>6. Effects
  BY DEF File!Check, File!Goto, FileTyped, File!Actors, Effects, IsUsed, Private
<1> QED
  BY <1>1, <1>2, <1>3, <1>4, <1>5, <1>6

LEMMA ReplaceKeeps ==
  ASSUME Stored, NEW w \in Writers, File!Replace(w)
  PROVE  Stored' /\ Effects
<1>. USE FileHolds DEF File!FileAssumption, Stored
<1>0. /\ data' \in [Numbers -> Seq(AllPieces)]
      /\ \A i \in Numbers : i \in File!InUse' => data'[i] = data[i]
  BY ClearedKeeps DEF File!Replace
<1>0a. temp[w] \in Numbers /\ data[temp[w]] = File!Whole(w) /\ w \notin published
  BY DEF File!Replace, Publication, NamedOnce, Private
<1>0b. File!Whole(w)[1] = w /\ IsSound(File!Whole(w))
  BY BasesAreSound
<1>0c. ~IsUsed(w)
  BY <1>0a DEF IsUsed
<1>0d. path' = temp[w] /\ data'[path'] = File!Whole(w)
  BY <1>0, <1>0a, UsedInodes DEF File!Replace
<1>1. FileTyped'
  BY <1>0, UsedInodes DEF File!Replace, File!Goto, FileTyped, File!Actors, AllPieces
<1>2. Private'
  BY <1>0, UsedInodes DEF File!Replace, File!Goto, FileTyped, File!Actors, Private
<1>3. Publication'
  <2>1. NamedOnce(w)'
    BY <1>0, UsedInodes, BasesAreSound DEF File!Replace, File!Goto, FileTyped, File!Actors, Publication, NamedOnce, Private
  <2>2. ASSUME NEW v \in Writers \ {w} PROVE NamedOnce(v)'
    BY <1>0, UsedInodes, <2>2, WriterStays DEF File!Replace, File!Goto, FileTyped, File!Actors, Private
  <2> QED
    BY <2>1, <2>2 DEF Publication
<1>4. Named'
  <2>1. IsUsed(w)'
    BY DEF File!Replace, IsUsed
  <2> QED
    BY <1>0b, <1>0d, <2>1 DEF Named, IsUsed
<1>5. Appending'
  BY <1>0, UsedInodes DEF File!Replace, File!Goto, FileTyped, File!Actors, Appending
<1>6. Effects
  <2>1. path' \in Numbers /\ ~IsUsed(data'[path'][1])
    BY <1>0a, <1>0b, <1>0c, <1>0d
  <2>2. ASSUME NEW r \in Readers, opened[r] \in Numbers, opened'[r] = opened[r]
        PROVE  path' # opened[r] /\ data'[opened[r]] = data[opened[r]]
    BY <1>0, <1>0d, <2>2, UsedInodes DEF File!Replace, Private
  <2>3. \A b : IsUsed(b) => IsUsed(b)'
    BY DEF File!Replace, File!Goto, FileTyped, File!Actors, IsUsed
  <2>4. kind' = kind
    BY DEF File!Replace
  <2> QED
    BY <2>1, <2>2, <2>3, <2>4 DEF Effects
<1> QED
  BY <1>1, <1>2, <1>3, <1>4, <1>5, <1>6

LEMMA LinkKeeps ==
  ASSUME Stored, NEW w \in Writers, File!Link(w)
  PROVE  Stored' /\ Effects
<1>. USE FileHolds DEF File!FileAssumption, Stored
<1>0a. temp[w] \in Numbers /\ data[temp[w]] = File!Whole(w) /\ w \notin published
  BY DEF File!Link, Publication, NamedOnce, Private
<1>0b. File!Whole(w)[1] = w /\ IsSound(File!Whole(w))
  BY BasesAreSound
<1>0c. ~IsUsed(w)
  BY <1>0a DEF IsUsed
<1>1. FileTyped'
  BY DEF File!Link, File!Goto, FileTyped, File!Actors, AllPieces
<1>2. Private'
  BY DEF File!Link, File!Goto, FileTyped, File!Actors, Private
<1>3. Publication'
  <2>1. NamedOnce(w)'
    BY BasesAreSound DEF File!Link, File!Goto, FileTyped, File!Actors, Publication, NamedOnce, Private
  <2>2. ASSUME NEW v \in Writers \ {w} PROVE NamedOnce(v)'
    BY <2>2, WriterStays DEF File!Link, File!Goto, FileTyped, File!Actors, Private
  <2> QED
    BY <2>1, <2>2 DEF Publication
<1>4. Named'
  <2>1. CASE path = None
    <3>1. path' = temp[w] /\ data'[path'] = File!Whole(w) /\ w \in published'
      BY <1>0a, <2>1 DEF File!Link
    <3> QED
      BY <1>0b, <3>1 DEF Named, IsUsed
  <2>2. CASE path # None
    BY <2>2 DEF File!Link, File!Goto, FileTyped, File!Actors, Named, IsUsed
  <2> QED
    BY <2>1, <2>2
<1>5. Appending'
  BY DEF File!Link, File!Goto, FileTyped, File!Actors, Appending
<1>6. Effects
  <2>1. \/ path' = path /\ data' = data
        \/ path' = temp[w] /\ data' = data
    BY DEF File!Link
  <2>2. path' = path \/ (path' \in Numbers /\ ~IsUsed(data'[path'][1]))
    BY <1>0a, <1>0b, <1>0c, <2>1
  <2>3. ASSUME NEW r \in Readers, opened[r] \in Numbers, opened'[r] = opened[r], path # opened[r]
        PROVE  path' # opened[r]
    BY <2>1, <2>3 DEF File!Link, Private
  <2>4. \A b : IsUsed(b) => IsUsed(b)'
    BY DEF File!Link, File!Goto, FileTyped, File!Actors, IsUsed
  <2>5. kind' = kind
    BY DEF File!Link
  <2> QED
    BY <2>1, <2>2, <2>3, <2>4, <2>5 DEF Effects
<1> QED
  BY <1>1, <1>2, <1>3, <1>4, <1>5, <1>6

LEMMA UnlinkKeeps ==
  ASSUME Stored, NEW w \in Writers, File!Unlink(w)
  PROVE  Stored' /\ Effects
<1>. USE FileHolds DEF File!FileAssumption, Stored
<1>1. FileTyped'
  BY DEF File!Unlink, File!Goto, FileTyped, File!Actors, AllPieces
<1>2. Private'
  BY DEF File!Unlink, File!Goto, FileTyped, File!Actors, Private
<1>3. Publication'
  <2>1. NamedOnce(w)'
    BY BasesAreSound DEF File!Unlink, File!Goto, FileTyped, File!Actors, Publication, NamedOnce, Private
  <2>2. ASSUME NEW v \in Writers \ {w} PROVE NamedOnce(v)'
    BY <2>2, WriterStays DEF File!Unlink, File!Goto, FileTyped, File!Actors, Private
  <2> QED
    BY <2>1, <2>2 DEF Publication
<1>4. Named'
  BY DEF File!Unlink, File!Goto, FileTyped, File!Actors, Named, IsUsed, Private
<1>5. Appending'
  BY DEF File!Unlink, File!Goto, FileTyped, File!Actors, Appending
<1>6. Effects
  BY DEF File!Unlink, File!Goto, FileTyped, File!Actors, Effects, IsUsed, Private
<1> QED
  BY <1>1, <1>2, <1>3, <1>4, <1>5, <1>6

LEMMA BreaksKeeps ==
  ASSUME Stored, NEW w \in Writers, File!Breaks(w)
  PROVE  Stored' /\ Effects
<1>. USE FileHolds DEF File!FileAssumption, Stored
<1>1. FileTyped'
  BY DEF File!Breaks, File!Goto, FileTyped, File!Actors, AllPieces
<1>2. Private'
  BY DEF File!Breaks, File!Goto, FileTyped, File!Actors, Private
<1>3. Publication'
  <2>1. NamedOnce(w)'
    BY BasesAreSound DEF File!Breaks, File!Goto, FileTyped, File!Actors, Publication, NamedOnce, Private
  <2>2. ASSUME NEW v \in Writers \ {w} PROVE NamedOnce(v)'
    BY <2>2, WriterStays DEF File!Breaks, File!Goto, FileTyped, File!Actors, Private
  <2> QED
    BY <2>1, <2>2 DEF Publication
<1>4. Named'
  BY DEF File!Breaks, File!Goto, FileTyped, File!Actors, Named, IsUsed, Private
<1>5. Appending'
  BY DEF File!Breaks, File!Goto, FileTyped, File!Actors, Appending
<1>6. Effects
  BY DEF File!Breaks, File!Goto, FileTyped, File!Actors, Effects, IsUsed, Private
<1> QED
  BY <1>1, <1>2, <1>3, <1>4, <1>5, <1>6

LEMMA AbortKeeps ==
  ASSUME Stored, NEW w \in Writers, File!Abort(w)
  PROVE  Stored' /\ Effects
<1>. USE FileHolds DEF File!FileAssumption, Stored
<1>0. /\ data' \in [Numbers -> Seq(AllPieces)]
      /\ \A i \in Numbers : i \in File!InUse' => data'[i] = data[i]
  BY ClearedKeeps DEF File!Abort
<1>1. FileTyped'
  BY <1>0, UsedInodes DEF File!Abort, File!Goto, FileTyped, File!Actors, AllPieces
<1>2. Private'
  BY <1>0, UsedInodes DEF File!Abort, File!Goto, FileTyped, File!Actors, Private
<1>3. Publication'
  <2>1. NamedOnce(w)'
    BY <1>0, UsedInodes, BasesAreSound DEF File!Abort, File!Goto, FileTyped, File!Actors, Publication, NamedOnce, Private
  <2>2. ASSUME NEW v \in Writers \ {w} PROVE NamedOnce(v)'
    BY <1>0, UsedInodes, <2>2, WriterStays DEF File!Abort, File!Goto, FileTyped, File!Actors, Private
  <2> QED
    BY <2>1, <2>2 DEF Publication
<1>4. Named'
  BY <1>0, UsedInodes DEF File!Abort, File!Goto, FileTyped, File!Actors, Named, IsUsed, Private
<1>5. Appending'
  BY <1>0, UsedInodes DEF File!Abort, File!Goto, FileTyped, File!Actors, Appending
<1>6. Effects
  BY <1>0, UsedInodes DEF File!Abort, File!Goto, FileTyped, File!Actors, Effects, IsUsed, Private
<1> QED
  BY <1>1, <1>2, <1>3, <1>4, <1>5, <1>6

LEMMA LookToAppendKeeps ==
  ASSUME Stored, NEW a \in Appenders, File!LookToAppend(a)
  PROVE  Stored' /\ Effects
<1>. USE FileHolds DEF File!FileAssumption, Stored
<1>1. FileTyped'
  BY DEF File!LookToAppend, File!Goto, FileTyped, File!Actors, AllPieces
<1>2. Private'
  BY DEF File!LookToAppend, File!Goto, FileTyped, File!Actors, Private
<1>3. Publication'
  <2>1. ASSUME NEW v \in Writers PROVE NamedOnce(v)'
    BY <2>1, WriterStays DEF File!LookToAppend, File!Goto, FileTyped, File!Actors, Private
  <2> QED
    BY <2>1 DEF Publication
<1>4. Named'
  BY DEF File!LookToAppend, File!Goto, FileTyped, File!Actors, Named, IsUsed, Private
<1>5. Appending'
  BY DEF File!LookToAppend, File!Goto, FileTyped, File!Actors, Appending
<1>6. Effects
  BY DEF File!LookToAppend, File!Goto, FileTyped, File!Actors, Effects, IsUsed, Private
<1> QED
  BY <1>1, <1>2, <1>3, <1>4, <1>5, <1>6

LEMMA OpenToAppendKeeps ==
  ASSUME Stored, NEW a \in Appenders, File!OpenToAppend(a)
  PROVE  Stored' /\ Effects
<1>. USE FileHolds DEF File!FileAssumption, Stored
<1>0. /\ fileStep[a] = "open" /\ fileStep' = [fileStep EXCEPT ![a] = "opened"] /\ kind[a] # None
      /\ UNCHANGED <<kind, temp, seen, value, published, atLink>>
  BY DEF File!OpenToAppend, File!Goto, Appending
<1>1. CASE path # None /\ opened' = [opened EXCEPT ![a] = path] /\ UNCHANGED <<path, data>>
  <2>1. FileTyped'
    BY <1>0, <1>1 DEF FileTyped
  <2>2. Private'
    BY <1>0, <1>1 DEF FileTyped, Private, File!Actors
  <2>3. Publication'
    BY <1>0, <1>1 DEF FileTyped, Publication, NamedOnce, File!Actors
  <2>4. Named'
    BY <1>0, <1>1 DEF FileTyped, Named, IsUsed, File!Actors
  <2>5. Appending'
    BY <1>0, <1>1 DEF FileTyped, Appending, File!Actors
  <2>6. Effects
    BY <1>0, <1>1 DEF FileTyped, Effects, IsUsed, File!Actors
  <2> QED
    BY <2>1, <2>2, <2>3, <2>4, <2>5, <2>6
<1>2. ASSUME NEW i \in File!Free, path = None, opened' = [opened EXCEPT ![a] = i], path' = i,
             data' = [data EXCEPT ![i] = File!Created(a)]
      PROVE  Stored' /\ Effects
  <2>0. i \in Numbers /\ (\A v \in Writers : temp[v] # i) /\ (\A r \in Appenders \cup Readers : opened[r] # i)
    BY <1>2, UsedInodes DEF File!Free
  <2>1. File!Created(a) \in Seq(AllPieces) /\ File!Created(a)[1] = <<a>> /\ IsSound(File!Created(a))
    <3>1. <<a>> \in AllPieces
      BY DEF AllPieces
    <3> QED
      BY <3>1, BasesAreSound DEF File!Created
  <2>2. data'[path'] = File!Created(a)
    BY <1>2, <2>0 DEF FileTyped
  <2>3. FileTyped'
    BY <1>0, <1>2, <2>0, <2>1 DEF FileTyped
  <2>4. Private'
    BY <1>0, <1>2, <2>0 DEF FileTyped, Private, File!Actors
  <2>5. Publication'
    BY <1>0, <1>2, <2>0 DEF FileTyped, Private, Publication, NamedOnce, File!Actors
  <2>6. Named'
    <3>1. fileStep'[a] = "opened"
      BY <1>0 DEF FileTyped, File!Actors
    <3> QED
      BY <2>1, <2>2, <3>1 DEF Named, IsUsed
  <2>7. Appending'
    BY <1>0, <1>2, <2>0 DEF FileTyped, Appending, File!Actors
  <2>8. ~IsUsed(<<a>>)
    <3>1. <<a>> \notin published /\ <<a>> # Old
      BY DEF FileTyped
    <3>2. \A b \in Appenders : <<a>> = <<b>> => a = b
      OBVIOUS
    <3> QED
      BY <1>0, <3>1, <3>2 DEF IsUsed
  <2>9. \A b : IsUsed(b) => IsUsed(b)'
    BY <1>0 DEF FileTyped, File!Actors, IsUsed
  <2>10. \A r \in Readers : opened[r] \in Numbers => path' # opened[r] /\ data'[opened[r]] = data[opened[r]]
    BY <1>2, <2>0 DEF FileTyped
  <2>11. Effects
    BY <1>0, <1>2, <2>0, <2>1, <2>2, <2>8, <2>9, <2>10 DEF Effects
  <2> QED
    BY <2>3, <2>4, <2>5, <2>6, <2>7, <2>11
<1> QED
  BY <1>1, <1>2 DEF File!OpenToAppend

LEMMA VerifyAppendKeeps ==
  ASSUME Stored, NEW a \in Appenders, File!VerifyAppend(a)
  PROVE  Stored' /\ Effects
<1>. USE FileHolds DEF File!FileAssumption, Stored
<1>0. /\ data' \in [Numbers -> Seq(AllPieces)]
      /\ \A i \in Numbers : i \in File!InUse' => data'[i] = data[i]
  BY ClearedKeeps DEF File!VerifyAppend
<1>1. FileTyped'
  BY <1>0, UsedInodes DEF File!VerifyAppend, File!Goto, FileTyped, File!Actors, AllPieces
<1>2. Private'
  BY <1>0, UsedInodes DEF File!VerifyAppend, File!Goto, FileTyped, File!Actors, Private
<1>3. Publication'
  <2>1. ASSUME NEW v \in Writers PROVE NamedOnce(v)'
    BY <1>0, UsedInodes, <2>1, WriterStays DEF File!VerifyAppend, File!Goto, FileTyped, File!Actors, Private
  <2> QED
    BY <2>1 DEF Publication
<1>4. Named'
  BY <1>0, UsedInodes DEF File!VerifyAppend, File!Goto, FileTyped, File!Actors, Named, IsUsed, Private
<1>5. Appending'
  BY <1>0, UsedInodes DEF File!VerifyAppend, File!Goto, FileTyped, File!Actors, Appending
<1>6. Effects
  BY <1>0, UsedInodes DEF File!VerifyAppend, File!Goto, FileTyped, File!Actors, Effects, IsUsed, Private
<1> QED
  BY <1>1, <1>2, <1>3, <1>4, <1>5, <1>6

LEMMA AppendPieceKeeps ==
  ASSUME Stored, NEW a \in Appenders, File!AppendPiece(a)
  PROVE  Stored' /\ Effects
<1>. USE FileHolds DEF File!FileAssumption, Stored
<1>0. /\ fileStep[a] = "append" /\ kind[a] # None /\ opened[a] \in Numbers
      /\ data' = [data EXCEPT ![opened[a]] = Append(@, a)]
      /\ \/ fileStep' = [fileStep EXCEPT ![a] = "ok"] /\ opened' = [opened EXCEPT ![a] = None]
         \/ UNCHANGED <<fileStep, opened>>
      /\ UNCHANGED <<path, kind, temp, seen, value, published, atLink>>
  BY DEF File!AppendPiece, File!Goto, Appending
<1>a. a \in AllPieces
  BY DEF AllPieces
<1>b. path # None /\ path = opened[a] =>
        /\ data'[path] = Append(data[path], a) /\ IsSound(data'[path])
        /\ data'[path][1] = data[path][1]
  <2> HAVE path # None /\ path = opened[a]
  <2>1. data[path] \in Seq(AllPieces) /\ IsSound(data[path])
    BY <1>0 DEF FileTyped, Named
  <2>2. data'[path] = Append(data[path], a)
    BY <1>0 DEF FileTyped
  <2> QED
    BY <2>1, <2>2, AppendedIsSound
<1>c. path # None /\ path # opened[a] => data'[path] = data[path]
  BY <1>0 DEF FileTyped
<1>d. \A b : IsUsed(b) => IsUsed(b)'
  BY <1>0 DEF FileTyped, File!Actors, IsUsed
<1>1. FileTyped'
  <2>1. data' \in [Numbers -> Seq(AllPieces)]
    BY <1>0, <1>a DEF FileTyped
  <2> QED
    BY <1>0, <2>1 DEF FileTyped
<1>2. Private'
  BY <1>0 DEF FileTyped, File!Actors, Private
<1>3. Publication'
  <2>1. ASSUME NEW v \in Writers PROVE NamedOnce(v)'
    BY <1>0, <2>1, WriterStays DEF FileTyped, File!Actors, Private
  <2> QED
    BY <2>1 DEF Publication
<1>4. Named'
  <2>1. path # None => data'[path][1] = data[path][1] /\ IsSound(data'[path])
    <3>1. path # None => IsSound(data[path])
      BY DEF Named
    <3> QED
      BY <3>1, <1>b, <1>c
  <2>2. path' = path /\ published' = published /\ \A x \in Appenders : fileStep'[x] \in {"absent", "start", "open"} =>
          fileStep[x] = fileStep'[x]
    BY <1>0 DEF FileTyped, File!Actors
  <2> QED
    BY <2>1, <2>2 DEF Named, IsUsed
<1>5. Appending'
  BY <1>0 DEF FileTyped, File!Actors, Appending
<1>6. Effects
  BY <1>0, <1>b, <1>c, <1>d DEF Effects
<1> QED
  BY <1>1, <1>2, <1>3, <1>4, <1>5, <1>6

LEMMA LookKeeps ==
  ASSUME Stored, NEW r \in Readers, File!Look(r)
  PROVE  Stored' /\ Effects
<1>. USE FileHolds DEF File!FileAssumption, Stored
<1>1. FileTyped'
  BY DEF File!Look, File!Goto, FileTyped, File!Actors, AllPieces
<1>2. Private'
  BY DEF File!Look, File!Goto, FileTyped, File!Actors, Private
<1>3. Publication'
  <2>1. ASSUME NEW v \in Writers PROVE NamedOnce(v)'
    BY <2>1, WriterStays DEF File!Look, File!Goto, FileTyped, File!Actors, Private
  <2> QED
    BY <2>1 DEF Publication
<1>4. Named'
  BY DEF File!Look, File!Goto, FileTyped, File!Actors, Named, IsUsed, Private
<1>5. Appending'
  BY DEF File!Look, File!Goto, FileTyped, File!Actors, Appending
<1>6. Effects
  BY DEF File!Look, File!Goto, FileTyped, File!Actors, Effects, IsUsed, Private
<1> QED
  BY <1>1, <1>2, <1>3, <1>4, <1>5, <1>6

LEMMA OpenToReadKeeps ==
  ASSUME Stored, NEW r \in Readers, File!OpenToRead(r)
  PROVE  Stored' /\ Effects
<1>. USE FileHolds DEF File!FileAssumption, Stored
<1>1. FileTyped'
  BY DEF File!OpenToRead, File!Goto, FileTyped, File!Actors, AllPieces
<1>2. Private'
  BY DEF File!OpenToRead, File!Goto, FileTyped, File!Actors, Private
<1>3. Publication'
  <2>1. ASSUME NEW v \in Writers PROVE NamedOnce(v)'
    BY <2>1, WriterStays DEF File!OpenToRead, File!Goto, FileTyped, File!Actors, Private
  <2> QED
    BY <2>1 DEF Publication
<1>4. Named'
  BY DEF File!OpenToRead, File!Goto, FileTyped, File!Actors, Named, IsUsed, Private
<1>5. Appending'
  BY DEF File!OpenToRead, File!Goto, FileTyped, File!Actors, Appending
<1>6. Effects
  BY DEF File!OpenToRead, File!Goto, FileTyped, File!Actors, Effects, IsUsed, Private
<1> QED
  BY <1>1, <1>2, <1>3, <1>4, <1>5, <1>6

LEMMA ReadKeeps ==
  ASSUME Stored, NEW r \in Readers, File!Read(r)
  PROVE  Stored' /\ Effects
<1>. USE FileHolds DEF File!FileAssumption, Stored
<1>0. /\ data' \in [Numbers -> Seq(AllPieces)]
      /\ \A i \in Numbers : i \in File!InUse' => data'[i] = data[i]
  BY ClearedKeeps DEF File!Read
<1>1. FileTyped'
  BY <1>0, UsedInodes DEF File!Read, File!Goto, FileTyped, File!Actors, AllPieces
<1>2. Private'
  BY <1>0, UsedInodes DEF File!Read, File!Goto, FileTyped, File!Actors, Private
<1>3. Publication'
  <2>1. ASSUME NEW v \in Writers PROVE NamedOnce(v)'
    BY <1>0, UsedInodes, <2>1, WriterStays DEF File!Read, File!Goto, FileTyped, File!Actors, Private
  <2> QED
    BY <2>1 DEF Publication
<1>4. Named'
  BY <1>0, UsedInodes DEF File!Read, File!Goto, FileTyped, File!Actors, Named, IsUsed, Private
<1>5. Appending'
  BY <1>0, UsedInodes DEF File!Read, File!Goto, FileTyped, File!Actors, Appending
<1>6. Effects
  BY <1>0, UsedInodes DEF File!Read, File!Goto, FileTyped, File!Actors, Effects, IsUsed, Private
<1> QED
  BY <1>1, <1>2, <1>3, <1>4, <1>5, <1>6

LEMMA VerifyKeeps ==
  ASSUME Stored, NEW r \in Readers, File!Verify(r)
  PROVE  Stored' /\ Effects
<1>. USE FileHolds DEF File!FileAssumption, Stored
<1>0. /\ data' \in [Numbers -> Seq(AllPieces)]
      /\ \A i \in Numbers : i \in File!InUse' => data'[i] = data[i]
  BY ClearedKeeps DEF File!Verify
<1>1. FileTyped'
  BY <1>0, UsedInodes DEF File!Verify, File!Goto, FileTyped, File!Actors, AllPieces
<1>2. Private'
  BY <1>0, UsedInodes DEF File!Verify, File!Goto, FileTyped, File!Actors, Private
<1>3. Publication'
  <2>1. ASSUME NEW v \in Writers PROVE NamedOnce(v)'
    BY <1>0, UsedInodes, <2>1, WriterStays DEF File!Verify, File!Goto, FileTyped, File!Actors, Private
  <2> QED
    BY <2>1 DEF Publication
<1>4. Named'
  BY <1>0, UsedInodes DEF File!Verify, File!Goto, FileTyped, File!Actors, Named, IsUsed, Private
<1>5. Appending'
  BY <1>0, UsedInodes DEF File!Verify, File!Goto, FileTyped, File!Actors, Appending
<1>6. Effects
  BY <1>0, UsedInodes DEF File!Verify, File!Goto, FileTyped, File!Actors, Effects, IsUsed, Private
<1> QED
  BY <1>1, <1>2, <1>3, <1>4, <1>5, <1>6

LEMMA DeleteKeeps ==
  ASSUME Stored, File!Delete
  PROVE  Stored' /\ Effects
<1>. USE FileHolds DEF File!FileAssumption, Stored
<1>0. /\ data' \in [Numbers -> Seq(AllPieces)]
      /\ \A i \in Numbers : i \in File!InUse' => data'[i] = data[i]
  BY ClearedKeeps DEF File!Delete
<1>1. FileTyped'
  BY <1>0, UsedInodes DEF File!Delete, File!Goto, FileTyped, File!Actors, AllPieces
<1>2. Private'
  BY <1>0, UsedInodes DEF File!Delete, File!Goto, FileTyped, File!Actors, Private
<1>3. Publication'
  <2>1. ASSUME NEW v \in Writers PROVE NamedOnce(v)'
    BY <1>0, UsedInodes, <2>1, WriterStays DEF File!Delete, File!Goto, FileTyped, File!Actors, Private
  <2> QED
    BY <2>1 DEF Publication
<1>4. Named'
  BY <1>0, UsedInodes DEF File!Delete, File!Goto, FileTyped, File!Actors, Named, IsUsed, Private
<1>5. Appending'
  BY <1>0, UsedInodes DEF File!Delete, File!Goto, FileTyped, File!Actors, Appending
<1>6. Effects
  BY <1>0, UsedInodes DEF File!Delete, File!Goto, FileTyped, File!Actors, Effects, IsUsed, Private
<1> QED
  BY <1>1, <1>2, <1>3, <1>4, <1>5, <1>6

-----------------------------------------------------------------------------
(* What the readers may rely on.                                              *)

\* What is sound is not empty.
LEMMA SoundIsLong ==
  ASSUME NEW c, IsSound(c)
  PROVE  Len(c) > 0
<1>1. PICK x \in Bases : Grown(x, c)
  BY DEF IsSound
<1>2. Len(x) \in Nat \ {0}
  BY FileHolds DEF File!FileAssumption, Bases, File!Whole, File!Created
<1> QED
  BY <1>1, <1>2 DEF Grown

\* While a reader is at it, it either is what it was or has moved on for good.
LEMMA StillOrMoved ==
  ASSUME Stored, Stored', Effects, File!Observe, NEW r \in Readers, Watching(r),
         fileStep[r] \in {"open", "read", "verify"}, fileStep'[r] \in {"open", "read", "verify"},
         seen'[r] = seen[r], Moved(r) \/ since[r] = {seen[r].data}
  PROVE  Moved(r)' \/ (~Moved(r) /\ path' = path /\ since'[r] = {seen[r].data})
<1>1. /\ File!Content(path, data) \in since[r] /\ seen[r].data \in Seq(AllPieces)
      /\ since'[r] = since[r] \cup {File!Content(path', data')} /\ IsUsed(seen[r].data[1])
  BY DEF Watching, File!Observe
<1>2. path # None => path \in Numbers /\ data[path] \in Seq(AllPieces) /\ Len(data[path]) > 0
  BY SoundIsLong DEF Stored, FileTyped, Named
<1>3. path' # None => path' \in Numbers /\ data'[path'] \in Seq(AllPieces)
  BY DEF Stored, FileTyped
<1>4. CASE path' = path /\ (path # None => data'[path] = data[path])
  <2>1. CASE Moved(r)
    BY <1>4, <2>1 DEF Moved
  <2>2. CASE ~Moved(r)
    <3>1. File!Content(path', data') = File!Content(path, data)
      BY <1>4 DEF File!Content
    <3>2. since[r] = {seen[r].data}
      BY <2>2
    <3> QED
      BY <1>1, <1>4, <2>2, <3>1, <3>2
  <2> QED
    BY <2>1, <2>2
<1>5. ASSUME path' = path, path # None, NEW a \in Appenders, data'[path] = Append(data[path], a)
      PROVE  Moved(r)'
  <2>1. Len(data'[path]) = Len(data[path]) + 1 /\ data'[path][1] = data[path][1]
    BY <1>2, <1>5
  <2>2. CASE Moved(r)
    BY <1>1, <1>2, <1>5, <2>1, <2>2 DEF Moved
  <2>3. CASE ~Moved(r)
    <3>1. data[path] = seen[r].data
      BY <1>1, <1>5, <2>3 DEF File!Content
    <3> QED
      BY <1>1, <1>2, <1>5, <2>1, <3>1 DEF Moved
  <2> QED
    BY <2>2, <2>3
<1>6. CASE path' = None
  BY <1>6 DEF Moved
<1>7. CASE path' \in Numbers /\ ~IsUsed(data'[path'][1])
  <2>1. data'[path'][1] # seen[r].data[1]
    BY <1>1, <1>7
  <2> QED
    BY <2>1 DEF Moved
<1> QED
  BY <1>4, <1>5, <1>6, <1>7 DEF Effects

\* What a step of another does to a reader.
LEMMA ReaderStays ==
  ASSUME Stored, Stored', Effects, File!Observe, NEW r \in Readers, Reading(r),
         fileStep'[r] = fileStep[r], seen'[r] = seen[r], opened'[r] = opened[r], value'[r] = value[r]
  PROVE  Reading(r)'
<1>1. kind' = kind /\ \A b : IsUsed(b) => IsUsed(b)'
  BY DEF Effects
<1>2. fileStep[r] \in {"open", "read", "verify"} => since'[r] = since[r] \cup {File!Content(path', data')}
  BY DEF File!Observe
<1>3. fileStep[r] \notin {"open", "read", "verify"} => since'[r] = since[r]
  BY DEF File!Observe
<1>4. Watching(r)'
  BY <1>1, <1>2, <1>3 DEF Reading, Watching, IsUsed
<1>5. ReadsText(r)'
  <2>1. kind[r] = "text" => \A a \in Appenders : kind[a] = None
    BY FileHolds DEF File!FileAssumption, Stored, FileTyped
  <2>2. kind[r] = "text" /\ fileStep[r] = "read" => data'[opened[r]] = data[opened[r]]
    BY <2>1 DEF Effects, Reading, ReadsText
  <2> QED
    BY <1>1, <1>2, <1>3, <2>2 DEF Reading, ReadsText
<1>6. ReadsBounded(r)'
  <2>1. kind[r] = "bounded" /\ fileStep[r] = "verify" /\ path # opened[r] => path' # opened[r]
    BY DEF Effects, Reading, ReadsBounded
  <2> QED
    BY <1>1, <1>2, <1>3, <2>1 DEF Reading, ReadsBounded
<1>7. ReadsStable(r)'
  <2> SUFFICES ASSUME kind[r] = "stable" PROVE ReadsStable(r)'
    BY <1>1 DEF ReadsStable
  <2>1. CASE fileStep[r] = "ok"
    BY <1>3, <2>1 DEF Reading, ReadsStable
  <2>2. CASE fileStep[r] \in {"open", "read", "verify"}
    <3>1. Watching(r) /\ (Moved(r) \/ since[r] = {seen[r].data})
      BY <2>2 DEF Reading, ReadsStable
    <3>2. Moved(r)' \/ (~Moved(r) /\ path' = path /\ since'[r] = {seen[r].data})
      BY <2>2, <3>1, StillOrMoved
    <3> QED
      BY <2>2, <3>2 DEF Reading, ReadsStable
  <2>3. CASE fileStep[r] \notin {"open", "read", "verify", "ok"}
    BY <2>3 DEF ReadsStable
  <2> QED
    BY <2>1, <2>2, <2>3
<1> QED
  BY <1>4, <1>5, <1>6, <1>7 DEF Reading

\* What a reader has opened holds what the file is, if it has the name.
LEMMA LookReads ==
  ASSUME Stored, Stored', NEW r \in Readers, Reading(r), File!Observe, File!Look(r)
  PROVE  Reading(r)'
<1>0. /\ fileStep[r] = "start" /\ UNCHANGED <<path, data, kind, opened, value>>
      /\ since[r] = {} /\ kind[r] # None
  BY DEF File!Look, Reading, Watching
<1>1. CASE fileStep'[r] = "failed"
  BY <1>0, <1>1 DEF Reading, Watching, ReadsText, ReadsBounded, ReadsStable
<1>2. CASE /\ path # None /\ fileStep'[r] = "open"
           /\ seen'[r] = [inode |-> path, data |-> data[path]]
  <2>1. path \in Numbers /\ data[path] \in Seq(AllPieces) /\ Len(data[path]) > 0
    BY <1>2, SoundIsLong DEF Stored, FileTyped, Named
  <2>2. since'[r] = {data[path]} /\ File!Content(path, data)' = data[path]
    BY <1>0, <1>2 DEF File!Observe, File!Content
  <2>3. Watching(r)'
    <3>1. path' # None => (data'[path'][1] \in published' \cup {Old}
                            \/ \E a \in Appenders : data'[path'][1] = <<a>> /\ fileStep'[a] \notin {"absent", "start", "open"})
      BY DEF Stored, Named, IsUsed
    <3> QED
      BY <1>0, <1>2, <2>1, <2>2, <3>1 DEF Watching, IsUsed
  <2> QED
    BY <1>2, <2>2, <2>3 DEF Reading, ReadsText, ReadsBounded, ReadsStable
<1> QED
  BY <1>1, <1>2 DEF File!Look, File!Goto, Stored, FileTyped, File!Actors

LEMMA OpenReads ==
  ASSUME Stored, Stored', Effects, NEW r \in Readers, Reading(r), File!Observe, File!OpenToRead(r)
  PROVE  Reading(r)'
<1>0. fileStep[r] = "open" /\ UNCHANGED <<path, data, kind, seen, value>>
  BY DEF File!OpenToRead
<1>1. CASE fileStep'[r] = "failed"
  BY <1>0, <1>1 DEF Reading, Watching, ReadsText, ReadsBounded, ReadsStable
<1>2. CASE path # None /\ File!IsAsSeen(r) /\ fileStep'[r] = "read" /\ opened'[r] = path
  <2>1. path \in Numbers /\ File!Content(path, data) = data[path]
    BY <1>2 DEF Stored, FileTyped, File!Content
  <2>2. data[path] \in since[r] /\ since'[r] = since[r]
    <3>1. data[path] \in since[r]
      BY <1>0, <2>1 DEF Reading, Watching
    <3>2. since'[r] = since[r] \cup {data[path]}
      BY <1>0, <1>2, <2>1 DEF File!Observe
    <3> QED
      BY <3>1, <3>2
  <2>3. Watching(r)'
    <3>1. IsUsed(seen[r].data[1])
      BY <1>0 DEF Reading, Watching
    <3>2. IsUsed(seen[r].data[1])'
      BY <1>0, <3>1 DEF Effects, IsUsed
    <3> QED
      BY <1>0, <1>2, <2>1, <2>2, <3>2 DEF Reading, Watching, IsUsed
  <2>4. ReadsText(r)' /\ ReadsBounded(r)'
    BY <1>0, <1>2, <2>1, <2>2 DEF ReadsText, ReadsBounded, File!IsAsSeen
  <2>5. kind[r] = "stable" => ~Moved(r)
    BY <1>2 DEF File!IsAsSeen, Moved, Reading, Watching
  <2>6. ReadsStable(r)'
    BY <1>0, <1>2, <2>2, <2>5 DEF Reading, ReadsStable
  <2> QED
    BY <2>3, <2>4, <2>6 DEF Reading
<1> QED
  BY <1>1, <1>2 DEF File!OpenToRead, File!Goto, Stored, FileTyped, File!Actors

LEMMA ReadReads ==
  ASSUME Stored, Stored', Effects, NEW r \in Readers, Reading(r), File!Observe, File!Read(r)
  PROVE  Reading(r)'
<1>0. /\ fileStep[r] = "read" /\ fileStep'[r] = "verify" /\ UNCHANGED <<path, kind, seen>>
      /\ value'[r] = data[opened[r]] /\ (kind[r] # "text" => opened' = opened)
  BY DEF File!Read, File!Goto, Stored, FileTyped, File!Actors
<1>1. path # None => path \in Numbers /\ data'[path] = data[path]
  BY <1>0, ClearedKeeps, UsedInodes DEF File!Read, Stored, FileTyped
<1>2. File!Content(path, data) \in since[r] /\ since'[r] = since[r] /\ File!Content(path', data') \in since'[r]
  <2>1. File!Content(path', data') = File!Content(path, data)
    BY <1>0, <1>1 DEF File!Content
  <2>2. File!Content(path, data) \in since[r]
    BY <1>0 DEF Reading, Watching
  <2>3. since'[r] = since[r] \cup {File!Content(path', data')}
    BY <1>0 DEF File!Observe
  <2> QED
    BY <2>1, <2>2, <2>3
<1>3. Watching(r)'
  <2>1. \A b : IsUsed(b) => IsUsed(b)'
    BY DEF Effects
  <2> QED
    BY <1>0, <1>2, <2>1 DEF Reading, Watching, IsUsed
<1>4. ReadsText(r)'
  BY <1>0, <1>2 DEF Reading, ReadsText
<1>5. path # None /\ path = opened[r] => value'[r] \in since[r]
  BY <1>0, <1>2 DEF File!Content
<1>6. ReadsBounded(r)'
  BY <1>0, <1>2, <1>5, FileHolds DEF Reading, ReadsBounded, File!FileAssumption
<1>7. ReadsStable(r)'
  <2>1. Moved(r) => Moved(r)'
    BY <1>0, <1>1 DEF Moved
  <2>2. ~Moved(r) => path # None
    BY DEF Moved
  <2> QED
    BY <1>0, <1>2, <1>5, <2>1, <2>2 DEF Reading, ReadsStable
<1> QED
  BY <1>3, <1>4, <1>6, <1>7 DEF Reading

LEMMA VerifyReads ==
  ASSUME Stored, Stored', NEW r \in Readers, Reading(r), File!Observe, File!Verify(r)
  PROVE  Reading(r)'
<1>0. /\ fileStep[r] = "verify" /\ UNCHANGED <<path, kind, seen, value>>
      /\ fileStep'[r] = IF File!IsUnchanged(r) THEN "ok" ELSE "failed"
  BY DEF File!Verify, File!Goto, Stored, FileTyped, File!Actors
<1>1. since'[r] = since[r]
  BY <1>0 DEF File!Observe
<1>2. Watching(r)' /\ ReadsText(r)'
  BY <1>0, <1>1 DEF Reading, Watching, ReadsText
<1>3. ReadsBounded(r)'
  BY <1>0, <1>1 DEF Reading, ReadsBounded, File!IsUnchanged
<1>4. ReadsStable(r)'
  <2>1. kind[r] = "stable" /\ File!IsUnchanged(r) => ~Moved(r)
    BY <1>0, FileHolds DEF File!IsUnchanged, Moved, Reading, Watching, File!FileAssumption
  <2> QED
    BY <1>0, <1>1, <2>1 DEF Reading, ReadsStable
<1> QED
  BY <1>2, <1>3, <1>4 DEF Reading

-----------------------------------------------------------------------------
(* The invariant, and what it says of the file.                               *)

LEMMA FileStarts ==
  ASSUME File!FileInit
  PROVE  FileInv
<1>. USE FileHolds DEF File!FileAssumption, File!FileInit, File!Actors
<1>1. File!FirstInode \in Numbers
  BY DEF File!FirstInode
<1>2. path # None => data[path] = File!Whole(Old) /\ path \in Numbers
  BY <1>1
<1>3. FileTyped
  <2>1. File!Whole(Old) \in Seq(AllPieces) /\ <<>> \in Seq(AllPieces)
    BY DEF File!Whole, AllPieces
  <2> QED
    BY <1>1, <2>1 DEF FileTyped
<1>4. Named
  BY <1>2, BasesAreSound DEF Named, IsUsed
<1>5. Private /\ Publication /\ Appending
  BY DEF Private, Publication, NamedOnce, Appending
<1>6. ASSUME NEW r \in Readers PROVE Reading(r)
  BY <1>6 DEF Reading, Watching, ReadsText, ReadsBounded, ReadsStable
<1> QED
  BY <1>3, <1>4, <1>5, <1>6 DEF FileInv, Stored

\* A step of a process that is no reader leaves the readers' variables alone.
LEMMA OthersStay ==
  ASSUME FileInv, File!FileNext, Stored', Effects, UNCHANGED <<seen, value>>,
         \A r \in Readers : fileStep'[r] = fileStep[r] /\ opened'[r] = opened[r]
  PROVE  FileInv'
<1>1. File!Observe
  BY DEF File!FileNext
<1>2. ASSUME NEW r \in Readers PROVE Reading(r)'
  BY <1>1, <1>2, ReaderStays DEF FileInv
<1> QED
  BY <1>2 DEF FileInv

LEMMA FileKeeps ==
  ASSUME FileInv, File!FileNext
  PROVE  FileInv'
<1>. USE FileHolds DEF File!FileAssumption
<1>1. Stored /\ FileTyped /\ File!Observe
  BY DEF FileInv, Stored, File!FileNext
<1>2. ASSUME NEW w \in Writers, File!WriterStep(w) PROVE FileInv'
  <2>1. Stored' /\ Effects
    BY <1>1, <1>2, BeginKeeps, WriteKeeps, CheckKeeps, ReplaceKeeps, LinkKeeps, UnlinkKeeps, BreaksKeeps, AbortKeeps
       DEF File!WriterStep
  <2>2. /\ UNCHANGED <<seen, value, opened>>
        /\ \A r \in Readers : fileStep'[r] = fileStep[r]
    BY <1>1, <1>2 DEF File!WriterStep, File!Begin, File!Write, File!Check, File!Replace, File!Link, File!Unlink,
       File!Breaks, File!Abort, File!Goto, FileTyped, File!Actors
  <2> QED
    BY <2>1, <2>2, OthersStay
<1>3. ASSUME NEW a \in Appenders, File!AppenderStep(a) PROVE FileInv'
  <2>1. Stored' /\ Effects
    BY <1>1, <1>3, LookToAppendKeeps, OpenToAppendKeeps, VerifyAppendKeeps, AppendPieceKeeps DEF File!AppenderStep
  <2>2. /\ UNCHANGED <<seen, value>>
        /\ \A r \in Readers : fileStep'[r] = fileStep[r] /\ opened'[r] = opened[r]
    BY <1>1, <1>3 DEF File!AppenderStep, File!LookToAppend, File!OpenToAppend, File!VerifyAppend, File!AppendPiece,
       File!Goto, FileTyped, File!Actors
  <2> QED
    BY <2>1, <2>2, OthersStay
<1>4. ASSUME NEW q \in Readers, File!ReaderStep(q) PROVE FileInv'
  <2>1. Stored' /\ Effects
    BY <1>1, <1>4, LookKeeps, OpenToReadKeeps, ReadKeeps, VerifyKeeps DEF File!ReaderStep
  <2>2. Reading(q)'
    BY <1>1, <1>4, <2>1, LookReads, OpenReads, ReadReads, VerifyReads DEF File!ReaderStep, FileInv
  <2>3. ASSUME NEW r \in Readers \ {q} PROVE Reading(r)'
    <3>1. /\ fileStep'[r] = fileStep[r] /\ seen'[r] = seen[r]
          /\ opened'[r] = opened[r] /\ value'[r] = value[r]
      BY <1>1, <1>4, <2>3 DEF File!ReaderStep, File!Look, File!OpenToRead, File!Read, File!Verify, File!Goto,
         FileTyped, File!Actors
    <3> QED
      BY <1>1, <2>1, <2>3, <3>1, ReaderStays DEF FileInv
  <2> QED
    BY <2>1, <2>2, <2>3 DEF FileInv
<1>5. CASE File!Delete
  <2>1. Stored' /\ Effects
    BY <1>1, <1>5, DeleteKeeps
  <2>2. UNCHANGED <<seen, value, fileStep, opened>>
    BY <1>5 DEF File!Delete
  <2> QED
    BY <2>1, <2>2, OthersStay
<1> QED
  BY <1>2, <1>3, <1>4, <1>5 DEF File!FileNext

\* What is sound follows a whole content.
LEMMA SoundIsWhole ==
  ASSUME NEW c \in Seq(AllPieces), IsSound(c)
  PROVE  File!IsWhole(c)
<1>1. PICK x \in Bases : Grown(x, c)
  BY DEF IsSound
<1>2. x \in Seq(AllPieces)
  <2>1. \A w \in Writers \cup {Old} : File!Whole(w) \in Seq(AllPieces)
    BY FileHolds DEF File!FileAssumption, File!Whole, AllPieces
  <2>2. ASSUME NEW a \in Appenders PROVE File!Created(a) \in Seq(AllPieces)
    <3>1. <<a>> \in AllPieces
      BY DEF AllPieces
    <3> QED
      BY <3>1 DEF File!Created
  <2> QED
    BY <2>1, <2>2 DEF Bases
<1>3. /\ Len(x) <= Len(c) /\ \A n \in 1..Len(x) : c[n] = x[n]
      /\ \A n \in (Len(x) + 1)..Len(c) : c[n] \in Appenders
  BY <1>1 DEF Grown
<1>4. SubSeq(x, 1, Len(x)) = SubSeq(c, 1, Len(x))
  BY <1>2, <1>3
<1>5. File!IsPrefix(x, c)
  BY <1>3, <1>4 DEF File!IsPrefix
<1> QED
  BY <1>3, <1>5 DEF File!IsWhole, Bases

\* Whoever writes, appends to, deletes and reads a file, wherever each of them
\* stops: the file is one completed write and what was appended to it, a failed
\* write has not changed it, and a read that succeeds is what it was at a moment
\* (FileWrites).
THEOREM FilesStayWhole == AllSpec => []FilesAreWhole
<1>1. AllInit => FileInv
  BY FileStarts DEF AllInit
<1>2. FileInv /\ [AllNext]_allVars => FileInv'
  <2> SUFFICES ASSUME FileInv, [AllNext]_allVars PROVE FileInv'
    OBVIOUS
  <2>1. CASE mover = "file" /\ File!FileNext
    BY <2>1, FileKeeps
  <2>2. CASE UNCHANGED fileVars
    BY <2>2 DEF fileVars, FileInv, Stored, FileTyped, Private, Publication, NamedOnce, Named, Appending, IsUsed,
       Reading, Watching, ReadsText, ReadsBounded, ReadsStable, Moved, File!Content
  <2>3. \/ mover = "file" /\ File!FileNext
        \/ UNCHANGED fileVars
    BY DEF AllNext, Rests, allVars
  <2> QED
    BY <2>1, <2>2, <2>3
<1>3. FileInv => FilesAreWhole
  <2> SUFFICES ASSUME FileInv PROVE File!FilesAreWhole
    BY DEF FilesAreWhole
  <2>1. path # None => File!IsWhole(data[path])
    BY SoundIsWhole DEF FileInv, Stored, FileTyped, Named
  <2>2. \A w \in Writers : /\ fileStep[w] = "ok" => w \in published
                           /\ fileStep[w] = "failed" /\ w \in published => w \in atLink
    BY DEF FileInv, Stored, Publication, NamedOnce
  <2>3. File!ReadsAreWhole
    <3> SUFFICES ASSUME NEW r \in Readers, fileStep[r] = "ok"
                 PROVE  value[r] \in since[r] /\ (kind[r] = "stable" => since[r] = {value[r]})
      BY DEF File!ReadsAreWhole
    <3>1. kind[r] \in {"text", "bounded", "stable"}
      BY FileHolds DEF File!FileAssumption, FileInv, Stored, FileTyped, Reading, Watching
    <3> QED
      BY <3>1 DEF FileInv, Reading, ReadsText, ReadsBounded, ReadsStable
  <2> QED
    BY <2>1, <2>2, <2>3 DEF File!FilesAreWhole, File!WritesAreWhole
<1> QED
  BY <1>1, <1>2, <1>3, PTL DEF AllSpec
=============================================================================
