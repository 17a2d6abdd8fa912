----------------------- MODULE InterProcessLock_proofs -----------------------
(***************************************************************************)
(* For any number of clients and any timeout: the lock file is locked by   *)
(* at most one client, the lock file is the only one, acquire() gives up   *)
(* only at its deadline, and the protocol implements Mutex.                *)
(***************************************************************************)
EXTENDS InterProcessLock, TLAPS

\* The inductive invariant: mutual exclusion needs that the lock and the steps
\* agree, which needs that all streams refer to one file.
Inv == TypeOK /\ OneLockFile /\ LockMatchesStep /\ HeldHasByte

\* Closing a client's file takes the lock from it and from nobody else.
LEMMA UnlockedType ==
  ASSUME osLock \in [Inodes -> Clients \cup {None}], NEW c \in Clients
  PROVE  /\ Unlocked(c) \in [Inodes -> Clients \cup {None}]
         /\ \A i \in Inodes : Unlocked(c)[i] # c
         /\ \A i \in Inodes, d \in Clients : d # c => (Unlocked(c)[i] = d <=> osLock[i] = d)
  BY NoneAssumption DEF Unlocked, Inodes

\* Nothing is locked and no file is open at the start.
LEMMA InitInv == Init => Inv
  BY NoneAssumption, TimeoutAssumption
  DEF Init, Inv, TypeOK, OneLockFile, LockMatchesStep, HeldHasByte, Inodes, Platforms, Steps, Errors,
      Waiting, Owning

\* Every step of every client, and the passing of time, keeps the invariant.
LEMMA NextInv == Inv /\ [Next]_vars => Inv'
<1> SUFFICES ASSUME Inv, [Next]_vars PROVE Inv'
  OBVIOUS
<1> USE NoneAssumption, TimeoutAssumption
<1> USE DEF Inv, TypeOK, OneLockFile, LockMatchesStep, HeldHasByte, Inodes, Steps, Waiting, Owning
<1>1. CASE UNCHANGED vars
  BY <1>1 DEF vars
<1>2. CASE Tick
  BY <1>2 DEF Tick
<1>3. ASSUME NEW c \in Clients, ClientNext(c) PROVE Inv'
  <2>1. CASE Begin(c)
    BY <2>1 DEF Begin, Goto, Errors
  <2>2. CASE OpenPosix(c)
    BY <2>2 DEF OpenPosix, Opened, Goto
  <2>3. CASE StatWindows(c)
    BY <2>3 DEF StatWindows, Goto
  <2>4. CASE StageTemporary(c)
    BY <2>4 DEF StageTemporary, Goto
  <2>5. CASE RenameTemporary(c)
    BY <2>5 DEF RenameTemporary, Goto
  <2>6. CASE RestatWindows(c)
    BY <2>6 DEF RestatWindows, Goto
  <2>7. CASE OpenWindows(c)
    BY <2>7 DEF OpenWindows, Opened, Goto
  <2>8. CASE SharingViolation(c)
    BY <2>8 DEF SharingViolation, Goto
  <2>9. CASE OpenFails(c)
    BY <2>9 DEF OpenFails, Opening, Goto, Errors
  <2>10. CASE PollSucceeds(c)
    BY <2>10 DEF PollSucceeds, Goto
  <2>11. CASE PollFails(c)
    BY <2>11 DEF PollFails, Goto
  <2>12. CASE TimesOut(c)
    BY <2>12, UnlockedType DEF TimesOut, Abort, Goto, Errors
  <2>13. CASE Initialize(c)
    BY <2>13 DEF Initialize, Goto
  <2>14. CASE Interrupted(c)
    BY <2>14, UnlockedType DEF Interrupted, Abort, Goto, Errors
  <2>15. CASE Release(c)
    BY <2>15, UnlockedType DEF Release, Goto
  <2>16. CASE Crash(c)
    BY <2>16, UnlockedType DEF Crash, Goto
  <2> QED
    BY <1>3, <2>1, <2>2, <2>3, <2>4, <2>5, <2>6, <2>7, <2>8, <2>9, <2>10, <2>11, <2>12,
       <2>13, <2>14, <2>15, <2>16 DEF ClientNext, ClientStep
<1> QED
  BY <1>1, <1>2, <1>3 DEF Next

\* The inductive invariant holds in every reachable state.
THEOREM Invariance == Spec => []Inv
<1> QED
  BY InitInv, NextInv, PTL DEF Spec

\* acquire() and release() keep every variable in its type.
THEOREM TypeCorrect == Spec => []TypeOK
  BY Invariance, PTL DEF Inv

\* However many clients race to create the lock file, there is one, and what a
\* client believes about the lock is what the operating system does.
THEOREM LockIsReal == Spec => [](OneLockFile /\ LockMatchesStep /\ HeldHasByte)
  BY Invariance, PTL DEF Inv

\* Two owners would have the same file open and both have its lock.
LEMMA Exclusion == Inv => MutualExclusion
<1> SUFFICES ASSUME Inv, NEW c \in Clients, NEW d \in Clients,
                    step[c] \in Owning, step[d] \in Owning
             PROVE  c = d
  BY DEF MutualExclusion
<1>1. stream[c] = file /\ stream[d] = file /\ file \in Inodes
  BY NoneAssumption DEF Inv, OneLockFile, TypeOK
<1>2. osLock[file] = c /\ osLock[file] = d
  BY <1>1 DEF Inv, LockMatchesStep
<1> QED
  BY <1>2

\* Two clients never both own the lock.
THEOREM MutualExclusionHolds == Spec => []MutualExclusion
  BY Invariance, Exclusion, PTL

----------------------------------------------------------------------------

GaveUp == \A c \in Clients :
  error[c] # "timeout" /\ error'[c] = "timeout" => remaining[c] = 0 /\ osLock[stream[c]] \notin {None, c}

\* The only step that records a timeout is a poll that failed at the deadline.
LEMMA NextGivesUp == Inv /\ [Next]_vars => GaveUp
<1> SUFFICES ASSUME Inv, [Next]_vars, NEW c \in Clients,
                    error[c] # "timeout", error'[c] = "timeout"
             PROVE  remaining[c] = 0 /\ osLock[stream[c]] \notin {None, c}
  BY DEF GaveUp
<1>1. PICK d \in Clients : ClientNext(d)
  BY DEF Next, Tick, vars
<1>2. TimesOut(d) /\ d = c
  BY <1>1 DEF ClientNext, ClientStep, Begin, OpenPosix, StatWindows, StageTemporary, RenameTemporary,
     RestatWindows, OpenWindows, SharingViolation, OpenFails, PollSucceeds, PollFails, TimesOut,
     Initialize, Interrupted, Release, Crash, Abort, Inv, TypeOK
<1>3. step[c] = "polling" /\ osLock[stream[c]] # None /\ remaining[c] = 0
  BY <1>2 DEF TimesOut
<1>4. stream[c] \in Inodes
  BY <1>3 DEF Inv, OneLockFile, TypeOK, Waiting
<1>5. osLock[stream[c]] # c
  BY <1>3, <1>4 DEF Inv, LockMatchesStep, Owning
<1> QED
  BY <1>3, <1>5

\* acquire() gives up only at its deadline and only while another client has
\* the lock.
THEOREM GivesUpAtDeadline == Spec => GivesUpOnlyAtDeadline
<1>1. Inv /\ [Next]_vars => [GaveUp]_vars
  BY NextGivesUp
<1> QED
  BY <1>1, Invariance, PTL DEF Spec, GivesUpOnlyAtDeadline, GaveUp

----------------------------------------------------------------------------
(* Refinement of Mutex *)

\* The owner, when there is one, is the abstract holder.
LEMMA HolderIsOwner ==
  ASSUME Inv
  PROVE  /\ \A c \in Clients : step[c] \in Owning <=> Holder = c
         /\ Holder \in Clients \cup {None}
<1>1. MutualExclusion
  BY Exclusion
<1> QED
  BY <1>1, NoneAssumption DEF Holder, MutualExclusion

\* The same in the state after a step.
LEMMA HolderIsOwnerNext ==
  ASSUME Inv'
  PROVE  /\ \A c \in Clients : step'[c] \in Owning <=> Holder' = c
         /\ Holder' \in Clients \cup {None}
<1>1. MutualExclusion'
  BY Exclusion, PTL
<1> QED
  BY <1>1, NoneAssumption DEF Holder, MutualExclusion

\* When no client starts or stops owning the lock, the holder stays.
LEMMA SameHolder ==
  ASSUME Inv, Inv', \A d \in Clients : step'[d] \in Owning <=> step[d] \in Owning
  PROVE  Holder' = Holder
<1> QED
  BY HolderIsOwner, HolderIsOwnerNext, NoneAssumption

\* Every step takes the abstract lock, gives it back or leaves it alone.
LEMMA StepRefines == Inv /\ Inv' /\ [Next]_vars => [AbstractLock!Next]_Holder
<1> SUFFICES ASSUME Inv, Inv', [Next]_vars PROVE [AbstractLock!Next]_Holder
  OBVIOUS
<1>1. CASE UNCHANGED vars
  BY <1>1, SameHolder DEF vars
<1>2. CASE Tick
  <2>1. \A d \in Clients : step'[d] \in Owning <=> step[d] \in Owning
    BY <1>2 DEF Tick, Owning
  <2> QED
    BY <2>1, SameHolder
<1>3. ASSUME NEW c \in Clients, ClientNext(c) PROVE [AbstractLock!Next]_Holder
  <2>1. \A d \in Clients : d # c => step'[d] = step[d]
    BY <1>3 DEF ClientNext, ClientStep, Begin, OpenPosix, StatWindows, StageTemporary, RenameTemporary,
       RestatWindows, OpenWindows, SharingViolation, OpenFails, PollSucceeds, PollFails, TimesOut,
       Initialize, Interrupted, Release, Crash, Abort, Opened, Goto, Inv, TypeOK
  <2>2. CASE step[c] \in Owning <=> step'[c] \in Owning
    BY <2>1, <2>2, SameHolder
  <2>3. CASE step[c] \notin Owning /\ step'[c] \in Owning
    <3>1. PollSucceeds(c)
      BY <1>3, <2>3 DEF ClientNext, ClientStep, Begin, OpenPosix, StatWindows, StageTemporary,
         RenameTemporary, RestatWindows, OpenWindows, SharingViolation, OpenFails, PollFails, TimesOut,
         Initialize, Interrupted, Release, Crash, Abort, Opened, Goto, Inv, TypeOK, Owning
    <3>2. stream[c] = file /\ file \in Inodes /\ osLock[file] = None
      BY <3>1, NoneAssumption DEF PollSucceeds, Inv, OneLockFile, TypeOK, Waiting
    <3>3. \A d \in Clients : step[d] \notin Owning
      BY <3>2, NoneAssumption DEF Inv, OneLockFile, LockMatchesStep, TypeOK
    <3>4. Holder = None /\ Holder' = c
      BY <2>3, <3>3, HolderIsOwner, HolderIsOwnerNext
    <3> QED
      BY <3>4 DEF AbstractLock!Next, AbstractLock!Take
  <2>4. CASE step[c] \in Owning /\ step'[c] \notin Owning
    <3>1. Holder = c
      BY <2>4, HolderIsOwner
    <3>2. \A d \in Clients : step'[d] \notin Owning
      BY <2>1, <2>4, Exclusion DEF MutualExclusion
    <3>3. Holder' = None
      BY <3>2, HolderIsOwnerNext
    <3> QED
      BY <3>1, <3>3 DEF AbstractLock!Next, AbstractLock!Give
  <2> QED
    BY <2>2, <2>3, <2>4
<1> QED
  BY <1>1, <1>2, <1>3 DEF Next

\* Whatever crashes, times out or is cancelled, users of the lock see a mutex.
THEOREM Refinement == Spec => ImplementsMutex
<1>1. Init => AbstractLock!Init
  BY DEF Init, AbstractLock!Init, Holder, Owning
<1> QED
  BY <1>1, Invariance, StepRefines, PTL DEF Spec, ImplementsMutex, AbstractLock!Spec
=============================================================================
