------------------------ MODULE MCStoresAndLogs_proofs ------------------------
(***************************************************************************)
(* What the stores of a data root keep true, for any processes and any     *)
(* contents: plugins (PluginInstall), the credential vault (Vault),        *)
(* cookies (CookieJar), the update state (UpdateState), what a workflow    *)
(* remembers of its images (ImageLedger) and of its runs                   *)
(* (WorkflowHistory), the settings merged from their layers                *)
(* (Configuration), and the log of a chapter with the verdict on it        *)
(* (ChapterLog).  The first is proved of its own specification, the others *)
(* of the instance that moves in MCStoresAndLogs, whose constants stay     *)
(* what they are.                                                          *)
(***************************************************************************)
EXTENDS MCStoresAndLogs, Sequences, FiniteSetTheorems, TLAPS

-----------------------------------------------------------------------------
(***************************************************************************)
(* The installed plugins and their catalog (PluginInstall): every command  *)
(* that does not break off is a transaction, no entry changes its content  *)
(* without its version, and nothing but a broken off installation destroys *)
(* an installed plugin.                                                    *)
(***************************************************************************)

Locked == {"backup", "place", "remove", "list"} \cup Undoing

\* The catalog lock is held exactly through the moves and their undoing.
LockedSteps == \A p \in Procs : holder = p <=> step[p] \in Locked

\* Nobody else writes the catalog, and the command was not refused.
Decided(p) ==
  step[p] \in Locked =>
    /\ catalog = before[2]
    /\ command[p] \in {"install", "trust"} => ~Contradicts(given[p])
    /\ command[p] = "revoke" => catalog # None

\* What each command is given, has staged and has moved before it has the lock.
Prepared(p) ==
  /\ step[p] = "idle" => command[p] = None /\ result[p] = "none" /\ staged[p] = None
  /\ step[p] # "idle" => command[p] \in Commands
  /\ step[p] # "idle" /\ command[p] \in {"install", "trust"} => given[p] \in Sources
  /\ step[p] = "stage" => command[p] = "install" /\ moved[p] = None
  /\ step[p] = "acquire" => moved[p] = None
  /\ step[p] \in {"acquire", "backup", "place"} /\ command[p] = "install" => staged[p] = given[p]

\* Where the plugin that was there is, at each step that holds the lock.
InPlace(p) == target = before[1] /\ moved[p] = None
Away(p) == target = None /\ moved[p] = before[1]
Replaced(p) == target = given[p] /\ staged[p] = None /\ moved[p] = before[1]

PluginAt(p) ==
  /\ step[p] = "backup" => command[p] = "install" /\ InPlace(p) /\ target # None
  /\ step[p] = "place" => command[p] = "install" /\ Away(p)
  /\ step[p] = "remove" => command[p] = "uninstall" /\ InPlace(p) /\ target # None
  /\ step[p] = "list" =>
       CASE command[p] = "install" -> Replaced(p)
         [] command[p] = "uninstall" -> Away(p)
         [] OTHER -> InPlace(p)
  /\ step[p] = "undo_target" =>
       /\ command[p] = "install"
       /\ \/ InPlace(p) /\ target # None /\ staged[p] # None
          \/ Away(p)
          \/ Replaced(p)
  /\ step[p] = "undo_backup" =>
       command[p] \in {"install", "uninstall"} /\ (InPlace(p) \/ Away(p))

PluginsInv ==
  /\ TypeOK
  /\ LockedSteps
  /\ \A p \in Procs : Decided(p) /\ Prepared(p) /\ PluginAt(p)

\* What a command reads of the state, its own part and the shared one.
Own(p) == <<step[p], command[p], given[p], staged[p], moved[p], result[p]>>
Shared == <<target, catalog, before>>

-----------------------------------------------------------------------------

\* A command that has not the lock does not depend on what the holder changes.
LEMMA OthersKeep ==
  ASSUME NEW q \in Procs, Decided(q), Prepared(q), PluginAt(q), Own(q)' = Own(q),
         step[q] \notin Locked \/ Shared' = Shared
  PROVE Decided(q)' /\ Prepared(q)' /\ PluginAt(q)'
  BY SMTT(30) DEF Decided, Prepared, PluginAt, InPlace, Away, Replaced, Contradicts, Own, Shared, Locked, Undoing, Commands

USE PluginAssumption DEF PluginsInv, TypeOK, LockedSteps, Locked, Undoing, Steps, Commands, Dirs, disk, job, held,
    Goto, Move, MoveAway, Ends, Release, Forget

LEMMA PluginsBegin == Init => PluginsInv
  BY SMTT(30) DEF Init, Decided, Prepared, PluginAt, Entries, Results

LEMMA BeginKeeps == ASSUME PluginsInv, NEW p \in Procs, Begin(p) PROVE PluginsInv'
<1>1. TypeOK'
  BY SMTT(30) DEF Prepared, PluginAt, InPlace, Away, Replaced, Entries, Results, Begin
<1>2. LockedSteps'
  BY SMTT(30) DEF Prepared, Begin
<1>3. Decided(p)'
  BY SMTT(30) DEF Decided, Prepared, Contradicts, Begin
<1>4. Prepared(p)'
  BY SMTT(30) DEF Prepared, PluginAt, Begin
<1>5. PluginAt(p)'
  BY SMTT(30) DEF Prepared, PluginAt, InPlace, Away, Replaced, Begin
<1>6. ASSUME NEW q \in Procs, q # p PROVE Own(q)' = Own(q) /\ (step[q] \notin Locked \/ Shared' = Shared)
  BY <1>6, SMTT(30) DEF Own, Shared, Begin
<1> QED BY <1>1, <1>2, <1>3, <1>4, <1>5, <1>6, OthersKeep

LEMMA StageKeeps == ASSUME PluginsInv, NEW p \in Procs, Stage(p) PROVE PluginsInv'
<1>1. TypeOK'
  BY SMTT(30) DEF Prepared, PluginAt, InPlace, Away, Replaced, Entries, Results, Stage
<1>2. LockedSteps'
  BY SMTT(30) DEF Prepared, Stage
<1>3. Decided(p)'
  BY SMTT(30) DEF Decided, Prepared, Contradicts, Stage
<1>4. Prepared(p)'
  BY SMTT(30) DEF Prepared, PluginAt, Stage
<1>5. PluginAt(p)'
  BY SMTT(30) DEF Prepared, PluginAt, InPlace, Away, Replaced, Stage
<1>6. ASSUME NEW q \in Procs, q # p PROVE Own(q)' = Own(q) /\ (step[q] \notin Locked \/ Shared' = Shared)
  BY <1>6, SMTT(30) DEF Own, Shared, Stage
<1> QED BY <1>1, <1>2, <1>3, <1>4, <1>5, <1>6, OthersKeep

LEMMA AcquireKeeps == ASSUME PluginsInv, NEW p \in Procs, Acquire(p) PROVE PluginsInv'
<1>1. command[p] \in Commands /\ step[p] = "acquire" /\ holder = None /\ moved[p] = None /\ step \in [Procs -> Steps]
  BY DEF Prepared, Acquire
<1>2. UNCHANGED <<target, catalog, command, given, staged, moved, owned, litter>>
  BY DEF Acquire
<1>3. ASSUME NEW q \in Procs, q # p PROVE Decided(q)' /\ Prepared(q)' /\ PluginAt(q)'
  <2>1. Own(q)' = Own(q)
    BY <1>3, <1>2, SMTT(30) DEF Own, Acquire
  <2>2. step[q] \notin Locked
    BY <1>1
  <2> QED BY <2>1, <2>2, OthersKeep
<1>4. CASE Refused(p)
  <2>1. step' = [step EXCEPT ![p] = "cleanup"] /\ result' = [result EXCEPT ![p] = "failed"] /\ UNCHANGED <<holder, before>>
    BY <1>4, <1>1 DEF Acquire
  <2>2. TypeOK'
    BY <2>1, <1>2, SMTT(30) DEF Results
  <2>3. LockedSteps'
    BY <2>1, <1>1, SMTT(30)
  <2>4. Decided(p)' /\ Prepared(p)' /\ PluginAt(p)'
    BY <2>1, <1>1, <1>2, SMTT(30) DEF Decided, Prepared, PluginAt
  <2> QED BY <2>2, <2>3, <2>4, <1>3
<1>5. CASE ~Refused(p)
  <2>1. step' = [step EXCEPT ![p] = FirstChange(p)] /\ holder' = p /\ before' = <<target, catalog>> /\ UNCHANGED result
    BY <1>5 DEF Acquire
  <2>2. FirstChange(p) \in {"backup", "place", "remove", "list"}
    BY <1>1 DEF FirstChange
  <2>3. TypeOK'
    BY <2>1, <2>2, <1>2, SMTT(30)
  <2>4. LockedSteps'
    BY <2>1, <2>2, <1>1, SMTT(30)
  <2>5. step'[p] = FirstChange(p) /\ before'[1] = target /\ before'[2] = catalog
    BY <2>1, <1>1
  <2>6. Decided(p)'
    BY <2>5, <1>5, <1>1, <1>2 DEF Decided, Refused, Contradicts
  <2>7. Prepared(p)'
    BY <2>5, <2>2, <1>1, <1>2 DEF Prepared
  <2>8. PluginAt(p)'
    BY <2>5, <2>2, <1>1, <1>2 DEF PluginAt, FirstChange, InPlace, Away
  <2> QED BY <2>3, <2>4, <2>6, <2>7, <2>8, <1>3
<1> QED BY <1>4, <1>5

LEMMA BackupKeeps == ASSUME PluginsInv, NEW p \in Procs, Backup(p) PROVE PluginsInv'
<1>1. TypeOK'
  BY SMTT(30) DEF Prepared, PluginAt, InPlace, Away, Replaced, Entries, Results, Backup
<1>2. LockedSteps'
  BY SMTT(30) DEF Prepared, Backup
<1>3. Decided(p)'
  BY SMTT(30) DEF Decided, Prepared, Contradicts, Backup
<1>4. Prepared(p)'
  BY SMTT(30) DEF Prepared, PluginAt, Backup
<1>5. PluginAt(p)'
  BY SMTT(30) DEF Prepared, PluginAt, InPlace, Away, Replaced, Backup
<1>6. ASSUME NEW q \in Procs, q # p PROVE Own(q)' = Own(q) /\ (step[q] \notin Locked \/ Shared' = Shared)
  BY <1>6, SMTT(30) DEF Own, Shared, Backup
<1> QED BY <1>1, <1>2, <1>3, <1>4, <1>5, <1>6, OthersKeep

LEMMA RemoveKeeps == ASSUME PluginsInv, NEW p \in Procs, Remove(p) PROVE PluginsInv'
<1>1. TypeOK'
  BY SMTT(30) DEF Prepared, PluginAt, InPlace, Away, Replaced, Entries, Results, Remove
<1>2. LockedSteps'
  BY SMTT(30) DEF Prepared, Remove
<1>3. Decided(p)'
  BY SMTT(30) DEF Decided, Prepared, Contradicts, Remove
<1>4. Prepared(p)'
  BY SMTT(30) DEF Prepared, PluginAt, Remove
<1>5. PluginAt(p)'
  BY SMTT(30) DEF Prepared, PluginAt, InPlace, Away, Replaced, Remove
<1>6. ASSUME NEW q \in Procs, q # p PROVE Own(q)' = Own(q) /\ (step[q] \notin Locked \/ Shared' = Shared)
  BY <1>6, SMTT(30) DEF Own, Shared, Remove
<1> QED BY <1>1, <1>2, <1>3, <1>4, <1>5, <1>6, OthersKeep

LEMMA PlaceKeeps == ASSUME PluginsInv, NEW p \in Procs, Place(p) PROVE PluginsInv'
<1>1. TypeOK'
  BY SMTT(30) DEF Prepared, PluginAt, InPlace, Away, Replaced, Entries, Results, Place
<1>2. LockedSteps'
  BY SMTT(30) DEF Prepared, Place
<1>3. Decided(p)'
  BY SMTT(30) DEF Decided, Prepared, Contradicts, Place
<1>4. Prepared(p)'
  BY SMTT(30) DEF Prepared, PluginAt, Place
<1>5. PluginAt(p)'
  BY SMTT(30) DEF Prepared, PluginAt, InPlace, Away, Replaced, Place
<1>6. ASSUME NEW q \in Procs, q # p PROVE Own(q)' = Own(q) /\ (step[q] \notin Locked \/ Shared' = Shared)
  BY <1>6, SMTT(30) DEF Own, Shared, Place
<1> QED BY <1>1, <1>2, <1>3, <1>4, <1>5, <1>6, OthersKeep

LEMMA ListKeeps == ASSUME PluginsInv, NEW p \in Procs, List(p) PROVE PluginsInv'
<1>1. TypeOK'
  <2>1. step[p] = "list" /\ command[p] \in Commands /\ (command[p] \in {"install", "trust"} => given[p] \in Sources)
        /\ (command[p] = "revoke" => catalog # None)
    BY DEF Prepared, Decided, List
  <2>2. catalog' \in Entries
    <3>1. CASE command[p] \in {"install", "trust"}
      BY <3>1, <2>1 DEF List, Entries
    <3>2. CASE command[p] = "revoke"
      <4>1. catalog \in [source : Sources, revoked : BOOLEAN]
        BY <3>2, <2>1 DEF Entries
      <4>2. catalog' = [catalog EXCEPT !.revoked = TRUE]
        BY <3>2 DEF List
      <4> QED BY <4>1, <4>2 DEF Entries
    <3>3. CASE command[p] = "uninstall"
      BY <3>3 DEF List, Entries
    <3> QED BY <3>1, <3>2, <3>3, <2>1
  <2>3. owned' \in Dirs /\ litter' \in {owned', None}
    BY <2>1, SMTT(30) DEF List
  <2>4. result' \in [Procs -> Results] /\ step' \in [Procs -> Steps]
    BY DEF List, Results
  <2>5. holder' \in Procs \cup {None} /\ before' \in Dirs \X Entries
    BY SMTT(30) DEF List, Entries
  <2> QED BY <2>2, <2>3, <2>4, <2>5 DEF List
<1>2. LockedSteps'
  BY SMTT(30) DEF Prepared, List
<1>3. Decided(p)'
  BY SMTT(30) DEF Decided, Prepared, Contradicts, List
<1>4. Prepared(p)'
  BY SMTT(30) DEF Prepared, PluginAt, List
<1>5. PluginAt(p)'
  BY SMTT(30) DEF Prepared, PluginAt, InPlace, Away, Replaced, List
<1>6. ASSUME NEW q \in Procs, q # p PROVE Own(q)' = Own(q) /\ (step[q] \notin Locked \/ Shared' = Shared)
  BY <1>6, SMTT(30) DEF Own, Shared, List
<1> QED BY <1>1, <1>2, <1>3, <1>4, <1>5, <1>6, OthersKeep

LEMMA FailsKeeps == ASSUME PluginsInv, NEW p \in Procs, Fails(p) PROVE PluginsInv'
<1>1. TypeOK'
  BY SMTT(30) DEF Prepared, PluginAt, InPlace, Away, Replaced, Entries, Results, CanRaise,
       Guarded, Fails
<1>2. LockedSteps'
  BY SMTT(30) DEF Prepared, CanRaise, Guarded, Fails
<1>3. Decided(p)'
  BY SMTT(30) DEF Decided, Prepared, Contradicts, CanRaise, Guarded, Fails
<1>4. Prepared(p)'
  BY SMTT(30) DEF Prepared, PluginAt, CanRaise, Guarded, Fails
<1>5. PluginAt(p)'
  BY SMTT(30) DEF Prepared, PluginAt, InPlace, Away, Replaced, CanRaise, Guarded, Fails
<1>6. ASSUME NEW q \in Procs, q # p PROVE Own(q)' = Own(q) /\ (step[q] \notin Locked \/ Shared' = Shared)
  BY <1>6, SMTT(30) DEF Own, Shared, CanRaise, Guarded, Fails
<1> QED BY <1>1, <1>2, <1>3, <1>4, <1>5, <1>6, OthersKeep

LEMMA UndoTargetKeeps == ASSUME PluginsInv, NEW p \in Procs, UndoTarget(p) PROVE PluginsInv'
<1>1. TypeOK'
  BY SMTT(30) DEF Prepared, PluginAt, InPlace, Away, Replaced, Entries, Results, UndoTarget
<1>2. LockedSteps'
  BY SMTT(30) DEF Prepared, UndoTarget
<1>3. Decided(p)'
  BY SMTT(30) DEF Decided, Prepared, Contradicts, UndoTarget
<1>4. Prepared(p)'
  BY SMTT(30) DEF Prepared, PluginAt, UndoTarget
<1>5. PluginAt(p)'
  BY SMTT(30) DEF Prepared, PluginAt, InPlace, Away, Replaced, UndoTarget
<1>6. ASSUME NEW q \in Procs, q # p PROVE Own(q)' = Own(q) /\ (step[q] \notin Locked \/ Shared' = Shared)
  BY <1>6, SMTT(30) DEF Own, Shared, UndoTarget
<1> QED BY <1>1, <1>2, <1>3, <1>4, <1>5, <1>6, OthersKeep

LEMMA UndoBackupKeeps == ASSUME PluginsInv, NEW p \in Procs, UndoBackup(p) PROVE PluginsInv'
<1>1. TypeOK'
  BY SMTT(30) DEF Prepared, PluginAt, InPlace, Away, Replaced, Entries, Results, UndoBackup
<1>2. LockedSteps'
  BY SMTT(30) DEF Prepared, UndoBackup
<1>3. Decided(p)'
  BY SMTT(30) DEF Decided, Prepared, Contradicts, UndoBackup
<1>4. Prepared(p)'
  BY SMTT(30) DEF Prepared, PluginAt, UndoBackup
<1>5. PluginAt(p)'
  BY SMTT(30) DEF Prepared, PluginAt, InPlace, Away, Replaced, UndoBackup
<1>6. ASSUME NEW q \in Procs, q # p PROVE Own(q)' = Own(q) /\ (step[q] \notin Locked \/ Shared' = Shared)
  BY <1>6, SMTT(30) DEF Own, Shared, UndoBackup
<1> QED BY <1>1, <1>2, <1>3, <1>4, <1>5, <1>6, OthersKeep

LEMMA BreaksOffKeeps == ASSUME PluginsInv, NEW p \in Procs, BreaksOff(p) PROVE PluginsInv'
<1>1. TypeOK'
  BY SMTT(30) DEF Prepared, PluginAt, InPlace, Away, Replaced, Entries, Results, Abandon, HasLast,
       BreaksOff
<1>2. LockedSteps'
  BY SMTT(30) DEF Prepared, Abandon, BreaksOff
<1>3. Decided(p)'
  BY SMTT(30) DEF Decided, Prepared, Contradicts, Abandon, BreaksOff
<1>4. Prepared(p)'
  BY SMTT(30) DEF Prepared, PluginAt, Abandon, BreaksOff
<1>5. PluginAt(p)'
  BY SMTT(30) DEF Prepared, PluginAt, InPlace, Away, Replaced, Abandon, BreaksOff
<1>6. ASSUME NEW q \in Procs, q # p PROVE Own(q)' = Own(q) /\ (step[q] \notin Locked \/ Shared' = Shared)
  BY <1>6, SMTT(30) DEF Own, Shared, Abandon, BreaksOff
<1> QED BY <1>1, <1>2, <1>3, <1>4, <1>5, <1>6, OthersKeep

LEMMA CleanupKeeps == ASSUME PluginsInv, NEW p \in Procs, Cleanup(p) PROVE PluginsInv'
<1>1. TypeOK'
  BY SMTT(30) DEF Prepared, PluginAt, InPlace, Away, Replaced, Entries, Results,
       Cleanup
<1>2. LockedSteps'
  BY SMTT(30) DEF Prepared, Cleanup
<1>3. Decided(p)'
  BY SMTT(30) DEF Decided, Prepared, Contradicts, Cleanup
<1>4. Prepared(p)'
  BY SMTT(30) DEF Prepared, PluginAt, Cleanup
<1>5. PluginAt(p)'
  BY SMTT(30) DEF Prepared, PluginAt, InPlace, Away, Replaced, Cleanup
<1>6. ASSUME NEW q \in Procs, q # p PROVE Own(q)' = Own(q) /\ (step[q] \notin Locked \/ Shared' = Shared)
  BY <1>6, SMTT(30) DEF Own, Shared, Cleanup
<1> QED BY <1>1, <1>2, <1>3, <1>4, <1>5, <1>6, OthersKeep

LEMMA DiesKeeps == ASSUME PluginsInv, NEW p \in Procs, Dies(p) PROVE PluginsInv'
<1>1. TypeOK'
  BY SMTT(30) DEF Prepared, PluginAt, InPlace, Away, Replaced, Entries, Results, Abandon,
       Dies
<1>2. LockedSteps'
  BY SMTT(30) DEF Prepared, Abandon, Dies
<1>3. Decided(p)'
  BY SMTT(30) DEF Decided, Prepared, Contradicts, Abandon, Dies
<1>4. Prepared(p)'
  BY SMTT(30) DEF Prepared, PluginAt, Abandon, Dies
<1>5. PluginAt(p)'
  BY SMTT(30) DEF Prepared, PluginAt, InPlace, Away, Replaced, Abandon, Dies
<1>6. ASSUME NEW q \in Procs, q # p PROVE Own(q)' = Own(q) /\ (step[q] \notin Locked \/ Shared' = Shared)
  BY <1>6, SMTT(30) DEF Own, Shared, Abandon, Dies
<1> QED BY <1>1, <1>2, <1>3, <1>4, <1>5, <1>6, OthersKeep

LEMMA PluginsKept == PluginsInv /\ [Next]_vars => PluginsInv'
<1> SUFFICES ASSUME PluginsInv, [Next]_vars PROVE PluginsInv' OBVIOUS
<1>1. CASE Next
  <2> PICK p \in Procs :
        \/ Begin(p) \/ Stage(p) \/ Acquire(p) \/ Backup(p) \/ Place(p) \/ Remove(p) \/ List(p)
        \/ Fails(p) \/ UndoTarget(p) \/ UndoBackup(p) \/ BreaksOff(p) \/ Cleanup(p) \/ Dies(p)
    BY <1>1 DEF Next
  <2> QED BY BeginKeeps, StageKeeps, AcquireKeeps, BackupKeeps, PlaceKeeps, RemoveKeeps, ListKeeps,
             FailsKeeps, UndoTargetKeeps, UndoBackupKeeps, BreaksOffKeeps, CleanupKeeps, DiesKeeps
<1>2. CASE UNCHANGED vars
  BY <1>2, SMTT(30) DEF vars, Decided, Prepared, PluginAt, InPlace, Away, Replaced, Contradicts
<1> QED BY <1>1, <1>2

\* The strengthening: the lock, and where a plugin is while it is held.
THEOREM PluginsInvariance == Spec => []PluginsInv
  BY PluginsBegin, PluginsKept, PTL DEF Spec

\* Every variable keeps its type.
THEOREM PluginsTyped == Spec => []TypeOK
  BY PluginsInvariance, PTL

-----------------------------------------------------------------------------

LEMMA StepIsTransaction ==
  ASSUME PluginsInv, [Next]_vars, NEW p \in Procs PROVE Transaction(p)
<1> SUFFICES ASSUME holder = p, result[p] = "none", result'[p] # "none" PROVE Transaction(p)
  BY DEF Transaction
<1>1. PICK q \in Procs :
        \/ Begin(q) \/ Stage(q) \/ Acquire(q) \/ Backup(q) \/ Place(q) \/ Remove(q) \/ List(q)
        \/ Fails(q) \/ UndoTarget(q) \/ UndoBackup(q) \/ BreaksOff(q) \/ Cleanup(q) \/ Dies(q)
  BY DEF Next, vars
<1>2. before = <<before[1], before[2]>> /\ result \in [Procs -> Results]
  OBVIOUS
<1>3. step[p] \in Locked
  OBVIOUS
<1>4. q = p
  <2> SUFFICES ASSUME q # p PROVE FALSE OBVIOUS
  <2> QED BY <1>1, <1>2, SMTT(30) DEF Begin, Stage, Acquire, Backup, Place, Remove, List, Fails, UndoTarget,
       UndoBackup, BreaksOff, Cleanup, Dies
<1>5. List(p) \/ Fails(p) \/ UndoTarget(p) \/ UndoBackup(p) \/ BreaksOff(p)
  BY <1>1, <1>2, <1>3, <1>4, SMTT(30) DEF Begin, Stage, Acquire, Backup, Place, Remove, Cleanup, Dies
<1>6. CASE List(p)
  <2>1. step[p] = "list" /\ result'[p] = "ok" /\ target' = target
    BY <1>6, <1>2 DEF List
  <2>2. CASE command[p] = "install"
    <3>1. target = given[p]
      BY <2>1, <2>2 DEF PluginAt, Replaced
    <3>2. catalog' = [source |-> given[p], revoked |-> FALSE]
      BY <1>6, <2>2 DEF List
    <3> QED BY <2>1, <2>2, <3>1, <3>2 DEF Transaction
  <2>3. CASE command[p] = "uninstall"
    <3>1. target = None
      BY <2>1, <2>3 DEF PluginAt, Away
    <3>2. catalog' = None
      BY <1>6, <2>3 DEF List
    <3> QED BY <2>1, <2>3, <3>1, <3>2 DEF Transaction
  <2>4. CASE command[p] \notin {"install", "uninstall"}
    BY <2>1, <2>4 DEF Transaction, PluginAt, InPlace
  <2> QED BY <2>2, <2>3, <2>4
<1>7. CASE Fails(p)
  <2>1. disk' = disk /\ ~Guarded(p) /\ result'[p] = "failed"
    BY <1>7, <1>2 DEF Fails
  <2>2. command[p] \notin {"install", "uninstall"} /\ command[p] \in Commands
    BY <2>1, <1>3 DEF Guarded, Prepared
  <2>3. step[p] = "list"
    BY <2>2, <1>3, <1>7 DEF PluginAt, Fails, CanRaise
  <2> QED BY <2>1, <2>2, <2>3, <1>2, <1>3 DEF Transaction, PluginAt, Decided, InPlace
<1>8. CASE UndoTarget(p)
  <2>1. target # None /\ staged[p] # None /\ result'[p] = "failed" /\ target' = target /\ catalog' = catalog
    BY <1>8, <1>2 DEF UndoTarget
  <2>2. InPlace(p)
    BY <2>1, <1>8 DEF UndoTarget, PluginAt, Away, Replaced
  <2> QED BY <2>1, <2>2, <1>2, <1>3 DEF Transaction, Decided, InPlace
<1>9. CASE UndoBackup(p)
  <2>1. target' = before[1] /\ catalog' = catalog /\ result'[p] = "failed"
    BY <1>9, <1>2 DEF UndoBackup, PluginAt, InPlace, Away
  <2> QED BY <2>1, <1>2, <1>3 DEF Transaction, Decided
<1>10. CASE BreaksOff(p)
  BY <1>10, <1>2 DEF BreaksOff, Transaction
<1> QED BY <1>5, <1>6, <1>7, <1>8, <1>9, <1>10

\* Installing, removing, trusting and revoking are transactions, whatever
\* others do at the same time and whichever process dies; only one
\* that breaks off ends otherwise.
THEOREM CommandsAreTransactions == Spec => AllOrNothing
<1>1. PluginsInv /\ [Next]_vars => [\A p \in Procs : Transaction(p)]_vars
  BY StepIsTransaction
<1> QED BY <1>1, PluginsInvariance, PTL DEF Spec, AllOrNothing, Transaction

-----------------------------------------------------------------------------

\* The catalog changes only when a command lists its outcome.
LEMMA OnlyListChangesCatalog ==
  ASSUME [Next]_vars, catalog' # catalog PROVE \E p \in Procs : List(p)
  BY DEF Next, vars, Begin, Stage, Acquire, Backup, Place, Remove, Fails,
       UndoTarget, UndoBackup, BreaksOff, Cleanup, Dies

LEMMA EntryKeepsContent ==
  ASSUME PluginsInv, [Next]_vars, catalog # None, catalog' # None, catalog.source.version = catalog'.source.version
  PROVE catalog'.source = catalog.source
<1> SUFFICES ASSUME catalog' # catalog PROVE catalog'.source = catalog.source OBVIOUS
<1>1. PICK p \in Procs : List(p)
  BY OnlyListChangesCatalog
<1>2. step[p] = "list" /\ command[p] \in Commands
  BY <1>1 DEF List, Prepared
<1>3. CASE command[p] \in {"install", "trust"}
  <2>1. ~Contradicts(given[p])
    BY <1>2, <1>3 DEF Decided
  <2>2. catalog'.source = given[p]
    BY <1>1, <1>3 DEF List
  <2> QED BY <2>1, <2>2 DEF Contradicts
<1>4. CASE command[p] = "revoke"
  <2>1. catalog \in [source : Sources, revoked : BOOLEAN]
    BY DEF Entries
  <2>2. catalog' = [catalog EXCEPT !.revoked = TRUE]
    BY <1>1, <1>4 DEF List
  <2> QED BY <2>1, <2>2
<1>5. CASE command[p] = "uninstall"
  BY <1>1, <1>5 DEF List
<1> QED BY <1>2, <1>3, <1>4, <1>5

\* Whoever installs or trusts, an entry's content changes only with its version.
THEOREM ContentIsPinned == Spec => SameVersionSameContent
<1>1. PluginsInv /\ [Next]_vars =>
        [catalog # None /\ catalog' # None /\ catalog.source.version = catalog'.source.version
           => catalog'.source = catalog.source]_catalog
  BY EntryKeepsContent
<1> QED BY <1>1, PluginsInvariance, PTL DEF Spec, SameVersionSameContent

-----------------------------------------------------------------------------

\* While the lock is held, what was installed last is what the holder found, or
\* a dead process left it in its temporary directory.
Kept == owned \in {None, litter, IF holder = None THEN target ELSE before[1]}

LEMMA KeptStep ==
  ASSUME PluginsInv, Kept, [Next]_vars PROVE Kept'
<1>1. CASE UNCHANGED vars
  BY <1>1 DEF vars, Kept
<1>2. ASSUME NEW p \in Procs, Begin(p) \/ Stage(p) \/ Cleanup(p) PROVE Kept'
  BY <1>2 DEF Begin, Stage, Cleanup, Kept
<1>3. ASSUME NEW p \in Procs, Acquire(p) PROVE Kept'
  BY <1>3, SMTT(30) DEF Acquire, Kept
<1>4. ASSUME NEW p \in Procs, Backup(p) \/ Remove(p) \/ Place(p) PROVE Kept'
  BY <1>4, SMTT(30) DEF Backup, Remove, Place, Kept
<1>5. ASSUME NEW p \in Procs, List(p) PROVE Kept'
  <2>1. step[p] = "list" /\ holder = p /\ command[p] \in Commands /\ PluginAt(p)
    BY <1>5 DEF List, Prepared
  <2>2. holder' = None /\ target' = target
    BY <1>5, <2>1 DEF List
  <2>3. CASE command[p] = "install"
    BY <1>5, <2>1, <2>2, <2>3 DEF List, PluginAt, Replaced, Kept
  <2>4. CASE command[p] = "uninstall"
    BY <1>5, <2>4 DEF List, Kept
  <2>5. CASE command[p] \in {"trust", "revoke"}
    BY <1>5, <2>1, <2>2, <2>5 DEF List, PluginAt, InPlace, Kept
  <2> QED BY <2>1, <2>3, <2>4, <2>5
<1>6. ASSUME NEW p \in Procs, Fails(p) PROVE Kept'
  <2>1. CASE Guarded(p)
    BY <1>6, <2>1 DEF Fails, Kept
  <2>2. CASE ~Guarded(p) /\ holder = p
    <3>1. InPlace(p)
      BY <1>6, <2>2 DEF Fails, CanRaise, Guarded, PluginAt, Prepared
    <3> QED BY <1>6, <2>2, <3>1 DEF Fails, Kept, InPlace
  <2>3. CASE holder # p
    BY <1>6, <2>3 DEF Fails, Guarded, Kept
  <2> QED BY <2>1, <2>2, <2>3
<1>7. ASSUME NEW p \in Procs, UndoTarget(p) PROVE Kept'
  BY <1>7, SMTT(30) DEF UndoTarget, PluginAt, InPlace, Away, Replaced, Kept
<1>8. ASSUME NEW p \in Procs, UndoBackup(p) PROVE Kept'
  BY <1>8, SMTT(30) DEF UndoBackup, PluginAt, InPlace, Away, Kept
<1>9. ASSUME NEW p \in Procs, Dies(p) PROVE Kept'
  <2>1. CASE holder = p
    <3>1. target = before[1] \/ moved[p] = before[1]
      BY <2>1 DEF PluginAt, InPlace, Away, Replaced, Prepared
    <3>2. litter' = IF moved[p] = owned THEN owned ELSE litter
      BY <1>9, <2>1 DEF Dies, Abandon
    <3> QED BY <1>9, <2>1, <3>1, <3>2 DEF Dies, Kept
  <2>2. CASE holder # p
    BY <1>9, <2>2 DEF Dies, Abandon, Kept
  <2> QED BY <2>1, <2>2
<1>10. ASSUME NEW p \in Procs, BreaksOff(p) PROVE Kept'
  <2>1. CASE holder = p
    <3>1. target = before[1] \/ moved[p] = before[1]
      BY <2>1 DEF PluginAt, InPlace, Away, Replaced, Prepared
    <3> QED BY <1>10, <2>1, <3>1, SMTT(30) DEF BreaksOff, Abandon, HasLast, Kept
  <2>2. CASE holder # p
    <3>1. moved[p] = None
      BY <1>10, <2>2 DEF BreaksOff, Prepared
    <3> QED BY <1>10, <2>2, <3>1, SMTT(30) DEF BreaksOff, Abandon, HasLast, Kept
  <2> QED BY <2>1, <2>2
<1> QED BY <1>1, <1>2, <1>3, <1>4, <1>5, <1>6, <1>7, <1>8, <1>9, <1>10 DEF Next

LEMMA KeptIsOnDisk == PluginsInv /\ Kept => InstalledIsKept
<1> SUFFICES ASSUME PluginsInv, Kept, owned # None, owned # litter PROVE owned \in {target} \cup {moved[p] : p \in Procs}
  BY DEF InstalledIsKept
<1>1. CASE holder = None
  BY <1>1 DEF Kept
<1>2. CASE holder \in Procs
  <2>1. target = before[1] \/ moved[holder] = before[1]
    BY <1>2 DEF PluginAt, InPlace, Away, Replaced, Prepared
  <2> QED BY <1>2, <2>1 DEF Kept
<1> QED BY <1>1, <1>2

\* No error, no death and no other command loses an installed plugin: only an
\* installation that breaks off can.
THEOREM PluginsSurvive == Spec => []InstalledIsKept
<1>1. Init => Kept
  BY DEF Init, Kept
<1>2. PluginsInv /\ Kept /\ [Next]_vars => Kept'
  BY KeptStep
<1> QED BY <1>1, <1>2, PluginsInvariance, KeptIsOnDisk, PTL DEF Spec

\* What is proved of Spec holds of the plugins in MCStoresAndLogs.
LEMMA PluginsAreOneStore == StoresSpec => Spec
<1>1. StoresInit => Init
  BY DEF StoresInit
<1>2. [StoresNext]_storeVars => [Next]_vars
  BY DEF StoresNext, Moves, storeVars
<1> QED
  BY <1>1, <1>2, PTL DEF StoresSpec, Spec

-----------------------------------------------------------------------------
(***************************************************************************)
(* The credential vault (Vault).                                           *)
(***************************************************************************)

DiskTyped ==
  /\ meta \in Vault!Metas \cup {None}
  /\ journal \in Vault!Journals \cup {None}
  /\ Vault!Managed \subseteq Files
  /\ \A f \in Vault!Managed : files[f] \in [key : Keys, entries : SUBSET VaultEntries]
  /\ keyring \subseteq used /\ used \subseteq Keys
  /\ stored \in [Files -> SUBSET VaultEntries]
  /\ littered \in BOOLEAN

CommandsTyped ==
  /\ vaultHolder \in Procs \cup {None}
  /\ vaultStep \in [Procs -> Vault!Steps]
  /\ vaultCommand \in [Procs -> Vault!AllCommands \cup {None}]
  /\ edit \in [Procs -> Vault!Edits \cup {None}]
  /\ loaded \in [Procs -> SUBSET VaultEntries]
  /\ todo \in [Procs -> SUBSET Files]
  /\ outcome \in Vault!Outcomes

\* A command runs while its process holds the lock, and no other does.
OneCommand ==
  /\ \A p \in Procs : vaultStep[p] = "idle" <=> vaultHolder # p
  /\ vaultHolder # None => outcome = "none"

\* What vault.json says is so.
MetaFits ==
  /\ meta = None => Vault!Managed = {} /\ journal = None /\ keyring = {}
  /\ meta # None =>
       /\ meta.key \in used
       /\ meta.marker => meta.key \in keyring
       /\ meta.state = "ready" => meta.marker
       /\ meta.state = "initializing" => ~meta.marker /\ Vault!Managed = {}
       /\ meta.state = "restoring" =>
            Vault!Managed \subseteq DOMAIN VaultBackup /\ (Vault!Managed # {} => meta.marker)
       /\ journal = None => \A f \in Vault!Managed : files[f].key = meta.key

\* A rotation: the vault is ready, its files are sealed with the old key, or
\* with the old or the new one, and all with the new one once it is committed.
RotationFits ==
  journal # None =>
    /\ meta # None /\ meta.state = "ready"
    /\ journal.old # journal.new
    /\ journal.old \in used /\ journal.new \in used
    /\ meta.key \in {journal.old, journal.new}
    /\ journal.files \subseteq Vault!Managed
    /\ journal.phase # "prepared" => journal.new \in keyring
    /\ journal.phase # "committed" => meta.key = journal.old /\ Vault!Managed = journal.files
    /\ journal.phase = "prepared" => \A f \in Vault!Managed : files[f].key = journal.old
    /\ journal.phase = "rewrapping" => \A f \in Vault!Managed : files[f].key \in {journal.old, journal.new}
    /\ journal.phase = "committed" => \A f \in Vault!Managed : files[f].key = journal.new

\* The files hold what was stored.
EntriesFit ==
  /\ \A f \in Vault!Managed : files[f].entries = stored[f]
  /\ \A f \in Files \ Vault!Managed : stored[f] = {}

\* What is durable fits together at every moment a process may die.
Durable == DiskTyped /\ MetaFits /\ RotationFits /\ EntriesFit /\ Vault!KeysAccountedFor

\* Nothing is being rotated, as far as the files go.
AtRest == journal = None \/ (journal.phase = "committed" /\ meta.key = journal.new)

\* What the process that holds the lock knows when it gets to step s.
Knows(p, s) ==
  /\ s = "load" => vaultCommand[p] = "edit" /\ edit[p] \in Vault!Edits
  /\ s \in {"ensure", "put"} =>
       /\ vaultCommand[p] \in {"init", "edit"}
       /\ vaultCommand[p] = "edit" => edit[p] \in Vault!Edits /\ loaded[p] = stored[edit[p].file]
  /\ s = "put" => vaultCommand[p] = "edit" /\ meta # None /\ meta.state = "ready" /\ AtRest
  /\ s \in {"newkey", "mark", "rewrap", "switch", "retire", "unlink"} => journal # None
  /\ s \in {"mark", "rewrap", "switch", "retire", "unlink"} => journal.new \in keyring
  /\ s = "rewrap" =>
       /\ journal.phase = "rewrapping"
       /\ todo[p] \subseteq Vault!Managed
       /\ \A f \in Vault!Managed \ todo[p] : files[f].key = journal.new
  /\ s \in {"switch", "retire", "unlink"} => journal.phase = "committed"
  /\ s \in {"retire", "unlink"} => meta.key = journal.new
  /\ s = "unlink" => journal.old \notin keyring
  /\ s = "unpack" => (meta # None => meta.state = "restoring") /\ todo[p] \subseteq DOMAIN VaultBackup

\* The inductive invariant.
VaultInv ==
  /\ CommandsTyped
  /\ OneCommand
  /\ Durable
  /\ \A p \in Procs : Knows(p, vaultStep[p])

\* Only a vault that was never ready is found damaged.
Undamaged == outcome' = "damaged" => meta # None /\ ~meta.marker

LEMMA VaultHolds == Vault!VaultAssumption
BY StoresAssumption

\* The process that runs a command holds the lock, and the others rest.
LEMMA Alone ==
  ASSUME VaultInv, NEW p \in Procs, vaultStep[p] # "idle"
  PROVE  /\ vaultHolder = p /\ vaultHolder # None /\ outcome = "none"
         /\ \A q \in Procs \ {p} : vaultStep[q] = "idle"
BY VaultHolds DEF VaultInv, OneCommand, Vault!VaultAssumption

\* A command ends; what is on the disk is another matter.
LEMMA CommandEnds ==
  ASSUME VaultInv, NEW p \in Procs, vaultStep[p] # "idle", NEW how \in Vault!Outcomes,
         Vault!Ends(p, how), how = "damaged" => meta # None /\ ~meta.marker, Durable'
  PROVE  VaultInv' /\ Undamaged
<1>1. vaultHolder = p /\ \A q \in Procs \ {p} : vaultStep[q] = "idle"
  BY Alone
<1>2. vaultStep' = [q \in Procs |-> "idle"] /\ vaultHolder' = None /\ outcome' = how
  BY <1>1 DEF Vault!Ends, VaultInv, CommandsTyped
<1>3. CommandsTyped'
  BY <1>2 DEF Vault!Ends, VaultInv, CommandsTyped, Vault!Steps
<1>4. OneCommand'
  BY <1>2, VaultHolds DEF OneCommand, Vault!VaultAssumption
<1>5. \A q \in Procs : Knows(q, vaultStep[q])'
  BY <1>2 DEF Knows
<1> QED
  BY <1>2, <1>3, <1>4, <1>5 DEF VaultInv, Undamaged

\* It goes on; it has to know what the next step needs.
LEMMA CommandGoesOn ==
  ASSUME VaultInv, NEW p \in Procs, vaultStep[p] # "idle", NEW s \in Vault!Steps \ {"idle"},
         NEW S \in SUBSET Files, Vault!GoesOn(p, s, S), Knows(p, s)', Durable'
  PROVE  VaultInv' /\ Undamaged
<1>1. vaultHolder = p /\ vaultHolder # None /\ outcome = "none"
      /\ \A q \in Procs \ {p} : vaultStep[q] = "idle"
  BY Alone
<1>2. /\ vaultHolder' = p /\ outcome' = "none" /\ vaultStep'[p] = s
      /\ \A q \in Procs \ {p} : vaultStep'[q] = "idle"
  BY <1>1 DEF Vault!GoesOn, VaultInv, CommandsTyped
<1>3. CommandsTyped'
  BY <1>2 DEF Vault!GoesOn, Vault!local, VaultInv, CommandsTyped
<1>4. OneCommand'
  BY <1>2 DEF OneCommand
<1>5. \A q \in Procs \ {p} : Knows(q, vaultStep[q])'
  BY <1>2 DEF Knows
<1>6. Knows(p, vaultStep[p])'
  BY <1>2 DEF Knows
<1> QED
  BY <1>2, <1>3, <1>4, <1>5, <1>6 DEF VaultInv, Undamaged

\* What is durable stays.
LEMMA DiskRests ==
  ASSUME Durable, UNCHANGED <<Vault!disk, keyring, used>>, littered' \in BOOLEAN
  PROVE  Durable'
<1> USE DEF Vault!disk, Vault!Managed
<1>1. DiskTyped'
  BY DEF Durable, DiskTyped
<1>2. MetaFits' /\ EntriesFit' /\ Vault!KeysAccountedFor'
  BY DEF Durable, MetaFits, EntriesFit, Vault!KeysAccountedFor
<1>3. RotationFits'
  BY DEF Durable, RotationFits
<1> QED
  BY <1>1, <1>2, <1>3 DEF Durable

\* A vault that is not as it should be was never ready.
LEMMA WhatReadySays ==
  ASSUME Durable
  PROVE  /\ Vault!Ready = "damaged" => meta # None /\ ~meta.marker
         /\ Vault!Ready = "ready" => meta # None /\ meta.state = "ready" /\ AtRest
         /\ Vault!Ready # "ready" => Vault!Ready \in Vault!Outcomes
<1> USE DEF Durable, MetaFits, RotationFits, DiskTyped, Vault!Ready, Vault!JournalReadable, AtRest,
      Vault!Outcomes, Vault!Phases, Vault!Journals, Vault!Metas, Vault!States
<1>1. Vault!Ready = "damaged" => meta # None /\ ~meta.marker
  OBVIOUS
<1>2. Vault!Ready = "ready" => meta # None /\ meta.state = "ready" /\ AtRest
  OBVIOUS
<1>3. Vault!Ready # "ready" => Vault!Ready \in Vault!Outcomes
  OBVIOUS
<1> QED
  BY <1>1, <1>2, <1>3

\* A ready vault at rest has one key.
LEMMA OneKey ==
  ASSUME Durable, meta # None, AtRest
  PROVE  \A f \in Vault!Managed : files[f].key = meta.key
BY DEF Durable, MetaFits, RotationFits, AtRest

-----------------------------------------------------------------------------
(* Initialization *)

LEMMA AfterEnsureKeeps ==
  ASSUME VaultInv, NEW p \in Procs, vaultStep[p] = "ensure", Vault!AfterEnsure(p),
         UNCHANGED stored, (meta # None /\ meta.state = "ready" /\ AtRest)', Durable'
  PROVE  VaultInv' /\ Undamaged
<1>1. Knows(p, "ensure")
  BY DEF VaultInv
<1>2. CASE vaultCommand[p] = "init"
  BY <1>2, CommandEnds DEF Vault!AfterEnsure, Vault!Outcomes
<1>3. CASE vaultCommand[p] # "init"
  <2>1. Vault!GoesOn(p, "put", todo[p])
    BY <1>3 DEF Vault!AfterEnsure, Vault!Goto
  <2>2. Knows(p, "put")'
    BY <1>1, <1>3, <2>1 DEF Knows, AtRest, Vault!GoesOn, Vault!local
  <2>3. todo[p] \in SUBSET Files
    BY DEF VaultInv, CommandsTyped
  <2> QED
    BY <2>1, <2>2, <2>3, CommandGoesOn DEF Vault!Steps
<1> QED
  BY <1>2, <1>3

LEMMA EnsureKeeps ==
  ASSUME VaultInv, NEW p \in Procs,
         Vault!EnsureMeta(p) \/ Vault!EnsureKey(p) \/ Vault!EnsurePublished(p) \/ Vault!EnsureReady(p)
  PROVE  VaultInv' /\ Undamaged
<1> USE DEF Vault!Managed
<1>1. vaultStep[p] = "ensure" /\ Knows(p, "ensure")
  BY DEF VaultInv, Vault!EnsureMeta, Vault!EnsureKey, Vault!EnsurePublished, Vault!EnsureReady,
    Vault!Initializing
<1>2. Durable /\ todo[p] \in SUBSET Files
  BY DEF VaultInv, CommandsTyped
<1>3. CASE Vault!EnsureMeta(p)
  <2>1. meta = None /\ Vault!Managed = {} /\ journal = None /\ keyring = {}
    BY <1>2, <1>3 DEF Durable, MetaFits, Vault!EnsureMeta
  <2>2. PICK k \in Keys : k \notin used /\ used' = used \cup {k}
                          /\ meta' = [state |-> "initializing", key |-> k, marker |-> FALSE]
    BY <1>3, <2>1 DEF Vault!EnsureMeta, Vault!NewKeyId
  <2>3. Vault!GoesOn(p, "ensure", todo[p]) /\ UNCHANGED <<journal, files, stored, keyring, littered>>
    BY <1>3, <2>1 DEF Vault!EnsureMeta, Vault!Goto
  <2> HIDE DEF Vault!Managed
  <2>4. meta' \in Vault!Metas
    BY <2>2 DEF Vault!Metas, Vault!States
  <2>9. meta' # None
    BY <2>4, VaultHolds DEF Vault!VaultAssumption
  <2> USE DEF Vault!Managed
  <2>5. DiskTyped'
    BY <1>2, <2>2, <2>3, <2>4 DEF Durable, DiskTyped
  <2>6. MetaFits' /\ RotationFits' /\ EntriesFit' /\ Vault!KeysAccountedFor'
    BY <1>2, <2>1, <2>2, <2>3, <2>9
    DEF Durable, MetaFits, RotationFits, EntriesFit, Vault!KeysAccountedFor
  <2>7. Knows(p, "ensure")'
    BY <1>1, <2>3 DEF Knows, Vault!GoesOn, Vault!local
  <2> QED
    BY <1>1, <1>2, <2>3, <2>5, <2>6, <2>7, CommandGoesOn DEF Durable, Vault!Steps
<1>4. CASE Vault!EnsureKey(p)
  <2>1. meta # None /\ meta.state = "initializing" /\ Vault!Managed = {} /\ meta.key \in used
    BY <1>2, <1>4 DEF Durable, MetaFits, Vault!EnsureKey, Vault!Initializing
  <2>2. /\ keyring' = keyring \cup {meta.key}
        /\ Vault!GoesOn(p, "ensure", todo[p])
        /\ UNCHANGED <<meta, journal, files, stored, used, littered>>
    BY <1>1, <1>4, <2>1 DEF Vault!EnsureKey, Vault!Stay, Vault!Goto, Vault!disk
  <2>3. journal = None
    BY <1>2, <2>1 DEF Durable, RotationFits
  <2>4. DiskTyped'
    BY <1>2, <2>1, <2>2 DEF Durable, DiskTyped
  <2>5. MetaFits' /\ RotationFits' /\ EntriesFit' /\ Vault!KeysAccountedFor'
    BY <1>2, <2>1, <2>2, <2>3 DEF Durable, MetaFits, RotationFits, EntriesFit, Vault!KeysAccountedFor
  <2>6. Knows(p, "ensure")'
    BY <1>1, <2>2 DEF Knows, Vault!GoesOn, Vault!local
  <2> QED
    BY <1>1, <1>2, <2>2, <2>4, <2>5, <2>6, CommandGoesOn DEF Durable, Vault!Steps
<1>5. CASE Vault!EnsurePublished(p)
  <2>1. /\ meta # None /\ meta.state = "initializing" /\ Vault!Managed = {} /\ meta.key \in used
        /\ meta.key \in keyring
    BY <1>2, <1>5 DEF Durable, MetaFits, Vault!EnsurePublished, Vault!Initializing
  <2>2. journal = None
    BY <1>2, <2>1 DEF Durable, RotationFits
  <2>3. /\ meta' = [meta EXCEPT !.state = "ready", !.marker = TRUE]
        /\ Vault!AfterEnsure(p)
        /\ UNCHANGED <<journal, files, stored, keyring, used, littered>>
    BY <1>5, <2>1 DEF Vault!EnsurePublished
  <2>4. meta \in Vault!Metas
    BY <1>2, <2>1 DEF Durable, DiskTyped
  <2>5. meta' \in Vault!Metas /\ meta'.state = "ready" /\ meta'.key = meta.key /\ meta'.marker
    BY <2>3, <2>4 DEF Vault!Metas, Vault!States
  <2>6. meta' # None
    BY <2>5, VaultHolds DEF Vault!VaultAssumption
  <2>7. DiskTyped'
    BY <1>2, <2>3, <2>5 DEF Durable, DiskTyped
  <2>8. MetaFits' /\ RotationFits' /\ EntriesFit' /\ Vault!KeysAccountedFor'
    BY <1>2, <2>1, <2>2, <2>3, <2>5, <2>6
    DEF Durable, MetaFits, RotationFits, EntriesFit, Vault!KeysAccountedFor
  <2>9. AtRest'
    BY <2>2, <2>3 DEF AtRest
  <2> QED
    BY <1>1, <2>3, <2>5, <2>6, <2>7, <2>8, <2>9, AfterEnsureKeeps DEF Durable
<1>6. CASE Vault!EnsureReady(p)
  <2>1. Durable'
    BY <1>2, <1>6, DiskRests DEF Vault!EnsureReady, Durable, DiskTyped
  <2>2. CASE Vault!Ready = "ready"
    <3>1. (meta # None /\ meta.state = "ready" /\ AtRest)'
      BY <1>2, <1>6, <2>2, WhatReadySays DEF Vault!EnsureReady, Vault!disk, AtRest
    <3> QED
      BY <1>1, <1>6, <2>1, <2>2, <3>1, AfterEnsureKeeps DEF Vault!EnsureReady, Vault!disk
  <2>3. CASE Vault!Ready # "ready"
    BY <1>1, <1>2, <1>6, <2>1, <2>3, WhatReadySays, CommandEnds DEF Vault!EnsureReady
  <2> QED
    BY <2>2, <2>3
<1> QED
  BY <1>3, <1>4, <1>5, <1>6

-----------------------------------------------------------------------------
(* Edits *)

LEMMA LoadKeeps ==
  ASSUME VaultInv, NEW p \in Procs, Vault!Load(p)
  PROVE  VaultInv' /\ Undamaged
<1> DEFINE f == edit[p].file
           S == IF f \in Vault!Managed THEN files[f].entries ELSE {}
<1>1. vaultStep[p] = "load" /\ Knows(p, "load") /\ Durable
  BY DEF VaultInv, Vault!Load
<1>2. edit[p] \in Vault!Edits /\ f \in Files /\ vaultCommand[p] = "edit"
  BY <1>1 DEF Knows, Vault!Edits
<1>3. Durable'
  BY <1>1, DiskRests DEF Vault!Load, Durable, DiskTyped
<1>4. S = stored[f]
  BY <1>1, <1>2 DEF Durable, EntriesFit
<1>5. CASE (f \in Vault!Managed \/ meta # None) /\ Vault!Ready # "ready"
  BY <1>1, <1>3, <1>5, WhatReadySays, CommandEnds DEF Vault!Load
<1>6. CASE /\ ~((f \in Vault!Managed \/ meta # None) /\ Vault!Ready # "ready")
           /\ f \in Vault!Managed /\ ~Vault!Opens(f)
  BY <1>1, <1>6, WhatReadySays, OneKey DEF Vault!Opens
<1>7. CASE Vault!Ends(p, "ok")
  BY <1>1, <1>3, <1>7, CommandEnds DEF Vault!Outcomes
<1>8. CASE /\ loaded' = [loaded EXCEPT ![p] = S]
           /\ vaultStep' = [vaultStep EXCEPT ![p] = "ensure"]
           /\ UNCHANGED <<vaultHolder, vaultCommand, edit, todo, outcome>>
  <2>1. /\ vaultHolder = p /\ vaultHolder # None /\ outcome = "none"
        /\ \A q \in Procs \ {p} : vaultStep[q] = "idle"
    BY <1>1, Alone
  <2>2. vaultStep'[p] = "ensure" /\ loaded'[p] = stored[f] /\ \A q \in Procs \ {p} : vaultStep'[q] = "idle"
    BY <1>4, <1>8, <2>1 DEF VaultInv, CommandsTyped
  <2>3. stored[f] \in SUBSET VaultEntries
    BY <1>1, <1>2 DEF Durable, DiskTyped
  <2>4. CommandsTyped'
    BY <1>4, <1>8, <2>3 DEF VaultInv, CommandsTyped, Vault!Steps
  <2>5. OneCommand'
    BY <1>8, <2>1, <2>2 DEF OneCommand
  <2>6. UNCHANGED stored
    BY DEF Vault!Load, Vault!disk
  <2>7. Knows(p, vaultStep[p])'
    BY <1>2, <1>8, <2>2, <2>6 DEF Knows
  <2>8. \A q \in Procs \ {p} : Knows(q, vaultStep[q])'
    BY <2>2 DEF Knows
  <2> QED
    BY <1>3, <1>8, <2>1, <2>4, <2>5, <2>7, <2>8 DEF VaultInv, Undamaged
<1> QED
  BY <1>5, <1>6, <1>7, <1>8 DEF Vault!Load

LEMMA PutKeeps ==
  ASSUME VaultInv, NEW p \in Procs, Vault!Put(p)
  PROVE  VaultInv' /\ Undamaged
<1> USE DEF Vault!Managed
<1>1. vaultStep[p] = "put" /\ Knows(p, "put") /\ Durable
  BY DEF VaultInv, Vault!Put
<1> DEFINE f == edit[p].file
           new == Vault!Applied(edit[p], stored[f])
<1>2. /\ edit[p] \in Vault!Edits /\ f \in Files /\ loaded[p] = stored[f]
      /\ meta # None /\ meta.state = "ready" /\ AtRest
  BY <1>1 DEF Knows, Vault!Edits
<1>3. \A g \in Vault!Managed : files[g].key = meta.key
  BY <1>1, <1>2, OneKey
<1>4. /\ files' = [g \in Vault!Managed \cup {f} |->
              IF g = f THEN [key |-> meta.key, entries |-> new] ELSE files[g]]
      /\ stored' = [stored EXCEPT ![f] = new]
      /\ Vault!Ends(p, "ok")
      /\ UNCHANGED <<meta, journal, keyring, used, littered>>
  BY <1>2, <1>3 DEF Vault!Put, Vault!Opens, Vault!Applied
<1>5. new \in SUBSET VaultEntries /\ meta.key \in Keys
  BY <1>1, <1>2 DEF Durable, DiskTyped, Vault!Applied, Vault!Edits, Vault!Metas
<1> HIDE DEF f, new
<1>6. Vault!Managed' = Vault!Managed \cup {f} /\ files'[f] = [key |-> meta.key, entries |-> new]
      /\ \A g \in Vault!Managed \ {f} : files'[g] = files[g]
  BY <1>4
<1>7. stored'[f] = new /\ \A g \in Files \ {f} : stored'[g] = stored[g]
  BY <1>1, <1>2, <1>4 DEF Durable, DiskTyped
<1>8. DiskTyped'
  BY <1>1, <1>2, <1>4, <1>5, <1>6 DEF Durable, DiskTyped
<1>9. MetaFits'
  BY <1>1, <1>2, <1>3, <1>4, <1>6 DEF Durable, MetaFits, RotationFits, AtRest
<1>10. RotationFits'
  BY <1>1, <1>2, <1>3, <1>4, <1>6 DEF Durable, RotationFits, AtRest
<1>11. EntriesFit'
  BY <1>1, <1>2, <1>4, <1>6, <1>7 DEF Durable, EntriesFit
<1>12. Vault!KeysAccountedFor'
  BY <1>1, <1>4 DEF Durable, Vault!KeysAccountedFor
<1> QED
  BY <1>1, <1>4, <1>8, <1>9, <1>10, <1>11, <1>12, CommandEnds DEF Durable, Vault!Outcomes

-----------------------------------------------------------------------------
(* Rotation of the master key *)

LEMMA RotateKeeps ==
  ASSUME VaultInv, NEW p \in Procs, Vault!Rotate(p)
  PROVE  VaultInv' /\ Undamaged
<1>1. vaultStep[p] = "rotate" /\ Durable /\ todo[p] \in SUBSET Files
  BY DEF VaultInv, CommandsTyped, Vault!Rotate
<1>2. UNCHANGED <<meta, files, stored, keyring, littered>>
  BY DEF Vault!Rotate
<1>3. CASE UNCHANGED <<journal, used>>
  <2>1. Durable'
    BY <1>1, <1>2, <1>3, DiskRests DEF Vault!disk, Durable, DiskTyped
  <2>2. CASE \E how \in Vault!Outcomes \ {"damaged"} : Vault!Ends(p, how)
    BY <1>1, <2>1, <2>2, CommandEnds
  <2>3. CASE Vault!Ends(p, "damaged") /\ meta # None /\ ~meta.marker
    BY <1>1, <2>1, <2>3, CommandEnds DEF Vault!Outcomes
  <2>4. CASE Vault!Goto(p, "newkey") /\ journal # None
    <3>1. Knows(p, "newkey")'
      BY <1>3, <2>4 DEF Knows
    <3> QED
      BY <1>1, <2>1, <2>4, <3>1, CommandGoesOn DEF Vault!Goto, Vault!Steps
  <2>5. meta # None => (meta.key \notin keyring => ~meta.marker)
                       /\ (journal # None => Vault!JournalReadable \/ ~meta.marker)
    BY <1>1 DEF Durable, MetaFits, RotationFits, Vault!JournalReadable, DiskTyped, Vault!Journals, Vault!Phases
  <2>6. meta # None /\ journal = None => \A f \in Vault!Managed : Vault!Opens(f)
    BY <1>1 DEF Durable, MetaFits, Vault!Opens
  <2>8. \/ \E how \in Vault!Outcomes \ {"damaged"} : Vault!Ends(p, how)
        \/ Vault!Ends(p, "damaged") /\ meta # None /\ ~meta.marker
        \/ Vault!Goto(p, "newkey") /\ journal # None
        \/ \E k \in Keys : journal' = [phase |-> "prepared", old |-> meta.key, new |-> k, files |-> Vault!Managed]
                           /\ journal = None /\ meta # None
    BY <2>5, <2>6 DEF Vault!Rotate, Vault!Outcomes
  <2>7. meta # None => meta.key \in Keys /\ Vault!Managed \in SUBSET Files
    BY <1>1 DEF Durable, DiskTyped, MetaFits
  <2>9. journal = None /\ meta # None => \A k \in Keys :
          journal' # [phase |-> "prepared", old |-> meta.key, new |-> k, files |-> Vault!Managed]
    <3> SUFFICES ASSUME journal = None, meta # None, NEW k \in Keys
                 PROVE  [phase |-> "prepared", old |-> meta.key, new |-> k, files |-> Vault!Managed] # None
      BY <1>3
    <3>1. [phase |-> "prepared", old |-> meta.key, new |-> k, files |-> Vault!Managed] \in Vault!Journals
      BY <2>7 DEF Vault!Journals, Vault!Phases
    <3> QED
      BY <3>1, VaultHolds DEF Vault!VaultAssumption
  <2> QED
    BY <2>2, <2>3, <2>4, <2>8, <2>9
<1>4. CASE ~UNCHANGED <<journal, used>>
  <2>1. /\ meta # None /\ meta.key \in keyring /\ meta.marker /\ journal = None /\ meta.state = "ready"
        /\ Vault!Goto(p, "newkey")
        /\ \E k \in Keys :
             /\ Vault!NewKeyId(k)
             /\ journal' = [phase |-> "prepared", old |-> meta.key, new |-> k, files |-> Vault!Managed]
    BY <1>4 DEF Vault!Rotate
  <2>2. PICK k \in Keys :
             /\ k \notin used /\ used' = used \cup {k}
             /\ journal' = [phase |-> "prepared", old |-> meta.key, new |-> k, files |-> Vault!Managed]
    BY <2>1 DEF Vault!NewKeyId
  <2>3. meta.key \in used /\ meta.key \in Keys
    BY <1>1, <2>1 DEF Durable, MetaFits, DiskTyped
  <2>4. journal' \in Vault!Journals
    BY <1>1, <2>2, <2>3 DEF Durable, DiskTyped, Vault!Journals, Vault!Phases
  <2>5. journal' # None
    BY <2>4, VaultHolds DEF Vault!VaultAssumption
  <2>6. DiskTyped'
    BY <1>1, <1>2, <2>2, <2>4 DEF Durable, DiskTyped, Vault!Managed
  <2>7. MetaFits' /\ EntriesFit' /\ Vault!KeysAccountedFor'
    BY <1>1, <1>2, <2>1, <2>2, <2>5
    DEF Durable, MetaFits, EntriesFit, Vault!KeysAccountedFor, Vault!Managed
  <2>8. RotationFits'
    BY <1>1, <1>2, <2>1, <2>2, <2>3 DEF Durable, MetaFits, RotationFits, Vault!Managed
  <2>9. Knows(p, "newkey")'
    BY <2>5 DEF Knows
  <2> QED
    BY <1>1, <2>1, <2>6, <2>7, <2>8, <2>9, CommandGoesOn DEF Durable, Vault!Goto, Vault!Steps
<1> QED
  BY <1>3, <1>4

LEMMA NewKeyKeeps ==
  ASSUME VaultInv, NEW p \in Procs, Vault!NewKey(p)
  PROVE  VaultInv' /\ Undamaged
<1>1. /\ vaultStep[p] = "newkey" /\ Durable /\ journal # None /\ todo[p] \in SUBSET Files
      /\ journal.new \in used /\ meta # None /\ meta.key \in used /\ Vault!GoesOn(p, "mark", todo[p])
  BY DEF VaultInv, CommandsTyped, Knows, Durable, RotationFits, MetaFits, Vault!NewKey, Vault!Goto
<1>2. keyring' = keyring \cup {journal.new} /\ UNCHANGED <<meta, journal, files, stored, used, littered>>
  BY <1>1 DEF Vault!NewKey, Vault!disk, Durable, RotationFits
<1> USE DEF Vault!Managed
<1>3. DiskTyped' /\ MetaFits' /\ RotationFits' /\ EntriesFit' /\ Vault!KeysAccountedFor'
  BY <1>1, <1>2 DEF Durable, DiskTyped, MetaFits, RotationFits, EntriesFit, Vault!KeysAccountedFor
<1>4. Knows(p, "mark")'
  BY <1>1, <1>2 DEF Knows
<1> QED
  BY <1>1, <1>3, <1>4, CommandGoesOn DEF Durable, Vault!Steps

LEMMA MarkKeeps ==
  ASSUME VaultInv, NEW p \in Procs, Vault!Mark(p)
  PROVE  VaultInv' /\ Undamaged
<1>1. /\ vaultStep[p] = "mark" /\ Durable /\ journal # None /\ todo[p] \in SUBSET Files
      /\ journal.new \in keyring /\ journal \in Vault!Journals
      /\ UNCHANGED <<meta, files, stored, keyring, used, littered>>
  BY DEF VaultInv, CommandsTyped, Knows, Durable, DiskTyped, Vault!Mark
<1>2. CASE journal.phase = "committed"
  <2>1. Durable'
    BY <1>1, <1>2, DiskRests DEF Vault!Mark, Vault!disk, Durable, DiskTyped
  <2>2. Knows(p, "switch")'
    BY <1>1, <1>2 DEF Knows, Vault!Mark
  <2> QED
    BY <1>1, <1>2, <2>1, <2>2, CommandGoesOn DEF Vault!Mark, Vault!Goto, Vault!Steps
<1>3. CASE journal.phase # "committed"
  <2>1. /\ journal' = [journal EXCEPT !.phase = "rewrapping"]
        /\ Vault!GoesOn(p, "rewrap", journal.files) /\ journal.files = Vault!Managed
    BY <1>1, <1>3 DEF Vault!Mark, Durable, RotationFits
  <2>2. /\ journal' \in Vault!Journals /\ journal'.phase = "rewrapping" /\ journal'.old = journal.old
        /\ journal'.new = journal.new /\ journal'.files = journal.files /\ journal.files \in SUBSET Files
    BY <1>1, <2>1 DEF Vault!Journals, Vault!Phases
  <2>3. journal' # None
    BY <2>2, VaultHolds DEF Vault!VaultAssumption
  <2>4. DiskTyped' /\ MetaFits' /\ EntriesFit' /\ Vault!KeysAccountedFor'
    BY <1>1, <2>2, <2>3
    DEF Durable, DiskTyped, MetaFits, EntriesFit, Vault!KeysAccountedFor, Vault!Managed
  <2>5. RotationFits'
    BY <1>1, <1>3, <2>1, <2>2, <2>3 DEF Durable, RotationFits, Vault!Journals, Vault!Phases, Vault!Managed
  <2>6. todo'[p] = Vault!Managed
    BY <2>1 DEF Vault!GoesOn, VaultInv, CommandsTyped
  <2>7. Knows(p, "rewrap")'
    BY <1>1, <2>2, <2>3, <2>6 DEF Knows, Vault!Managed
  <2> QED
    BY <1>1, <2>1, <2>2, <2>4, <2>5, <2>7, CommandGoesOn DEF Durable, Vault!Steps
<1> QED
  BY <1>2, <1>3

LEMMA RewrapKeeps ==
  ASSUME VaultInv, NEW p \in Procs, Vault!Rewrap(p)
  PROVE  VaultInv' /\ Undamaged
<1>1. /\ vaultStep[p] = "rewrap" /\ Knows(p, "rewrap") /\ Durable /\ todo[p] \in SUBSET Files
      /\ UNCHANGED <<meta, journal, stored, keyring, used, littered>>
  BY DEF VaultInv, CommandsTyped, Vault!Rewrap
<1>2. /\ journal # None /\ journal.phase = "rewrapping" /\ journal.new \in keyring
      /\ todo[p] \subseteq Vault!Managed
      /\ \A f \in Vault!Managed \ todo[p] : files[f].key = journal.new
  BY <1>1 DEF Knows
<1>3. /\ meta # None /\ meta.key = journal.old /\ journal.old \in keyring /\ journal \in Vault!Journals
      /\ journal.new \in Keys
      /\ \A f \in Vault!Managed : files[f].key \in {journal.old, journal.new}
  BY <1>1, <1>2 DEF Durable, DiskTyped, MetaFits, RotationFits, Vault!Journals
<1>4. PICK f \in todo[p] :
        files' = [files EXCEPT ![f].key = journal.new] /\ Vault!GoesOn(p, "rewrap", todo[p] \ {f})
  BY <1>1, <1>2, <1>3 DEF Vault!Rewrap
<1>5. /\ Vault!Managed' = Vault!Managed /\ files'[f].key = journal.new /\ files'[f].entries = files[f].entries
      /\ files'[f] \in [key : Keys, entries : SUBSET VaultEntries]
      /\ \A g \in Vault!Managed \ {f} : files'[g] = files[g]
  BY <1>1, <1>2, <1>3, <1>4 DEF Durable, DiskTyped, Vault!Managed
<1>6. DiskTyped'
  BY <1>1, <1>5 DEF Durable, DiskTyped
<1>7. MetaFits' /\ RotationFits' /\ EntriesFit' /\ Vault!KeysAccountedFor'
  BY <1>1, <1>2, <1>3, <1>5 DEF Durable, MetaFits, RotationFits, EntriesFit, Vault!KeysAccountedFor
<1>8. todo'[p] = todo[p] \ {f}
  BY <1>4 DEF Vault!GoesOn, VaultInv, CommandsTyped
<1>9. Knows(p, "rewrap")'
  BY <1>1, <1>2, <1>5, <1>8 DEF Knows
<1> QED
  BY <1>1, <1>4, <1>6, <1>7, <1>9, CommandGoesOn DEF Durable, Vault!Steps

LEMMA CommitKeeps ==
  ASSUME VaultInv, NEW p \in Procs, Vault!Commit(p)
  PROVE  VaultInv' /\ Undamaged
<1>1. /\ vaultStep[p] = "rewrap" /\ Knows(p, "rewrap") /\ Durable /\ todo[p] = {}
      /\ journal' = [journal EXCEPT !.phase = "committed"]
      /\ Vault!GoesOn(p, "switch", todo[p])
      /\ UNCHANGED <<meta, files, stored, keyring, used, littered>>
  BY DEF VaultInv, Vault!Commit, Vault!Goto
<1>2. /\ journal # None /\ journal.new \in keyring /\ journal.phase = "rewrapping"
      /\ \A f \in Vault!Managed : files[f].key = journal.new
  BY <1>1 DEF Knows
<1>3. /\ journal' \in Vault!Journals /\ journal'.phase = "committed" /\ journal'.old = journal.old
      /\ journal'.new = journal.new /\ journal'.files = journal.files
  BY <1>1, <1>2 DEF Durable, DiskTyped, Vault!Journals, Vault!Phases
<1>4. journal' # None
  BY <1>3, VaultHolds DEF Vault!VaultAssumption
<1>5. DiskTyped' /\ MetaFits' /\ EntriesFit' /\ Vault!KeysAccountedFor'
  BY <1>1, <1>2, <1>3, <1>4
  DEF Durable, DiskTyped, MetaFits, EntriesFit, Vault!KeysAccountedFor, Vault!Managed
<1>6. RotationFits'
  BY <1>1, <1>2, <1>3, <1>4 DEF Durable, RotationFits, Vault!Managed
<1>7. Knows(p, "switch")'
  BY <1>1, <1>2, <1>3, <1>4 DEF Knows
<1> QED
  BY <1>1, <1>5, <1>6, <1>7, CommandGoesOn DEF Durable, Vault!Steps

LEMMA SwitchKeeps ==
  ASSUME VaultInv, NEW p \in Procs, Vault!Switch(p)
  PROVE  VaultInv' /\ Undamaged
<1>1. /\ vaultStep[p] = "switch" /\ Knows(p, "switch") /\ Durable /\ todo[p] \in SUBSET Files
      /\ UNCHANGED <<journal, files, stored, keyring, used, littered>>
  BY DEF VaultInv, CommandsTyped, Vault!Switch
<1>2. /\ journal # None /\ journal.new \in keyring /\ journal.phase = "committed"
      /\ journal \in Vault!Journals /\ journal.new \in Keys /\ journal.new \in used
      /\ meta # None /\ meta.state = "ready" /\ meta.key \in {journal.old, journal.new}
      /\ journal.files \subseteq Vault!Managed
      /\ \A f \in Vault!Managed : files[f].key = journal.new
  BY <1>1 DEF Knows, Durable, DiskTyped, RotationFits, Vault!Journals
<1>3. meta' = [meta EXCEPT !.key = journal.new] /\ Vault!GoesOn(p, "retire", todo[p])
  BY <1>2 DEF Vault!Switch, Vault!Goto
<1>4. /\ meta' \in Vault!Metas /\ meta'.key = journal.new /\ meta'.state = meta.state
      /\ meta'.marker = meta.marker
  BY <1>1, <1>2, <1>3 DEF Durable, DiskTyped, Vault!Metas
<1>5. meta' # None
  BY <1>4, VaultHolds DEF Vault!VaultAssumption
<1>6. DiskTyped' /\ MetaFits' /\ EntriesFit' /\ Vault!KeysAccountedFor'
  BY <1>1, <1>2, <1>4, <1>5
  DEF Durable, DiskTyped, MetaFits, EntriesFit, Vault!KeysAccountedFor, Vault!Managed
<1>7. RotationFits'
  BY <1>1, <1>2, <1>4, <1>5 DEF Durable, RotationFits, Vault!Managed
<1>8. Knows(p, "retire")'
  BY <1>1, <1>2, <1>4 DEF Knows
<1> QED
  BY <1>1, <1>3, <1>6, <1>7, <1>8, CommandGoesOn DEF Durable, Vault!Steps

LEMMA RetireKeeps ==
  ASSUME VaultInv, NEW p \in Procs, Vault!Retire(p)
  PROVE  VaultInv' /\ Undamaged
<1>1. /\ vaultStep[p] = "retire" /\ Knows(p, "retire") /\ Durable /\ todo[p] \in SUBSET Files
      /\ keyring' = keyring \ {journal.old} /\ Vault!GoesOn(p, "unlink", todo[p])
      /\ UNCHANGED <<meta, journal, files, stored, used, littered>>
  BY DEF VaultInv, CommandsTyped, Vault!Retire, Vault!Goto, Vault!disk
<1>2. /\ journal # None /\ journal.new \in keyring /\ journal.phase = "committed"
      /\ meta # None /\ meta.key = journal.new /\ journal.old # journal.new
  BY <1>1 DEF Knows, Durable, RotationFits
<1> USE DEF Vault!Managed
<1>3. DiskTyped' /\ MetaFits' /\ RotationFits' /\ EntriesFit' /\ Vault!KeysAccountedFor'
  BY <1>1, <1>2 DEF Durable, DiskTyped, MetaFits, RotationFits, EntriesFit, Vault!KeysAccountedFor
<1>4. Knows(p, "unlink")'
  BY <1>1, <1>2 DEF Knows
<1> QED
  BY <1>1, <1>3, <1>4, CommandGoesOn DEF Durable, Vault!Steps

LEMMA UnlinkKeeps ==
  ASSUME VaultInv, NEW p \in Procs, Vault!Unlink(p)
  PROVE  VaultInv' /\ Undamaged
<1>1. /\ vaultStep[p] = "unlink" /\ Knows(p, "unlink") /\ Durable
      /\ journal' = None /\ Vault!Ends(p, "ok")
      /\ UNCHANGED <<meta, files, stored, keyring, used, littered>>
  BY DEF VaultInv, Vault!Unlink
<1>2. /\ journal # None /\ journal.phase = "committed" /\ journal.old \notin keyring
      /\ meta # None /\ meta.key = journal.new
      /\ \A f \in Vault!Managed : files[f].key = meta.key
  BY <1>1 DEF Knows, Durable, RotationFits
<1> USE DEF Vault!Managed
<1>3. DiskTyped' /\ MetaFits' /\ RotationFits' /\ EntriesFit' /\ Vault!KeysAccountedFor'
  BY <1>1, <1>2 DEF Durable, DiskTyped, MetaFits, RotationFits, EntriesFit, Vault!KeysAccountedFor
<1> QED
  BY <1>1, <1>3, CommandEnds DEF Durable, Vault!Outcomes

-----------------------------------------------------------------------------
(* Restoring a backup *)

LEMMA StageRestores ==
  ASSUME VaultInv, NEW p \in Procs, Vault!Stage(p)
  PROVE  VaultInv' /\ Undamaged
<1>1. vaultStep[p] = "stage" /\ Durable /\ UNCHANGED <<Vault!disk, keyring, used, littered>>
  BY DEF VaultInv, Vault!Stage
<1>2. Durable'
  BY <1>1, DiskRests DEF Durable, DiskTyped
<1>3. CASE Vault!Ends(p, "destination")
  BY <1>1, <1>2, <1>3, CommandEnds DEF Vault!Outcomes
<1>4. CASE ~Vault!Ends(p, "destination")
  <2>1. Vault!GoesOn(p, "unpack", DOMAIN VaultBackup) /\ (meta # None => meta.state = "restoring")
    BY <1>4 DEF Vault!Stage
  <2>2. DOMAIN VaultBackup \in SUBSET Files
    BY VaultHolds DEF Vault!VaultAssumption
  <2>3. todo'[p] = DOMAIN VaultBackup
    BY <2>1 DEF Vault!GoesOn, VaultInv, CommandsTyped
  <2>4. Knows(p, "unpack")'
    BY <1>1, <2>1, <2>3 DEF Knows, Vault!disk
  <2> QED
    BY <1>1, <1>2, <2>1, <2>2, <2>4, CommandGoesOn DEF Vault!Steps
<1> QED
  BY <1>3, <1>4

\* A step of the restore that moves nothing of the command is one that goes on.
LEMMA StaysThere ==
  ASSUME VaultInv, NEW p \in Procs, UNCHANGED <<todo, Vault!mine>>
  PROVE  Vault!GoesOn(p, vaultStep[p], todo[p])
BY DEF VaultInv, CommandsTyped, Vault!GoesOn, Vault!mine, Vault!local

LEMMA UnpackKeeps ==
  ASSUME VaultInv, NEW p \in Procs,
         \/ Vault!UnpackMeta(p) \/ Vault!UnpackKey(p) \/ Vault!UnpackMarker(p)
         \/ Vault!UnpackFile(p) \/ Vault!UnpackEnds(p)
  PROVE  VaultInv' /\ Undamaged
<1>1. vaultStep[p] = "unpack" /\ Knows(p, "unpack") /\ Durable /\ todo[p] \in SUBSET Files
  BY DEF VaultInv, CommandsTyped, Vault!UnpackMeta, Vault!UnpackKey, Vault!UnpackMarker, Vault!UnpackFile,
    Vault!UnpackEnds, Vault!Unpacking
<1>2. (meta # None => meta.state = "restoring") /\ todo[p] \subseteq DOMAIN VaultBackup
  BY <1>1 DEF Knows
<1>3. journal = None
  BY <1>1, <1>2 DEF Durable, MetaFits, RotationFits
<1>4. meta # None => meta \in Vault!Metas /\ meta.key \in used
  BY <1>1 DEF Durable, DiskTyped, MetaFits
<1>5. CASE Vault!UnpackMeta(p)
  <2>1. meta = None /\ Vault!Managed = {} /\ keyring = {}
    BY <1>1, <1>5 DEF Durable, MetaFits, Vault!UnpackMeta
  <2>2. PICK k \in Keys : k \notin used /\ used' = used \cup {k}
                          /\ meta' = [state |-> "restoring", key |-> k, marker |-> FALSE]
    BY <1>5 DEF Vault!UnpackMeta, Vault!NewKeyId
  <2>3. Vault!GoesOn(p, "unpack", todo[p]) /\ UNCHANGED <<journal, files, stored, keyring, littered, todo>>
    BY <1>1, <1>5, StaysThere DEF Vault!UnpackMeta
  <2>4. meta' \in Vault!Metas
    BY <2>2 DEF Vault!Metas, Vault!States
  <2>5. meta' # None
    BY <2>4, VaultHolds DEF Vault!VaultAssumption
  <2>6. DiskTyped'
    BY <1>1, <2>2, <2>3, <2>4 DEF Durable, DiskTyped, Vault!Managed
  <2>7. MetaFits' /\ RotationFits' /\ EntriesFit' /\ Vault!KeysAccountedFor'
    BY <1>1, <1>3, <2>1, <2>2, <2>3, <2>5
    DEF Durable, MetaFits, RotationFits, EntriesFit, Vault!KeysAccountedFor, Vault!Managed
  <2>8. Knows(p, "unpack")'
    BY <1>2, <2>2, <2>3 DEF Knows
  <2> QED
    BY <1>1, <2>3, <2>6, <2>7, <2>8, CommandGoesOn DEF Durable, Vault!Steps
<1>6. CASE Vault!UnpackKey(p)
  <2>1. meta # None /\ meta.key \notin keyring /\ Vault!Managed = {} /\ ~meta.marker
    BY <1>1, <1>2, <1>6 DEF Durable, MetaFits, Vault!UnpackKey
  <2>2. /\ keyring' = keyring \cup {meta.key} /\ Vault!GoesOn(p, "unpack", todo[p])
        /\ UNCHANGED <<meta, journal, files, stored, used, littered>>
    BY <1>1, <1>6, <2>1 DEF Vault!UnpackKey, Vault!Stay, Vault!Goto, Vault!disk
  <2>3. DiskTyped' /\ MetaFits' /\ RotationFits' /\ EntriesFit' /\ Vault!KeysAccountedFor'
    BY <1>1, <1>3, <1>4, <2>1, <2>2
    DEF Durable, DiskTyped, MetaFits, RotationFits, EntriesFit, Vault!KeysAccountedFor, Vault!Managed
  <2>4. todo'[p] = todo[p]
    BY <2>2 DEF Vault!GoesOn, VaultInv, CommandsTyped
  <2>5. Knows(p, "unpack")'
    BY <1>2, <2>2, <2>4 DEF Knows
  <2> QED
    BY <1>1, <2>2, <2>3, <2>5, CommandGoesOn DEF Durable, Vault!Steps
<1>7. CASE Vault!UnpackMarker(p)
  <2>1. /\ meta # None /\ meta.key \in keyring /\ meta' = [meta EXCEPT !.marker = TRUE]
        /\ Vault!GoesOn(p, "unpack", todo[p])
        /\ UNCHANGED <<journal, files, stored, keyring, used, littered, todo>>
    BY <1>1, <1>7, StaysThere DEF Vault!UnpackMarker
  <2>2. /\ meta' \in Vault!Metas /\ meta'.key = meta.key /\ meta'.state = "restoring" /\ meta'.marker
    BY <1>2, <1>4, <2>1 DEF Vault!Metas
  <2>3. meta' # None
    BY <2>2, VaultHolds DEF Vault!VaultAssumption
  <2>4. DiskTyped' /\ MetaFits' /\ RotationFits' /\ EntriesFit' /\ Vault!KeysAccountedFor'
    BY <1>1, <1>2, <1>3, <2>1, <2>2, <2>3
    DEF Durable, DiskTyped, MetaFits, RotationFits, EntriesFit, Vault!KeysAccountedFor, Vault!Managed
  <2>5. Knows(p, "unpack")'
    BY <1>2, <2>1, <2>2 DEF Knows
  <2> QED
    BY <1>1, <2>1, <2>4, <2>5, CommandGoesOn DEF Durable, Vault!Steps
<1>8. CASE Vault!UnpackFile(p)
  <2>1. /\ meta # None /\ meta.key \in keyring /\ meta.marker /\ Vault!Managed \subseteq DOMAIN VaultBackup
        /\ UNCHANGED <<meta, journal, keyring, used, littered>>
    BY <1>1, <1>2, <1>8 DEF Durable, MetaFits, Vault!UnpackFile, Vault!Unpacking
  <2>2. PICK f \in todo[p] :
          /\ files' = [g \in Vault!Managed \cup {f} |->
               IF g = f THEN [key |-> meta.key, entries |-> VaultBackup[f]] ELSE files[g]]
          /\ stored' = [stored EXCEPT ![f] = VaultBackup[f]]
          /\ Vault!GoesOn(p, "unpack", todo[p] \ {f})
    BY <1>1, <1>8, <2>1 DEF Vault!UnpackFile
  <2>3. f \in Files /\ f \in DOMAIN VaultBackup /\ VaultBackup[f] \in SUBSET VaultEntries /\ meta.key \in Keys
    BY <1>1, <1>2, <1>4, <2>1, VaultHolds DEF Durable, DiskTyped, Vault!VaultAssumption
  <2>4. /\ Vault!Managed' = Vault!Managed \cup {f}
        /\ files'[f] = [key |-> meta.key, entries |-> VaultBackup[f]]
        /\ \A g \in Vault!Managed \ {f} : files'[g] = files[g]
    BY <2>2 DEF Vault!Managed
  <2>5. stored'[f] = VaultBackup[f] /\ \A g \in Files \ {f} : stored'[g] = stored[g]
    BY <1>1, <2>2, <2>3 DEF Durable, DiskTyped
  <2>6. DiskTyped'
    BY <1>1, <2>1, <2>2, <2>3, <2>4 DEF Durable, DiskTyped
  <2>7. MetaFits' /\ RotationFits'
    BY <1>1, <1>2, <1>3, <2>1, <2>3, <2>4 DEF Durable, MetaFits, RotationFits
  <2>8. EntriesFit' /\ Vault!KeysAccountedFor'
    <3>1. files'[f].entries = stored'[f]
      BY <2>4, <2>5
    <3>2. \A g \in Vault!Managed' : files'[g].entries = stored'[g]
      <4> SUFFICES ASSUME NEW g \in Vault!Managed', g # f PROVE files'[g].entries = stored'[g]
        BY <3>1
      <4>1. g \in Vault!Managed /\ g \in Files \ {f}
        BY <1>1, <2>4 DEF Durable, DiskTyped
      <4> QED
        BY <1>1, <2>4, <2>5, <4>1 DEF Durable, EntriesFit
    <3>3. EntriesFit'
      BY <1>1, <2>3, <2>4, <2>5, <3>2 DEF Durable, EntriesFit
    <3>4. Vault!KeysAccountedFor'
      BY <1>1, <2>1 DEF Durable, Vault!KeysAccountedFor
    <3> QED
      BY <3>3, <3>4
  <2>9. todo'[p] = todo[p] \ {f}
    BY <2>2 DEF Vault!GoesOn, VaultInv, CommandsTyped
  <2>10. Knows(p, "unpack")'
    BY <1>2, <2>1, <2>9 DEF Knows
  <2> QED
    BY <1>1, <2>2, <2>6, <2>7, <2>8, <2>10, CommandGoesOn DEF Durable, Vault!Steps
<1>9. CASE Vault!UnpackEnds(p)
  <2>1. /\ meta # None /\ meta.key \in keyring /\ meta.marker /\ meta' = [meta EXCEPT !.state = "ready"]
        /\ Vault!Ends(p, "ok") /\ UNCHANGED <<journal, files, stored, keyring, used, littered>>
    BY <1>9 DEF Vault!UnpackEnds, Vault!Unpacking
  <2>2. meta' \in Vault!Metas /\ meta'.key = meta.key /\ meta'.state = "ready" /\ meta'.marker
    BY <1>4, <2>1 DEF Vault!Metas, Vault!States
  <2>3. meta' # None
    BY <2>2, VaultHolds DEF Vault!VaultAssumption
  <2>4. DiskTyped' /\ MetaFits' /\ RotationFits' /\ EntriesFit' /\ Vault!KeysAccountedFor'
    BY <1>1, <1>3, <2>1, <2>2, <2>3
    DEF Durable, DiskTyped, MetaFits, RotationFits, EntriesFit, Vault!KeysAccountedFor, Vault!Managed
  <2> QED
    BY <1>1, <2>1, <2>4, CommandEnds DEF Durable, Vault!Outcomes
<1> QED
  BY <1>5, <1>6, <1>7, <1>8, <1>9

-----------------------------------------------------------------------------

LEMMA CommandBegins ==
  ASSUME VaultInv, NEW p \in Procs, Vault!Begin(p)
  PROVE  VaultInv' /\ Undamaged
<1>1. PICK c \in VaultCommands :
        /\ vaultCommand' = [vaultCommand EXCEPT ![p] = c]
        /\ \E e \in IF c = "edit" THEN Vault!Edits ELSE {None} : edit' = [edit EXCEPT ![p] = e]
        /\ vaultStep' = [vaultStep EXCEPT ![p] = Vault!FirstStep(c)]
        /\ littered' = (littered \/ c = "edit")
  BY DEF Vault!Begin
<1>2. PICK e \in IF c = "edit" THEN Vault!Edits ELSE {None} : edit' = [edit EXCEPT ![p] = e]
  BY <1>1
<1>3. c \in Vault!AllCommands
  BY VaultHolds DEF Vault!VaultAssumption
<1>4. /\ vaultHolder = None /\ vaultHolder' = p /\ outcome' = "none" /\ UNCHANGED <<loaded, todo>>
      /\ UNCHANGED <<Vault!disk, keyring, used>>
  BY DEF Vault!Begin
<1>5. Durable'
  <2>1. littered' \in BOOLEAN
    BY <1>1 DEF VaultInv, Durable, DiskTyped
  <2> QED
    BY <1>4, <2>1, DiskRests DEF VaultInv
<1>6. /\ Vault!FirstStep(c) \in {"ensure", "load", "stage", "rotate"}
      /\ Vault!FirstStep(c) = "load" => c = "edit"
      /\ Vault!FirstStep(c) = "ensure" => c = "init"
  BY <1>3 DEF Vault!FirstStep, Vault!AllCommands
<1>7. p # None /\ \A q \in Procs : vaultStep[q] = "idle"
  BY <1>4, VaultHolds DEF VaultInv, OneCommand, Vault!VaultAssumption
<1>8. /\ vaultStep'[p] = Vault!FirstStep(c) /\ vaultCommand'[p] = c /\ edit'[p] = e
      /\ \A q \in Procs \ {p} : vaultStep'[q] = "idle"
  BY <1>1, <1>2, <1>7 DEF VaultInv, CommandsTyped
<1>9. CommandsTyped'
  BY <1>1, <1>2, <1>3, <1>4, <1>6 DEF VaultInv, CommandsTyped, Vault!Steps, Vault!Outcomes
<1>10. OneCommand'
  BY <1>4, <1>6, <1>8 DEF OneCommand
<1>11. Knows(p, vaultStep[p])'
  BY <1>6, <1>8 DEF Knows
<1>12. \A q \in Procs \ {p} : Knows(q, vaultStep[q])'
  BY <1>8 DEF Knows
<1> QED
  BY <1>4, <1>5, <1>9, <1>10, <1>11, <1>12 DEF VaultInv, Undamaged

LEMMA BreakOffKeeps ==
  ASSUME VaultInv, NEW p \in Procs, Vault!BreakOff(p)
  PROVE  VaultInv' /\ Undamaged
<1>1. littered' \in BOOLEAN
  BY DEF VaultInv, Durable, DiskTyped, Vault!BreakOff
<1>2. Durable'
  BY <1>1, DiskRests DEF VaultInv, Vault!BreakOff
<1> QED
  BY <1>2, CommandEnds DEF Vault!BreakOff, Vault!Outcomes

\* Every step of any process keeps the invariant, and reports no damage.
LEMMA VaultKept ==
  ASSUME VaultInv, Vault!Next
  PROVE  VaultInv' /\ Undamaged
<1>1. PICK p \in Procs : Vault!Begin(p) \/ Vault!Step(p) \/ Vault!BreakOff(p)
  BY DEF Vault!Next
<1>2. CASE Vault!Begin(p)
  BY <1>2, CommandBegins
<1>3. CASE Vault!Step(p)
  BY <1>3, EnsureKeeps, LoadKeeps, PutKeeps, RotateKeeps, NewKeyKeeps, MarkKeeps, RewrapKeeps,
     CommitKeeps, SwitchKeeps, RetireKeeps, UnlinkKeeps, StageRestores, UnpackKeeps
  DEF Vault!Step
<1>4. CASE Vault!BreakOff(p)
  BY <1>4, BreakOffKeeps
<1> QED
  BY <1>1, <1>2, <1>3, <1>4

LEMMA VaultStutters ==
  ASSUME VaultInv, UNCHANGED vaultVars
  PROVE  VaultInv'
<1> USE DEF vaultVars
<1>1. Durable'
  BY DiskRests DEF VaultInv, Vault!disk, Durable, DiskTyped
<1>2. CommandsTyped' /\ OneCommand'
  BY DEF VaultInv, CommandsTyped, OneCommand
<1>3. \A p \in Procs : Knows(p, vaultStep[p])'
  BY DEF VaultInv, Knows, AtRest, Vault!Managed
<1> QED
  BY <1>1, <1>2, <1>3 DEF VaultInv

LEMMA VaultBegins == Vault!Init => VaultInv
<1> SUFFICES ASSUME Vault!Init PROVE VaultInv
  OBVIOUS
<1> USE DEF Vault!Init, Vault!Managed
<1>1. CommandsTyped
  BY DEF CommandsTyped, Vault!Steps, Vault!Outcomes
<1>2. OneCommand
  BY VaultHolds DEF OneCommand, Vault!VaultAssumption
<1>3. Durable
  BY DEF Durable, DiskTyped, MetaFits, RotationFits, EntriesFit, Vault!KeysAccountedFor
<1>4. \A p \in Procs : Knows(p, vaultStep[p])
  BY DEF Knows
<1> QED
  BY <1>1, <1>2, <1>3, <1>4 DEF VaultInv

\* Whatever number of processes initialize, edit, rotate, resume and restore,
\* and wherever each of them dies or fails: every secret and cookie that was
\* stored can be opened with a key that still exists, the key store holds no
\* key that nothing refers to, and a vault that was once ready is never found
\* damaged (VaultManager, SecretStore.rotate_key, VaultManager.restore).
THEOREM NoSecretIsLost == StoresSpec => SecretsStayReadable
<1>1. StoresInit => VaultInv
  BY VaultBegins DEF StoresInit
<1>2. [StoresNext]_storeVars => [Vault!Next]_vaultVars
  BY DEF StoresNext, Moves, storeVars, vaultVars
<1>3. VaultInv /\ [StoresNext]_storeVars => VaultInv'
  BY <1>2, VaultKept, VaultStutters
<1>4. VaultInv => Vault!NothingLost /\ Vault!KeysAccountedFor
  <2> SUFFICES ASSUME VaultInv, NEW f \in Vault!Managed PROVE files[f].key \in keyring
    BY DEF VaultInv, Durable, EntriesFit, Vault!NothingLost
  <2>1. meta # None
    BY DEF VaultInv, Durable, MetaFits
  <2>2. meta.marker /\ meta.key \in keyring
    BY <2>1 DEF VaultInv, Durable, MetaFits, DiskTyped, Vault!Metas, Vault!States
  <2>3. CASE journal = None
    BY <2>1, <2>2, <2>3 DEF VaultInv, Durable, MetaFits
  <2>4. CASE journal # None
    BY <2>1, <2>2, <2>4 DEF VaultInv, Durable, DiskTyped, RotationFits, Vault!Journals, Vault!Phases
  <2> QED
    BY <2>3, <2>4
<1>5. VaultInv /\ [StoresNext]_storeVars => [Undamaged]_(Vault!vars)
  BY <1>2, VaultKept DEF vaultVars, Vault!vars
<1>6. [Undamaged]_(Vault!vars) => [outcome' = "damaged" => meta # None /\ ~meta.marker]_(Vault!vars)
  BY DEF Undamaged
<1> QED
  BY <1>1, <1>3, <1>4, <1>5, <1>6, PTL DEF StoresSpec, SecretsStayReadable, Vault!NeverDamaged

-----------------------------------------------------------------------------
(***************************************************************************)
(* The cookies of a profile (CookieJar).                                   *)
(***************************************************************************)

JarsTyped ==
  /\ now \in Nat
  /\ cookies \in Cookies!Jars
  /\ baseline \in [Services -> Cookies!Jars \cup {None}]
  /\ current \in [Services -> Cookies!Jars \cup {None}]
  /\ touched \in [Services -> SUBSET Names]

\* The inductive invariant: what no server touched in a session is as it was
\* loaded, unless it expired.
JarInv ==
  /\ JarsTyped
  /\ \A s \in Services, k \in Names :
       current[s] # None /\ k \notin touched[s] =>
         /\ baseline[s] # None
         /\ \/ current[s][k] = baseline[s][k]
            \/ current[s][k] = None /\ Cookies!Expired(baseline[s][k])

\* What a step may do to the stored cookies.
OnlyOwn ==
  \A s \in Services, k \in Names :
    /\ Cookies!Persist(s) /\ cookies'[k] # cookies[k]
    /\ ~(Cookies!Expired(cookies[k]) /\ cookies'[k] = None)
    => k \in touched[s]

KeptLonger(k) ==
  cookies[k] # None /\ ~Cookies!Expired(cookies[k]) /\ cookies'[k] # None
    /\ cookies'[k].value = cookies[k].value
  => Cookies!Later(cookies'[k].expires, cookies[k].expires)

LEMMA CookieTypes ==
  /\ Cookies!CookieAssumption
  /\ \A c \in Cookies!Cookies : c.expires = Session \/ c.expires \in Nat
BY StoresAssumption DEF Cookies!CookieAssumption, Cookies!Cookies, Cookies!Expiries

LEMMA FreshJar ==
  ASSUME NEW jar \in Cookies!Jars
  PROVE  /\ Cookies!Fresh(jar) \in Cookies!Jars
         /\ \A k \in Names : Cookies!Fresh(jar)[k] = IF Cookies!Expired(jar[k]) THEN None ELSE jar[k]
BY DEF Cookies!Fresh, Cookies!Jars

\* Of two expiries of a value the later one stays.
LEMMA LaterStays ==
  ASSUME NEW c \in Cookies!Cookies, NEW d \in Cookies!Cookies \cup {None}
  PROVE  /\ Cookies!Resolved(c, d) \in Cookies!Cookies
         /\ d # None /\ Cookies!Resolved(c, d).value = d.value =>
              Cookies!Later(Cookies!Resolved(c, d).expires, d.expires)
<1>1. CASE /\ d # None /\ d.value = c.value /\ d.expires # Session
           /\ c.expires = Session \/ d.expires > c.expires
  <2>1. d \in Cookies!Cookies /\ Cookies!Resolved(c, d) = [c EXCEPT !.expires = d.expires]
    BY <1>1 DEF Cookies!Resolved
  <2>2. Cookies!Resolved(c, d) \in Cookies!Cookies /\ Cookies!Resolved(c, d).expires = d.expires
    BY <2>1 DEF Cookies!Cookies
  <2> QED
    BY <1>1, <2>1, <2>2, CookieTypes DEF Cookies!Later
<1>2. CASE ~(/\ d # None /\ d.value = c.value /\ d.expires # Session
             /\ c.expires = Session \/ d.expires > c.expires)
  <2>1. Cookies!Resolved(c, d) = c
    BY <1>2 DEF Cookies!Resolved
  <2> QED
    BY <1>2, <2>1, CookieTypes DEF Cookies!Later
<1> QED
  BY <1>1, <1>2

LEMMA PersistKeeps ==
  ASSUME JarInv, NEW s \in Services, Cookies!Persist(s)
  PROVE  cookies' \in Cookies!Jars /\ \A k \in Names : KeptLonger(k)
           /\ (k \notin touched[s] /\ cookies'[k] # cookies[k] =>
                 Cookies!Expired(cookies[k]) /\ cookies'[k] = None)
<1>1. current[s] # None /\ current[s] \in Cookies!Jars
  BY DEF JarInv, JarsTyped, Cookies!Persist
<1>2. CASE UNCHANGED cookies
  <2>1. \A k \in Names : KeptLonger(k)
    BY <1>2, CookieTypes DEF KeptLonger, Cookies!Later, JarInv, JarsTyped, Cookies!Jars
  <2> QED
    BY <1>2, <2>1 DEF JarInv, JarsTyped
<1>3. CASE cookies' = Cookies!Persisted(s)
  <2> DEFINE latest == Cookies!Fresh(cookies)
  <2>1. latest \in Cookies!Jars
        /\ \A k \in Names : latest[k] = IF Cookies!Expired(cookies[k]) THEN None ELSE cookies[k]
    BY FreshJar DEF JarInv, JarsTyped
  <2>2. cookies' = [k \in Names |-> IF k \in Cookies!Deletes(s) THEN None
                                   ELSE IF k \in Cookies!Changes(s)
                                     THEN Cookies!Resolved(current[s][k], latest[k])
                                   ELSE latest[k]]
    BY <1>3 DEF Cookies!Persisted
  <2> HIDE DEF latest
  <2>3. ASSUME NEW k \in Cookies!Changes(s)
        PROVE  k \in Names /\ current[s][k] \in Cookies!Cookies /\ current[s][k] # baseline[s][k]
    BY <1>1 DEF Cookies!Changes, Cookies!Differs, Cookies!Jars
  <2>4. ASSUME NEW k \in Names
        PROVE  cookies'[k] \in Cookies!Cookies \cup {None} /\ KeptLonger(k)
    <3>1. CASE k \in Cookies!Deletes(s)
      BY <2>2, <3>1 DEF KeptLonger
    <3>2. CASE k \notin Cookies!Deletes(s) /\ k \in Cookies!Changes(s)
      <4>1. cookies'[k] = Cookies!Resolved(current[s][k], latest[k])
        BY <2>2, <3>2
      <4>2. latest[k] \in Cookies!Cookies \cup {None}
        BY <2>1 DEF Cookies!Jars
      <4> QED
        BY <2>1, <2>3, <3>2, <4>1, <4>2, LaterStays DEF KeptLonger
    <3>3. CASE k \notin Cookies!Deletes(s) /\ k \notin Cookies!Changes(s)
      <4>1. cookies'[k] = latest[k]
        BY <2>2, <3>3
      <4>2. latest[k] \in Cookies!Cookies \cup {None}
        BY <2>1 DEF Cookies!Jars
      <4> QED
        BY <2>1, <4>1, <4>2, CookieTypes DEF KeptLonger, Cookies!Later
    <3> QED
      BY <3>1, <3>2, <3>3
  <2>5. cookies' \in Cookies!Jars
    BY <2>2, <2>4 DEF Cookies!Jars
  <2>6. ASSUME NEW k \in Names, k \notin touched[s]
        PROVE  cookies'[k] = IF Cookies!Expired(cookies[k]) THEN None ELSE cookies[k]
    <3>1. \/ current[s][k] = baseline[s][k]
          \/ current[s][k] = None /\ Cookies!Expired(baseline[s][k])
      BY <1>1, <2>6 DEF JarInv
    <3>2. k \notin Cookies!Deletes(s) /\ k \notin Cookies!Changes(s)
      BY <3>1 DEF Cookies!Deletes, Cookies!Changes, Cookies!Differs
    <3> QED
      BY <2>1, <2>2, <2>6, <3>2
  <2> QED
    BY <2>4, <2>5, <2>6
<1> QED
  BY <1>2, <1>3 DEF Cookies!Persist

LEMMA ImportKeeps ==
  ASSUME JarInv, NEW n \in Names, NEW c \in Cookies!Cookies, Cookies!Import(n, c)
  PROVE  cookies' \in Cookies!Jars /\ \A k \in Names : KeptLonger(k)
<1>1. CASE UNCHANGED cookies
  BY <1>1, CookieTypes DEF KeptLonger, Cookies!Later, JarInv, JarsTyped, Cookies!Jars
<1>2. CASE ~UNCHANGED cookies
  <2> DEFINE latest == Cookies!Fresh(cookies)
  <2>1. latest \in Cookies!Jars
        /\ \A k \in Names : latest[k] = IF Cookies!Expired(cookies[k]) THEN None ELSE cookies[k]
    BY FreshJar DEF JarInv, JarsTyped
  <2>2. cookies' = [latest EXCEPT ![n] = Cookies!Resolved(c, latest[n])]
    BY <1>2 DEF Cookies!Import
  <2> HIDE DEF latest
  <2>3. latest[n] \in Cookies!Cookies \cup {None}
    BY <2>1 DEF Cookies!Jars
  <2>4. Cookies!Resolved(c, latest[n]) \in Cookies!Cookies
    BY <2>3, LaterStays
  <2>5. cookies' \in Cookies!Jars
    BY <2>1, <2>2, <2>4 DEF Cookies!Jars
  <2>6. KeptLonger(n)
    <3>1. cookies'[n] = Cookies!Resolved(c, latest[n])
      BY <2>1, <2>2 DEF Cookies!Jars
    <3> QED
      BY <2>1, <2>3, <3>1, LaterStays DEF KeptLonger
  <2>7. ASSUME NEW k \in Names, k # n PROVE KeptLonger(k)
    <3>1. cookies'[k] = latest[k] /\ latest[k] \in Cookies!Cookies \cup {None}
      BY <2>1, <2>2, <2>7 DEF Cookies!Jars
    <3> QED
      BY <2>1, <3>1, CookieTypes DEF KeptLonger, Cookies!Later
  <2> QED
    BY <2>5, <2>6, <2>7
<1> QED
  BY <1>1, <1>2

\* A jar that rests keeps its expiries.
LEMMA NothingShortened ==
  ASSUME JarInv, UNCHANGED cookies
  PROVE  cookies' \in Cookies!Jars /\ \A k \in Names : KeptLonger(k)
BY CookieTypes DEF KeptLonger, Cookies!Later, JarInv, JarsTyped, Cookies!Jars

LEMMA JarKept ==
  ASSUME JarInv, Cookies!Next
  PROVE  JarInv' /\ OnlyOwn /\ \A k \in Names : KeptLonger(k)
<1> USE DEF JarInv
<1>1. OnlyOwn
  BY PersistKeeps DEF OnlyOwn
<1>2. ASSUME NEW s \in Services, Cookies!Open(s) PROVE JarInv' /\ \A k \in Names : KeptLonger(k)
  <2>1. Cookies!Fresh(cookies) \in Cookies!Jars
    BY FreshJar DEF JarsTyped
  <2>2. JarsTyped'
    BY <1>2, <2>1 DEF JarsTyped, Cookies!Open
  <2>3. ASSUME NEW q \in Services, NEW k \in Names, current'[q] # None, k \notin touched'[q]
        PROVE  baseline'[q] # None /\ \/ current'[q][k] = baseline'[q][k]
                                      \/ current'[q][k] = None /\ Cookies!Expired(baseline[q][k])'
    BY <1>2, <2>1, <2>3 DEF JarsTyped, Cookies!Open, Cookies!Expired
  <2>4. UNCHANGED cookies
    BY <1>2 DEF Cookies!Open
  <2> QED
    BY <2>2, <2>3, <2>4, NothingShortened
<1>3. ASSUME NEW s \in Services, Cookies!Request(s) PROVE JarInv' /\ \A k \in Names : KeptLonger(k)
  <2>1. current[s] \in Cookies!Jars /\ current' = [current EXCEPT ![s] = Cookies!Fresh(current[s])]
    BY <1>3 DEF JarsTyped, Cookies!Request
  <2>2. /\ Cookies!Fresh(current[s]) \in Cookies!Jars
        /\ \A k \in Names : Cookies!Fresh(current[s])[k] = IF Cookies!Expired(current[s][k]) THEN None
                                                           ELSE current[s][k]
    BY <2>1, FreshJar
  <2>3. UNCHANGED <<now, cookies, baseline, touched>> /\ current[s] # None
    BY <1>3 DEF Cookies!Request
  <2>4. JarsTyped'
    BY <2>1, <2>2, <2>3 DEF JarsTyped
  <2>5. ASSUME NEW q \in Services, NEW k \in Names, current'[q] # None, k \notin touched'[q]
        PROVE  baseline'[q] # None /\ \/ current'[q][k] = baseline'[q][k]
                                      \/ current'[q][k] = None /\ Cookies!Expired(baseline[q][k])'
    BY <2>1, <2>2, <2>3, <2>5 DEF JarsTyped, Cookies!Expired
  <2> QED
    BY <2>3, <2>4, <2>5, NothingShortened
<1>4. ASSUME NEW s \in Services, Cookies!Closed(s), cookies' \in Cookies!Jars PROVE JarInv'
  <2>1. JarsTyped'
    BY <1>4 DEF JarsTyped, Cookies!Closed
  <2>2. ASSUME NEW q \in Services, NEW k \in Names, current'[q] # None, k \notin touched'[q]
        PROVE  baseline'[q] # None /\ \/ current'[q][k] = baseline'[q][k]
                                      \/ current'[q][k] = None /\ Cookies!Expired(baseline[q][k])'
    BY <1>4, <2>2 DEF JarsTyped, Cookies!Closed, Cookies!Expired
  <2> QED
    BY <2>1, <2>2
<1>5. ASSUME NEW s \in Services, Cookies!Persist(s) PROVE JarInv' /\ \A k \in Names : KeptLonger(k)
  BY <1>4, <1>5, PersistKeeps DEF Cookies!Persist
<1>6. ASSUME NEW s \in Services, Cookies!Drop(s) PROVE JarInv' /\ \A k \in Names : KeptLonger(k)
  BY <1>4, <1>6, NothingShortened DEF Cookies!Drop
<1>7. ASSUME NEW s \in Services, NEW n \in Names, Cookies!Receive(s, n)
      PROVE  JarInv' /\ \A k \in Names : KeptLonger(k)
  <2>1. PICK c \in Cookies!Cookies \cup {None} :
          current' = [current EXCEPT ![s] = [current[s] EXCEPT ![n] = c]]
    BY <1>7 DEF Cookies!Receive
  <2>2. current[s] # None /\ touched' = [touched EXCEPT ![s] = touched[s] \cup {n}]
        /\ UNCHANGED <<now, cookies, baseline>>
    BY <1>7 DEF Cookies!Receive
  <2>3. current[s] \in Cookies!Jars /\ [current[s] EXCEPT ![n] = c] \in Cookies!Jars
    BY <2>2 DEF JarsTyped, Cookies!Jars
  <2>4. JarsTyped'
    BY <2>1, <2>2, <2>3 DEF JarsTyped
  <2>5. ASSUME NEW q \in Services, NEW k \in Names, current'[q] # None, k \notin touched'[q]
        PROVE  baseline'[q] # None /\ \/ current'[q][k] = baseline'[q][k]
                                      \/ current'[q][k] = None /\ Cookies!Expired(baseline[q][k])'
    <3>1. current[q] # None /\ k \notin touched[q] /\ (q = s => k # n)
      BY <2>1, <2>2, <2>5 DEF JarsTyped
    <3>2. current'[q][k] = current[q][k]
      BY <2>1, <2>3, <3>1 DEF JarsTyped, Cookies!Jars
    <3> QED
      BY <2>2, <3>1, <3>2 DEF Cookies!Expired
  <2> QED
    BY <2>2, <2>4, <2>5, NothingShortened
<1>8. ASSUME NEW n \in Names, NEW c \in Cookies!Cookies, Cookies!Import(n, c)
      PROVE  JarInv' /\ \A k \in Names : KeptLonger(k)
  <2>1. cookies' \in Cookies!Jars /\ \A k \in Names : KeptLonger(k)
    BY <1>8, ImportKeeps
  <2> QED
    BY <1>8, <2>1 DEF Cookies!Import, JarsTyped, Cookies!Expired
<1>9. CASE Cookies!Tick
  <2>1. JarsTyped' /\ UNCHANGED <<cookies, baseline, current, touched>> /\ now' = now + 1
    BY <1>9 DEF Cookies!Tick, JarsTyped
  <2>2. ASSUME NEW q \in Services, NEW k \in Names, baseline[q] # None, Cookies!Expired(baseline[q][k])
        PROVE  Cookies!Expired(baseline[q][k])'
    <3>1. baseline[q][k] \in Cookies!Cookies
      BY <2>2 DEF JarsTyped, Cookies!Jars, Cookies!Expired
    <3>2. baseline[q][k].expires \in Nat
      BY <2>2, <3>1, CookieTypes DEF Cookies!Expired
    <3> QED
      BY <2>1, <2>2, <3>2 DEF Cookies!Expired, JarsTyped
  <2>3. ASSUME NEW q \in Services, NEW k \in Names, current'[q] # None, k \notin touched'[q]
        PROVE  baseline'[q] # None /\ \/ current'[q][k] = baseline'[q][k]
                                      \/ current'[q][k] = None /\ Cookies!Expired(baseline[q][k])'
    BY <2>1, <2>2, <2>3
  <2> QED
    BY <1>1, <2>1, <2>3, NothingShortened
<1> QED
  BY <1>1, <1>2, <1>3, <1>5, <1>6, <1>7, <1>8, <1>9 DEF Cookies!Next

\* Whatever number of services of a profile run at the same time, whatever
\* servers set and delete in them, when anything expires and in which order the
\* services close or are dropped: a close changes, deletes or brings back a
\* cookie only when a server touched it in that session (what has expired may
\* go), and no expiry of a value that stays is made shorter (CookieStore.persist_delta, _resolved_cookie).
THEOREM JarsAreMerged == StoresSpec => JarIsMerged
<1>1. StoresInit => JarInv
  BY StoresAssumption DEF StoresInit, Cookies!Init, JarInv, JarsTyped, Cookies!Jars
<1>2. [StoresNext]_storeVars => [Cookies!Next]_cookieVars
  BY DEF StoresNext, Moves, storeVars, cookieVars
<1>3. JarInv /\ UNCHANGED cookieVars => JarInv'
  BY DEF JarInv, JarsTyped, cookieVars, Cookies!Expired
<1>4. JarInv /\ [StoresNext]_storeVars => JarInv'
  BY <1>2, <1>3, JarKept
<1>5. JarInv /\ [StoresNext]_storeVars => [OnlyOwn /\ \A k \in Names : KeptLonger(k)]_(Cookies!vars)
  BY <1>2, JarKept DEF cookieVars, Cookies!vars
<1>6. [OnlyOwn /\ \A k \in Names : KeptLonger(k)]_(Cookies!vars) =>
        /\ [\A s \in Services, k \in Names :
              /\ Cookies!Persist(s) /\ cookies'[k] # cookies[k]
              /\ ~(Cookies!Expired(cookies[k]) /\ cookies'[k] = None)
              => k \in touched[s]]_(Cookies!vars)
        /\ [\A k \in Names :
              cookies[k] # None /\ ~Cookies!Expired(cookies[k]) /\ cookies'[k] # None
                /\ cookies'[k].value = cookies[k].value
              => Cookies!Later(cookies'[k].expires, cookies[k].expires)]_(Cookies!vars)
  BY DEF OnlyOwn, KeptLonger
<1> QED
  BY <1>1, <1>4, <1>5, <1>6, PTL DEF StoresSpec, JarIsMerged, Cookies!OnlyOwnChanges,
    Cookies!NeverShortened

-----------------------------------------------------------------------------
(***************************************************************************)
(* The update state of a profile (UpdateState).                            *)
(***************************************************************************)

\* The inductive invariant: what is recorded of a source is filed under its
\* identity, a process that fetches has no answer to return, and what was told
\* of a source amounts to what is recorded, save what answers still tell.
UpdatesInv ==
  /\ \A k \in DOMAIN legacy : Updates!IsCandidate(legacy[k])
  /\ DOMAIN sources = Feeds /\ DOMAIN told = Feeds /\ DOMAIN owed = Feeds
  /\ DOMAIN fetched = Checkers /\ DOMAIN answers \subseteq Checkers
  /\ \A p \in Checkers : fetched[p] # None =>
       fetched[p].source \in Feeds /\ fetched[p].page \in Pages /\ p \notin DOMAIN answers
  /\ \A p \in DOMAIN answers :
       answers[p].source \in Feeds /\ answers[p].gone \cap DOMAIN answers[p].news = {}
  /\ \A s \in Feeds : sources[s] = None => DOMAIN owed[s] = {}
  /\ \A s \in Feeds : sources[s] # None => \A k \in DOMAIN sources[s] :
       Updates!IsCandidate(sources[s][k]) /\ Updates!Identity(sources[s][k]) = k
  /\ Updates!ChangesAddUp

LEMMA UpdatesHold == Updates!UpdateAssumption
BY StoresAssumption

LEMMA SameCandidate ==
  ASSUME NEW c, NEW d, Updates!IsCandidate(c), Updates!IsCandidate(d),
         Updates!Identity(c) = Updates!Identity(d), c.url = d.url, c.rev = d.rev
  PROVE  c = d
<1>1. c.id = d.id
  BY DEF Updates!Identity
<1> QED
  BY <1>1 DEF Updates!IsCandidate

\* Candidates of different identities are recorded one by one.
LEMMA RecordsOf ==
  ASSUME NEW C, \A c, d \in C : Updates!Identity(c) = Updates!Identity(d) => c = d
  PROVE  /\ DOMAIN Updates!Records(C) = {Updates!Identity(c) : c \in C}
         /\ \A c \in C : Updates!Records(C)[Updates!Identity(c)] = c
<1>1. DOMAIN Updates!Records(C) = {Updates!Identity(c) : c \in C}
  BY DEF Updates!Records
<1>2. ASSUME NEW c \in C PROVE Updates!Records(C)[Updates!Identity(c)] = c
  <2>1. Updates!Records(C)[Updates!Identity(c)] = CHOOSE d \in C : Updates!Identity(d) = Updates!Identity(c)
    BY DEF Updates!Records
  <2>2. \E d \in C : Updates!Identity(d) = Updates!Identity(c)
    OBVIOUS
  <2>3. /\ (CHOOSE d \in C : Updates!Identity(d) = Updates!Identity(c)) \in C
        /\ Updates!Identity(CHOOSE d \in C : Updates!Identity(d) = Updates!Identity(c)) = Updates!Identity(c)
    BY <2>2
  <2> QED
    BY <2>1, <2>3
<1> QED
  BY <1>1, <1>2

\* What a candidate is compared with has its identity.
LEMMA OldIsTheSame ==
  ASSUME UpdatesInv, NEW s \in Feeds, NEW c, Updates!IsCandidate(c), Updates!OldOf(s, c) # None
  PROVE  Updates!IsCandidate(Updates!OldOf(s, c))
         /\ Updates!Identity(Updates!OldOf(s, c)) = Updates!Identity(c)
<1>1. CASE sources[s] = None
  <2> DEFINE key == <<FeedPlugins[s], IF c.id # None THEN c.id ELSE c.url>>
  <2>1. /\ Updates!OldOf(s, c) = legacy[key] /\ key \in DOMAIN legacy
        /\ legacy[key].url = c.url /\ legacy[key].id = c.id
    BY <1>1 DEF Updates!OldOf, Updates!LegacyMatch
  <2> QED
    BY <2>1 DEF UpdatesInv, Updates!Identity
<1>2. CASE sources[s] # None
  BY <1>2 DEF UpdatesInv, Updates!OldOf
<1> QED
  BY <1>1, <1>2

KnownBefore(s, page) ==
  IF sources[s] # None THEN sources[s]
  ELSE Updates!Records({Updates!OldOf(s, c) : c \in Updates!Range(page)} \ {None})

\* The answer to a snapshot is the difference between the snapshot and what was
\* recorded before, or known from version 1.
LEMMA AnswerIsDifference ==
  ASSUME UpdatesInv, NEW s \in Feeds, NEW page \in Pages, ~Updates!Repeats(page),
         NEW R, R = Updates!Range(page), NEW answer, answer = Updates!Answer(s, page),
         NEW known, known = KnownBefore(s, page)
  PROVE  /\ answer.source = s /\ answer.gone \cap DOMAIN answer.news = {}
         /\ \A k \in answer.gone : k \notin DOMAIN Updates!Records(R)
         /\ \A k \in DOMAIN answer.news : Updates!AgreeAt(answer.news, Updates!Records(R), k)
         /\ \A k : k \notin DOMAIN answer.news \cup answer.gone => Updates!AgreeAt(known, Updates!Records(R), k)
<1> DEFINE ids == {Updates!Identity(c) : c \in R}
           fresh == Updates!Added(s, page) \cup Updates!Changed(s, page)
           news == Updates!Records(fresh)
           old == {Updates!OldOf(s, c) : c \in R} \ {None}
           gone == {Updates!Identity(c) : c \in Updates!Removed(s, page)}
<1>1. \A c \in R : Updates!IsCandidate(c)
  BY UpdatesHold DEF Updates!UpdateAssumption, Updates!Range
<1>2. \A c, d \in R : Updates!Identity(c) = Updates!Identity(d) => c = d
  BY DEF Updates!Repeats, Updates!Range
<1>3. DOMAIN Updates!Records(R) = ids /\ \A c \in R : Updates!Records(R)[Updates!Identity(c)] = c
  BY <1>2, RecordsOf
<1>4. fresh \subseteq R
  BY DEF Updates!Added, Updates!Changed
<1>5. DOMAIN news = {Updates!Identity(c) : c \in fresh} /\ \A c \in fresh : news[Updates!Identity(c)] = c
  <2> HIDE DEF fresh
  <2>1. \A c, d \in fresh : Updates!Identity(c) = Updates!Identity(d) => c = d
    BY <1>2, <1>4
  <2> QED
    BY <2>1, RecordsOf
<1>6. ASSUME NEW c \in R \ fresh PROVE Updates!OldOf(s, c) = c
  <2>1. Updates!OldOf(s, c) # None /\ Updates!OldOf(s, c).url = c.url /\ Updates!OldOf(s, c).rev = c.rev
    BY <1>6 DEF Updates!Added, Updates!Changed
  <2> QED
    BY <1>1, <2>1, OldIsTheSame, SameCandidate
<1>7. /\ \A c \in R \ fresh : Updates!Identity(c) \in DOMAIN known \ gone /\ known[Updates!Identity(c)] = c
      /\ DOMAIN known \ gone \subseteq ids
      /\ gone \cap ids = {}
  <2>1. CASE sources[s] # None
    <3>1. known = sources[s]
      BY <2>1 DEF KnownBefore
    <3>2. gone = DOMAIN sources[s] \ ids
      <4>1. Updates!Removed(s, page) = {sources[s][k] : k \in DOMAIN sources[s] \ ids}
        BY <1>3, <2>1 DEF Updates!Removed
      <4> QED
        BY <2>1, <4>1 DEF UpdatesInv
    <3>3. ASSUME NEW c \in R, Updates!OldOf(s, c) = c
          PROVE  Updates!Identity(c) \in DOMAIN sources[s] /\ sources[s][Updates!Identity(c)] = c
      <4>1. c # None
        BY <1>1 DEF Updates!IsCandidate
      <4> QED
        BY <2>1, <3>3, <4>1 DEF Updates!OldOf
    <3> HIDE DEF fresh, gone, ids
    <3>4. \A c \in R : Updates!Identity(c) \in ids
      BY DEF ids
    <3> QED
      BY <1>6, <3>1, <3>2, <3>3, <3>4
  <2>2. CASE sources[s] = None
    <3>1. known = Updates!Records(old) /\ gone = {}
      BY <2>2 DEF Updates!Removed, KnownBefore
    <3>2. ASSUME NEW c \in R, Updates!OldOf(s, c) # None
          PROVE  Updates!Identity(Updates!OldOf(s, c)) = Updates!Identity(c)
      BY <1>1, <3>2, OldIsTheSame
    <3>3. \A o \in old : \E c \in R : o = Updates!OldOf(s, c) /\ Updates!Identity(o) = Updates!Identity(c)
      BY <3>2
    <3>4. \A c \in R \ fresh : c \in old
      <4> SUFFICES ASSUME NEW c \in R \ fresh PROVE c \in old
        OBVIOUS
      <4>1. Updates!OldOf(s, c) = c /\ c # None
        BY <1>1, <1>6 DEF Updates!IsCandidate
      <4> QED
        BY <4>1
    <3> HIDE DEF fresh, old, gone
    <3>5. \A o, q \in old : Updates!Identity(o) = Updates!Identity(q) => o = q
      BY <1>2, <3>3
    <3>6. /\ DOMAIN Updates!Records(old) = {Updates!Identity(o) : o \in old}
          /\ \A o \in old : Updates!Records(old)[Updates!Identity(o)] = o
      BY <3>5, RecordsOf
    <3>7. DOMAIN known \subseteq ids
      BY <3>1, <3>3, <3>6
    <3>8. \A c \in R \ fresh : Updates!Identity(c) \in DOMAIN known /\ known[Updates!Identity(c)] = c
      BY <3>1, <3>4, <3>6
    <3> HIDE DEF ids
    <3> QED
      BY <3>1, <3>7, <3>8
  <2> QED
    BY <2>1, <2>2
<1>8. answer = [source |-> s, news |-> news, gone |-> gone]
  BY DEF Updates!Answer
<1> HIDE DEF fresh, news, old, gone
<1>9. answer.source = s /\ answer.news = news /\ answer.gone = gone
  BY <1>8
<1>10. DOMAIN news \subseteq ids /\ \A k \in DOMAIN news : news[k] = Updates!Records(R)[k]
  BY <1>3, <1>4, <1>5
<1>11. ASSUME NEW k, k \notin DOMAIN news \cup gone
       PROVE  Updates!AgreeAt(known, Updates!Records(R), k)
  <2>1. CASE k \in ids
    <3>1. PICK c \in R : k = Updates!Identity(c)
      BY <2>1
    <3>2. c \notin fresh
      BY <1>5, <1>11, <3>1
    <3> QED
      BY <1>3, <1>7, <2>1, <3>1, <3>2 DEF Updates!AgreeAt
  <2>2. CASE k \notin ids
    BY <1>3, <1>7, <1>11, <2>2 DEF Updates!AgreeAt
  <2> QED
    BY <2>1, <2>2
<1> HIDE DEF ids
<1>12. \A k \in DOMAIN news : Updates!AgreeAt(news, Updates!Records(R), k)
  BY <1>3, <1>10 DEF Updates!AgreeAt
<1> QED
  BY <1>3, <1>7, <1>9, <1>10, <1>11, <1>12

\* What was told of source s amounts to what is recorded, but for what is owed.
AddsUp(s) ==
  /\ \A k : k \notin DOMAIN owed[s] => Updates!AgreeAt(told[s], Updates!Recorded(s), k)
  /\ \A k \in DOMAIN owed[s] : owed[s][k] # Updates!Lost =>
       LET answer == answers[owed[s][k]] IN
       /\ owed[s][k] \in DOMAIN answers /\ answer.source = s
       /\ k \in answer.gone \/ k \in DOMAIN answer.news
       /\ IF k \in answer.gone THEN k \notin DOMAIN Updates!Recorded(s)
          ELSE Updates!AgreeAt(answer.news, Updates!Recorded(s), k)

LEMMA SourcesAddUp ==
  /\ Updates!ChangesAddUp <=> \A s \in Feeds : AddsUp(s)
  /\ Updates!ChangesAddUp' <=> \A s \in Feeds : AddsUp(s)'
BY DEF Updates!ChangesAddUp, AddsUp, Updates!AgreeAt

LEMMA SnapshotKept ==
  ASSUME UpdatesInv, NEW p \in Checkers, Updates!Persist(p)
  PROVE  UpdatesInv'
<1> SUFFICES ASSUME NEW s, s = fetched[p].source, NEW page, page = fetched[p].page
             PROVE  UpdatesInv'
  OBVIOUS
<1> DEFINE R == Updates!Range(page)
           new == Updates!Records(R)
           answer == Updates!Answer(s, page)
           stirred == DOMAIN answer.news \cup answer.gone
           old == Updates!Records({Updates!OldOf(s, c) : c \in R} \ {None})
           known == KnownBefore(s, page)
<1>1. /\ s \in Feeds /\ page \in Pages /\ ~Updates!Repeats(page) /\ p \notin DOMAIN answers
      /\ sources' = [sources EXCEPT ![s] = new]
      /\ fetched' = [fetched EXCEPT ![p] = None]
      /\ answers' = [q \in DOMAIN answers \cup {p} |-> IF q = p THEN answer ELSE answers[q]]
      /\ told' = IF sources[s] # None THEN told ELSE [told EXCEPT ![s] = old]
      /\ owed' = [owed EXCEPT ![s] = [k \in DOMAIN owed[s] \cup stirred |-> IF k \in stirred THEN p ELSE owed[s][k]]]
      /\ legacy' = legacy
  BY DEF UpdatesInv, Updates!Persist
<1>2. /\ answer.source = s /\ answer.gone \cap DOMAIN answer.news = {}
      /\ \A k \in answer.gone : k \notin DOMAIN new
      /\ \A k \in DOMAIN answer.news : Updates!AgreeAt(answer.news, new, k)
      /\ \A k : k \notin stirred => Updates!AgreeAt(known, new, k)
  <2>1. DOMAIN sources = Feeds
    BY DEF UpdatesInv
  <2> QED
    BY <1>1, AnswerIsDifference
<1>3. new # None /\ \A c \in R : Updates!IsCandidate(c)
  BY <1>1, UpdatesHold DEF Updates!UpdateAssumption, Updates!Range
<1>4. \A c, d \in R : Updates!Identity(c) = Updates!Identity(d) => c = d
  BY <1>1 DEF Updates!Repeats, Updates!Range
<1>5. /\ DOMAIN new = {Updates!Identity(c) : c \in R}
      /\ \A c \in R : new[Updates!Identity(c)] = c
  BY <1>4, RecordsOf
<1>0. known = IF sources[s] # None THEN sources[s] ELSE old
  BY DEF KnownBefore
<1> HIDE DEF R, new, answer, old, known
<1>6. \A k \in DOMAIN new : Updates!IsCandidate(new[k]) /\ Updates!Identity(new[k]) = k
  BY <1>3, <1>5
<1>7. /\ DOMAIN sources' = Feeds /\ DOMAIN told' = Feeds /\ DOMAIN owed' = Feeds
      /\ DOMAIN fetched' = Checkers /\ DOMAIN answers' = DOMAIN answers \cup {p}
      /\ \A t \in Feeds \ {s} : sources'[t] = sources[t] /\ told'[t] = told[t] /\ owed'[t] = owed[t]
      /\ \A q \in DOMAIN answers : answers'[q] = answers[q]
      /\ \A q \in Checkers \ {p} : fetched'[q] = fetched[q]
      /\ fetched'[p] = None /\ answers'[p] = answer /\ sources'[s] = new
      /\ told'[s] = IF sources[s] # None THEN told[s] ELSE old
      /\ owed'[s] = [k \in DOMAIN owed[s] \cup stirred |-> IF k \in stirred THEN p ELSE owed[s][k]]
  BY <1>1 DEF UpdatesInv
<1>8. \A t \in Feeds : AddsUp(t)
  BY SourcesAddUp DEF UpdatesInv
<1>9. \A t \in Feeds \ {s} : AddsUp(t)'
  BY <1>7, <1>8 DEF AddsUp, Updates!Recorded, UpdatesInv
<1>10. AddsUp(s)'
  <2>1. Updates!Recorded(s)' = new
    BY <1>1, <1>3, <1>7 DEF Updates!Recorded
  <2>2. sources[s] = None => DOMAIN owed[s] = {}
    BY <1>1 DEF UpdatesInv
  <2>3. ASSUME NEW k, k \notin DOMAIN owed[s], k \notin stirred
        PROVE  Updates!AgreeAt(told'[s], new, k)
    <3>1. CASE sources[s] # None
      <4>1. Updates!AgreeAt(told[s], sources[s], k)
        BY <1>1, <1>8, <2>3, <3>1 DEF AddsUp, Updates!Recorded
      <4> QED
        BY <1>0, <1>2, <1>7, <2>3, <3>1, <4>1 DEF Updates!AgreeAt
    <3>2. CASE sources[s] = None
      BY <1>0, <1>2, <1>7, <2>3, <3>2
    <3> QED
      BY <3>1, <3>2
  <2>4. ASSUME NEW k \in DOMAIN owed[s], k \notin stirred, owed[s][k] # Updates!Lost
        PROVE  LET a == answers[owed[s][k]] IN
               /\ owed[s][k] \in DOMAIN answers /\ a.source = s
               /\ k \in a.gone \/ k \in DOMAIN a.news
               /\ IF k \in a.gone THEN k \notin DOMAIN new ELSE Updates!AgreeAt(a.news, new, k)
    <3> DEFINE a == answers[owed[s][k]]
    <3>1. sources[s] # None
      BY <2>2, <2>4
    <3>2. Updates!AgreeAt(sources[s], new, k)
      BY <1>0, <1>2, <2>4, <3>1
    <3>3. /\ owed[s][k] \in DOMAIN answers /\ a.source = s
          /\ k \in a.gone \/ k \in DOMAIN a.news
          /\ IF k \in a.gone THEN k \notin DOMAIN sources[s] ELSE Updates!AgreeAt(a.news, sources[s], k)
      BY <1>1, <1>8, <2>4, <3>1 DEF AddsUp, Updates!Recorded
    <3> QED
      BY <3>2, <3>3 DEF Updates!AgreeAt
  <2>5. ASSUME NEW k \in stirred
        PROVE  IF k \in answer.gone THEN k \notin DOMAIN new ELSE Updates!AgreeAt(answer.news, new, k)
    BY <1>2, <2>5
  <2>6. \A k : k \in DOMAIN owed'[s] <=> k \in DOMAIN owed[s] \/ k \in stirred
    BY <1>7
  <2>7. \A k \in stirred : owed'[s][k] = p
    BY <1>7
  <2>8. \A k \in DOMAIN owed[s] : k \notin stirred => owed'[s][k] = owed[s][k]
    BY <1>7
  <2>9. \A k \in stirred : k \in answer.gone \/ k \in DOMAIN answer.news
    OBVIOUS
  <2> HIDE DEF stirred
  <2>10. \A k : k \notin DOMAIN owed'[s] => Updates!AgreeAt(told'[s], new, k)
    BY <2>3, <2>6
  <2>11. ASSUME NEW k \in DOMAIN owed'[s], owed'[s][k] # Updates!Lost
         PROVE  LET a == answers'[owed'[s][k]] IN
                /\ owed'[s][k] \in DOMAIN answers' /\ a.source = s
                /\ k \in a.gone \/ k \in DOMAIN a.news
                /\ IF k \in a.gone THEN k \notin DOMAIN new ELSE Updates!AgreeAt(a.news, new, k)
    <3>1. CASE k \in stirred
      BY <1>2, <1>7, <2>5, <2>7, <2>9, <3>1
    <3>2. CASE k \notin stirred
      <4>1. k \in DOMAIN owed[s] /\ owed'[s][k] = owed[s][k]
        BY <2>6, <2>8, <2>11, <3>2
      <4>2. owed[s][k] \in DOMAIN answers
        BY <2>4, <2>11, <3>2, <4>1
      <4>3. answers'[owed[s][k]] = answers[owed[s][k]]
        BY <1>7, <4>2
      <4> QED
        BY <1>7, <2>4, <2>11, <3>2, <4>1, <4>2, <4>3
    <3> QED
      BY <3>1, <3>2
  <2> QED
    BY <2>1, <2>10, <2>11 DEF AddsUp, Updates!AgreeAt
<1>11. Updates!ChangesAddUp'
  <2>1. \A t \in Feeds : AddsUp(t)'
    BY <1>9, <1>10
  <2> QED
    BY <2>1, SourcesAddUp
<1>12. \A q \in DOMAIN answers' : answers'[q].source \in Feeds /\ answers'[q].gone \cap DOMAIN answers'[q].news = {}
  BY <1>1, <1>2, <1>7 DEF UpdatesInv
<1>13. \A q \in Checkers : fetched'[q] # None =>
         fetched'[q].source \in Feeds /\ fetched'[q].page \in Pages /\ q \notin DOMAIN answers'
  BY <1>7 DEF UpdatesInv
<1>14. \A t \in Feeds : sources'[t] = None => DOMAIN owed'[t] = {}
  BY <1>3, <1>7 DEF UpdatesInv
<1>15. \A t \in Feeds : sources'[t] # None => \A k \in DOMAIN sources'[t] :
         Updates!IsCandidate(sources'[t][k]) /\ Updates!Identity(sources'[t][k]) = k
  BY <1>6, <1>7 DEF UpdatesInv
<1>16. (\A k \in DOMAIN legacy' : Updates!IsCandidate(legacy'[k])) /\ DOMAIN answers' \subseteq Checkers
  BY <1>1, <1>7 DEF UpdatesInv
<1> HIDE DEF stirred
<1> QED
  BY <1>7, <1>11, <1>12, <1>13, <1>14, <1>15, <1>16 DEF UpdatesInv

LEMMA ReturnKept ==
  ASSUME UpdatesInv, NEW p \in Checkers, Updates!Return(p)
  PROVE  UpdatesInv'
<1> SUFFICES ASSUME NEW s, s = answers[p].source
             PROVE  UpdatesInv'
  OBVIOUS
<1> DEFINE news == answers[p].news
           gone == answers[p].gone
           paid == Updates!Tells(p)
<1>1. /\ p \in DOMAIN answers /\ s \in Feeds /\ gone \cap DOMAIN news = {}
      /\ paid = {k \in DOMAIN owed[s] : owed[s][k] = p}
  BY DEF UpdatesInv, Updates!Return, Updates!Tells
<1>2. /\ DOMAIN told' = Feeds /\ DOMAIN owed' = Feeds
      /\ DOMAIN answers' = DOMAIN answers \ {p}
      /\ told'[s] = [k \in (DOMAIN told[s] \ (gone \cap paid)) \cup (DOMAIN news \cap paid) |->
                       IF k \in DOMAIN news \cap paid THEN news[k] ELSE told[s][k]]
      /\ owed'[s] = [k \in DOMAIN owed[s] \ paid |-> owed[s][k]]
      /\ \A t \in Feeds \ {s} : told'[t] = told[t] /\ owed'[t] = owed[t]
      /\ \A q \in DOMAIN answers \ {p} : answers'[q] = answers[q]
      /\ legacy' = legacy /\ sources' = sources /\ fetched' = fetched
  BY <1>1 DEF UpdatesInv, Updates!Return
<1>3. \A t \in Feeds : AddsUp(t)
  BY SourcesAddUp DEF UpdatesInv
<1>4. p # Updates!Lost
  BY UpdatesHold DEF Updates!UpdateAssumption
<1>5. ASSUME NEW t \in Feeds, NEW k \in DOMAIN owed'[t], owed'[t][k] # Updates!Lost
      PROVE  LET a == answers'[owed'[t][k]] IN
             /\ owed'[t][k] \in DOMAIN answers' /\ a.source = t
             /\ k \in a.gone \/ k \in DOMAIN a.news
             /\ IF k \in a.gone THEN k \notin DOMAIN Updates!Recorded(t)
                ELSE Updates!AgreeAt(a.news, Updates!Recorded(t), k)
  <2>1. k \in DOMAIN owed[t] /\ owed'[t][k] = owed[t][k] /\ (t = s => k \notin paid)
    BY <1>1, <1>2, <1>5
  <2>2. owed[t][k] \in DOMAIN answers /\ answers[owed[t][k]].source = t
    BY <1>3, <1>5, <2>1 DEF AddsUp
  <2>3. owed[t][k] # p
    BY <1>1, <2>1, <2>2
  <2>4. answers'[owed[t][k]] = answers[owed[t][k]] /\ owed[t][k] \in DOMAIN answers'
    BY <1>2, <2>2, <2>3
  <2> QED
    BY <1>3, <1>5, <2>1, <2>4 DEF AddsUp
<1>6. ASSUME NEW k, k \notin DOMAIN owed'[s]
      PROVE  Updates!AgreeAt(told'[s], Updates!Recorded(s), k)
  <2>1. CASE k \in paid
    <3>1. /\ k \in gone \/ k \in DOMAIN news
          /\ IF k \in gone THEN k \notin DOMAIN Updates!Recorded(s)
             ELSE Updates!AgreeAt(news, Updates!Recorded(s), k)
      BY <1>1, <1>3, <1>4, <2>1 DEF AddsUp
    <3> QED
      BY <1>1, <1>2, <2>1, <3>1 DEF Updates!AgreeAt
  <2>2. CASE k \notin paid
    <3>1. k \notin DOMAIN owed[s]
      BY <1>2, <1>6, <2>2
    <3>2. Updates!AgreeAt(told[s], Updates!Recorded(s), k)
      BY <1>1, <1>3, <3>1 DEF AddsUp
    <3>3. (k \in DOMAIN told'[s] <=> k \in DOMAIN told[s]) /\ (k \in DOMAIN told[s] => told'[s][k] = told[s][k])
      BY <1>2, <2>2
    <3> QED
      BY <3>2, <3>3 DEF Updates!AgreeAt
  <2> QED
    BY <2>1, <2>2
<1>7. \A t \in Feeds : Updates!Recorded(t)' = Updates!Recorded(t)
  BY <1>2 DEF Updates!Recorded
<1> HIDE DEF news, gone, paid
<1>8. \A t \in Feeds : AddsUp(t)'
  <2>1. ASSUME NEW t \in Feeds, NEW k, k \notin DOMAIN owed'[t]
        PROVE  Updates!AgreeAt(told'[t], Updates!Recorded(t), k)
    BY <1>2, <1>3, <1>6, <2>1 DEF AddsUp
  <2> QED
    BY <1>5, <1>7, <2>1 DEF AddsUp, Updates!AgreeAt
<1>9. Updates!ChangesAddUp'
  BY <1>8, SourcesAddUp
<1>10. \A t \in Feeds : sources'[t] = None => DOMAIN owed'[t] = {}
  BY <1>2 DEF UpdatesInv
<1> QED
  BY <1>2, <1>9, <1>10 DEF UpdatesInv

LEMMA LossKept ==
  ASSUME UpdatesInv, NEW p \in Checkers, Updates!AnswerIsLost(p)
  PROVE  UpdatesInv'
<1> SUFFICES ASSUME NEW s, s = answers[p].source
             PROVE  UpdatesInv'
  OBVIOUS
<1> DEFINE lost == Updates!Tells(p)
<1>1. /\ p \in DOMAIN answers /\ s \in Feeds
      /\ lost = {k \in DOMAIN owed[s] : owed[s][k] = p}
  BY DEF UpdatesInv, Updates!AnswerIsLost, Updates!Tells
<1>2. /\ DOMAIN owed' = Feeds /\ DOMAIN answers' = DOMAIN answers \ {p}
      /\ owed'[s] = [k \in DOMAIN owed[s] |-> IF k \in lost THEN Updates!Lost ELSE owed[s][k]]
      /\ \A t \in Feeds \ {s} : owed'[t] = owed[t]
      /\ \A q \in DOMAIN answers \ {p} : answers'[q] = answers[q]
      /\ legacy' = legacy /\ sources' = sources /\ fetched' = fetched /\ told' = told
  BY <1>1 DEF UpdatesInv, Updates!AnswerIsLost
<1>3. \A t \in Feeds : AddsUp(t)
  BY SourcesAddUp DEF UpdatesInv
<1>4. \A t \in Feeds : DOMAIN owed'[t] = DOMAIN owed[t]
  BY <1>2
<1>5. ASSUME NEW t \in Feeds, NEW k \in DOMAIN owed'[t], owed'[t][k] # Updates!Lost
      PROVE  LET a == answers'[owed'[t][k]] IN
             /\ owed'[t][k] \in DOMAIN answers' /\ a.source = t
             /\ k \in a.gone \/ k \in DOMAIN a.news
             /\ IF k \in a.gone THEN k \notin DOMAIN Updates!Recorded(t)
                ELSE Updates!AgreeAt(a.news, Updates!Recorded(t), k)
  <2>1. k \in DOMAIN owed[t] /\ owed'[t][k] = owed[t][k] /\ (t = s => k \notin lost)
    BY <1>1, <1>2, <1>5
  <2>2. owed[t][k] \in DOMAIN answers /\ answers[owed[t][k]].source = t
    BY <1>3, <1>5, <2>1 DEF AddsUp
  <2>3. owed[t][k] # p
    BY <1>1, <2>1, <2>2
  <2>4. answers'[owed[t][k]] = answers[owed[t][k]] /\ owed[t][k] \in DOMAIN answers'
    BY <1>2, <2>2, <2>3
  <2> QED
    BY <1>3, <1>5, <2>1, <2>4 DEF AddsUp
<1>6. \A t \in Feeds : Updates!Recorded(t)' = Updates!Recorded(t)
  BY <1>2 DEF Updates!Recorded
<1> HIDE DEF lost
<1>7. \A t \in Feeds : AddsUp(t)'
  BY <1>2, <1>3, <1>4, <1>5, <1>6 DEF AddsUp, Updates!AgreeAt
<1>8. Updates!ChangesAddUp'
  BY <1>7, SourcesAddUp
<1> QED
  BY <1>2, <1>4, <1>8 DEF UpdatesInv

LEMMA UpdatesKept ==
  ASSUME UpdatesInv, [Updates!Next]_updateVars
  PROVE  UpdatesInv'
<1>1. CASE UNCHANGED updateVars
  BY <1>1 DEF UpdatesInv, updateVars, Updates!ChangesAddUp, Updates!Recorded
<1>2. CASE Updates!SaveLegacy
  BY <1>2, UpdatesHold DEF UpdatesInv, Updates!SaveLegacy, Updates!ChangesAddUp, Updates!Recorded, Updates!UpdateAssumption
<1>3. ASSUME NEW p \in Checkers, Updates!Fetch(p) PROVE UpdatesInv'
  BY <1>3 DEF UpdatesInv, Updates!Fetch, Updates!ChangesAddUp, Updates!Recorded
<1>4. ASSUME NEW p \in Checkers, Updates!PersistFails(p) PROVE UpdatesInv'
  BY <1>4 DEF UpdatesInv, Updates!PersistFails, Updates!ChangesAddUp, Updates!Recorded
<1>5. ASSUME NEW p \in Checkers, Updates!Persist(p) PROVE UpdatesInv'
  BY <1>5, SnapshotKept
<1>6. ASSUME NEW p \in Checkers, Updates!Return(p) PROVE UpdatesInv'
  BY <1>6, ReturnKept
<1>7. ASSUME NEW p \in Checkers, Updates!AnswerIsLost(p) PROVE UpdatesInv'
  BY <1>7, LossKept
<1> QED
  BY <1>1, <1>2, <1>3, <1>4, <1>5, <1>6, <1>7 DEF Updates!Next

\* For any sources, listings and legacy records, and whichever processes fetch,
\* record and return in whichever order, are cancelled or die: the changes that
\* were returned for a source add up to what is recorded of it, but for those
\* whose check still runs and those that went with their check after its write
\* (StateStore.apply_snapshot, finish_transaction).
THEOREM ChangesAccountedFor == StoresSpec => []ChangesAddUp
<1>1. Updates!Init => UpdatesInv
  BY UpdatesHold DEF Updates!Init, Updates!Nothing, Updates!UpdateAssumption, UpdatesInv, Updates!ChangesAddUp,
    Updates!Recorded
<1>2. [StoresNext]_storeVars => [Updates!Next]_updateVars
  BY DEF StoresNext, Moves, storeVars, updateVars
<1>3. UpdatesInv /\ [StoresNext]_storeVars => UpdatesInv'
  BY <1>2, UpdatesKept
<1>4. UpdatesInv => ChangesAddUp
  BY DEF UpdatesInv, ChangesAddUp
<1>5. StoresInit => UpdatesInv
  BY <1>1 DEF StoresInit
<1> QED
  BY <1>3, <1>4, <1>5, PTL DEF StoresSpec

-----------------------------------------------------------------------------
(***************************************************************************)
(* What a workflow remembers of its images (ImageLedger).                  *)
(***************************************************************************)

\* The positions at which the image and chapter x are said to be done.
DoneAt(x) == {pos \in DOMAIN outcomes : outcomes[pos].kind = "done" /\ Ledger!Copy(manifest, pos) = x}

\* Before there is a manifest nothing is known.
NothingKnown == outcomes = [pos \in {} |-> None] /\ additional = {} /\ attempted = {} /\ finished = {}

LedgerTyped ==
  /\ attempt \in Nat
  /\ manifest \in Manifests \cup {None}
  /\ manifest = None => NothingKnown /\ phase # "processing"
  /\ DOMAIN saves = Ledger!AllCopies /\ \A x \in Ledger!AllCopies : saves[x] \in Nat

\* Outcomes are those of the images of the manifest, in the numbers in which
\* they were saved.
OutcomesFit ==
  /\ \A pos \in DOMAIN outcomes :
       pos \in Ledger!Positions(manifest) /\ outcomes[pos].image = Ledger!ImageAt(manifest, pos)
  /\ attempted \subseteq Ledger!Positions(manifest)
  /\ phase = "processing" => DOMAIN outcomes \subseteq retained \cup attempted
  /\ \A x \in Ledger!AllCopies : IsFiniteSet(DoneAt(x)) /\ Cardinality(DoneAt(x)) <= saves[x]

\* A file knows the image it is of, by its position and by its identity.
FilesFit ==
  \A f \in additional :
    /\ f.at \in Ledger!Positions(manifest) /\ Ledger!ImageAt(manifest, f.at) = f.of
    /\ f.identity \in {None, Ledger!Identity(manifest, f.at)}
    /\ f.attempt \in Nat /\ f.attempt <= attempt
    /\ phase = "inspecting" => f.attempt < attempt

\* An image that was done and is unmistakable still is done at its position.
FinishedFits ==
  \A x \in finished : \E pos \in Ledger!Identified(manifest) :
    Ledger!Copy(manifest, pos) = x /\ pos \in DOMAIN outcomes /\ outcomes[pos].kind = "done"

\* The inductive invariant.
LedgerInv == LedgerTyped /\ (manifest # None => OutcomesFit /\ FilesFit /\ FinishedFits)

NoneTwice == \A pos \in attempted' \ attempted : Ledger!Copy(manifest, pos) \notin finished

LEMMA LedgerHolds == Ledger!LedgerAssumption
BY StoresAssumption

LEMMA SameCount == \A S : Ledger!Cardinality(S) = Cardinality(S)
BY DEF Cardinality, Ledger!Cardinality

LEMMA PositionPair ==
  ASSUME NEW m, NEW pos \in Ledger!Positions(m)
  PROVE  pos = <<pos[1], pos[2]>> /\ pos[1] \in DOMAIN m /\ pos[2] \in DOMAIN m[pos[1]].images
BY DEF Ledger!Positions

\* Nothing else in a manifest has the identity of what is identified.
LEMMA Unmistakable ==
  ASSUME NEW m, NEW pos \in Ledger!Identified(m), NEW q \in Ledger!Positions(m),
         Ledger!Identity(m, q) = Ledger!Identity(m, pos)
  PROVE  q = pos
<1>1. pos \in Ledger!Positions(m)
  BY DEF Ledger!Identified
<1>2. m[q[1]].key = m[pos[1]].key /\ Ledger!ImageAt(m, q).key = Ledger!ImageAt(m, pos).key
  BY DEF Ledger!Identity
<1>3. q[1] = pos[1]
  BY <1>2, PositionPair DEF Ledger!Identified
<1>4. q[2] = pos[2]
  BY <1>2, <1>3, PositionPair DEF Ledger!Identified, Ledger!ImageAt
<1> QED
  BY <1>1, <1>3, <1>4, PositionPair

\* The same copy has the same identity.
LEMMA CopyIdentifies ==
  ASSUME NEW m, NEW n, NEW pos, NEW q, Ledger!Copy(m, pos) = Ledger!Copy(n, q)
  PROVE  Ledger!Identity(m, pos) = Ledger!Identity(n, q)
         /\ Ledger!ImageAt(m, pos) = Ledger!ImageAt(n, q)
BY DEF Ledger!Copy, Ledger!Identity

LEMMA IdentityAndImage ==
  ASSUME NEW m, NEW n, NEW pos, NEW q, Ledger!Identity(m, pos) = Ledger!Identity(n, q),
         Ledger!ImageAt(m, pos) = Ledger!ImageAt(n, q)
  PROVE  Ledger!Copy(m, pos) = Ledger!Copy(n, q)
BY DEF Ledger!Copy, Ledger!Identity

\* What retains its outcome had it as the same image.
LEMMA OriginIsTheSame ==
  ASSUME LedgerInv, NEW m, NEW p, NEW pos, NEW q \in Ledger!Origins(m, p, pos)
  PROVE  /\ manifest # None /\ p = plugin /\ pos \in Ledger!Identified(m) /\ q \in Ledger!Identified(manifest)
         /\ q \in DOMAIN outcomes /\ outcomes[q].image = Ledger!ImageAt(m, pos)
         /\ Ledger!ImageAt(manifest, q) = Ledger!ImageAt(m, pos)
         /\ Ledger!Copy(manifest, q) = Ledger!Copy(m, pos)
         /\ Ledger!Identity(manifest, q) = Ledger!Identity(m, pos)
<1>1. /\ manifest # None /\ p = plugin /\ pos \in Ledger!Identified(m) /\ q \in Ledger!Identified(manifest)
      /\ q \in DOMAIN outcomes /\ outcomes[q].image = Ledger!ImageAt(m, pos)
      /\ Ledger!Identity(manifest, q) = Ledger!Identity(m, pos)
  BY DEF Ledger!Origins, Ledger!CanRetain
<1>2. Ledger!ImageAt(manifest, q) = Ledger!ImageAt(m, pos)
  BY <1>1 DEF LedgerInv, OutcomesFit
<1> QED
  BY <1>1, <1>2, IdentityAndImage

LEMMA BeginsKeeps ==
  ASSUME LedgerInv, NEW m \in Manifests, NEW p \in Plugins, Ledger!Begin(m, p)
  PROVE  LedgerInv' /\ NoneTwice
<1> DEFINE kept == {pos \in Ledger!Positions(m) : Ledger!Origins(m, p, pos) # {}}
<1>1. /\ phase = "inspecting" /\ phase' = "processing" /\ manifest' = m /\ plugin' = p
      /\ outcomes' = [pos \in kept |-> outcomes[CHOOSE q \in Ledger!Origins(m, p, pos) : TRUE]]
      /\ retained' = kept /\ attempted' = {}
      /\ additional' = Ledger!FilesMoving(m, kept)
      /\ finished' = IF p # plugin THEN {}
                     ELSE finished \cap {Ledger!Copy(m, pos) : pos \in Ledger!Identified(m)}
      /\ UNCHANGED <<attempt, saves>>
  BY DEF Ledger!Begin
<1>2. m # None
  BY LedgerHolds DEF Ledger!LedgerAssumption
<1>3. ASSUME NEW pos \in kept
      PROVE  \E q \in Ledger!Origins(m, p, pos) : outcomes'[pos] = outcomes[q]
  <2>1. \E q : q \in Ledger!Origins(m, p, pos)
    OBVIOUS
  <2> QED
    BY <1>1, <2>1
<1>4. DOMAIN outcomes' = kept
  BY <1>1
<1> HIDE DEF kept
<1>5. kept \subseteq Ledger!Identified(m) /\ kept \subseteq Ledger!Positions(m)
  BY <1>3, OriginIsTheSame DEF kept
<1>6. \A pos \in kept : outcomes'[pos].image = Ledger!ImageAt(m, pos)
  BY <1>3, OriginIsTheSame
<1>7. ASSUME NEW x \in Ledger!AllCopies
      PROVE  IsFiniteSet(DoneAt(x)') /\ Cardinality(DoneAt(x)') <= saves'[x]
  <2>1. DoneAt(x)' = {pos \in kept : outcomes'[pos].kind = "done" /\ Ledger!Copy(m, pos) = x}
    BY <1>1, <1>4 DEF DoneAt
  <2>2. CASE DoneAt(x)' = {}
    BY <1>1, <2>2, FS_EmptySet DEF LedgerInv, LedgerTyped
  <2>3. CASE DoneAt(x)' # {}
    <3>1. PICK pos \in kept : outcomes'[pos].kind = "done" /\ Ledger!Copy(m, pos) = x
      BY <2>1, <2>3
    <3>2. ASSUME NEW r \in kept, Ledger!Copy(m, r) = x PROVE r = pos
      BY <1>5, <3>1, <3>2, CopyIdentifies, Unmistakable
    <3>3. DoneAt(x)' = {pos}
      BY <2>1, <3>1, <3>2
    <3>4. IsFiniteSet(DoneAt(x)') /\ Cardinality(DoneAt(x)') = 1
      BY <3>3, FS_Singleton
    <3>5. PICK q \in Ledger!Origins(m, p, pos) : outcomes'[pos] = outcomes[q]
      BY <1>3
    <3>6. q \in DoneAt(x) /\ manifest # None
      BY <3>1, <3>5, OriginIsTheSame DEF DoneAt
    <3>7. IsFiniteSet(DoneAt(x)) /\ Cardinality(DoneAt(x)) <= saves[x] /\ saves[x] \in Nat
      BY <3>6 DEF LedgerInv, LedgerTyped, OutcomesFit
    <3>8. Cardinality(DoneAt(x)) \in Nat /\ Cardinality(DoneAt(x)) # 0
      BY <3>6, <3>7, FS_CardinalityType, FS_EmptySet
    <3> QED
      BY <1>1, <3>4, <3>7, <3>8
  <2> QED
    BY <2>2, <2>3
<1>8. OutcomesFit'
  BY <1>1, <1>4, <1>5, <1>6, <1>7 DEF OutcomesFit
<1>9. ASSUME NEW f \in additional'
      PROVE  /\ f.at \in Ledger!Positions(m) /\ Ledger!ImageAt(m, f.at) = f.of
             /\ f.identity \in {None, Ledger!Identity(m, f.at)}
             /\ f.attempt \in Nat /\ f.attempt <= attempt
  <2>1. \A g \in additional : manifest # None /\ g.attempt # attempt
    BY <1>1 DEF LedgerInv, LedgerTyped, NothingKnown, FilesFit
  <2>2. PICK g \in additional :
          /\ f = [g EXCEPT !.at = CHOOSE pos \in kept : Ledger!Identity(m, pos) = g.identity]
          /\ \E pos \in kept : g.identity = Ledger!Identity(m, pos)
    BY <1>1, <2>1 DEF Ledger!FilesMoving
  <2> DEFINE at == CHOOSE pos \in kept : Ledger!Identity(m, pos) = g.identity
  <2>3. at \in kept /\ Ledger!Identity(m, at) = g.identity
    BY <2>2
  <2> HIDE DEF at
  <2>4. /\ g.at \in Ledger!Positions(manifest) /\ Ledger!ImageAt(manifest, g.at) = g.of
        /\ g.identity \in {None, Ledger!Identity(manifest, g.at)}
        /\ g.attempt \in Nat /\ g.attempt <= attempt
    BY <2>1 DEF LedgerInv, FilesFit
  <2>5. PICK q \in Ledger!Origins(m, p, at) : TRUE
    BY <1>3, <2>3
  <2>6. q \in Ledger!Identified(manifest) /\ Ledger!Identity(manifest, q) = g.identity
        /\ Ledger!ImageAt(manifest, q) = Ledger!ImageAt(m, at)
    BY <2>3, <2>5, OriginIsTheSame
  <2>7. g.identity # None
    BY <1>5, <2>3, LedgerHolds DEF Ledger!LedgerAssumption
  <2>8. g.at = q
    BY <2>4, <2>6, <2>7, Unmistakable
  <2>9. f.at = at /\ f.of = g.of /\ f.identity = g.identity /\ f.attempt = g.attempt
    BY <2>2 DEF at
  <2> QED
    BY <1>5, <2>3, <2>4, <2>6, <2>8, <2>9
<1>10. FilesFit'
  BY <1>1, <1>9 DEF FilesFit
<1>11. FinishedFits'
  <2> SUFFICES ASSUME NEW x \in finished'
               PROVE  \E pos \in Ledger!Identified(m) :
                        Ledger!Copy(m, pos) = x /\ pos \in kept /\ outcomes'[pos].kind = "done"
    BY <1>1, <1>4 DEF FinishedFits
  <2>1. p = plugin /\ x \in finished
    BY <1>1
  <2>2. PICK pos \in Ledger!Identified(m) : Ledger!Copy(m, pos) = x
    BY <1>1
  <2>3. manifest # None
    BY <2>1 DEF LedgerInv, LedgerTyped, NothingKnown
  <2>4. PICK q \in Ledger!Identified(manifest) :
          Ledger!Copy(manifest, q) = x /\ q \in DOMAIN outcomes /\ outcomes[q].kind = "done"
    BY <2>1, <2>3 DEF LedgerInv, FinishedFits
  <2>5. /\ Ledger!Identity(manifest, q) = Ledger!Identity(m, pos)
        /\ Ledger!ImageAt(manifest, q) = Ledger!ImageAt(m, pos)
    BY <2>2, <2>4, CopyIdentifies
  <2>6. outcomes[q].image = Ledger!ImageAt(m, pos)
    BY <2>3, <2>4, <2>5 DEF LedgerInv, OutcomesFit
  <2>7. q \in Ledger!Origins(m, p, pos)
    BY <2>1, <2>2, <2>3, <2>4, <2>5, <2>6 DEF Ledger!Origins, Ledger!CanRetain
  <2>8. pos \in kept
    BY <2>2, <2>7 DEF kept, Ledger!Identified
  <2>9. PICK r \in Ledger!Origins(m, p, pos) : outcomes'[pos] = outcomes[r]
    BY <1>3, <2>8
  <2>10. r \in Ledger!Identified(manifest) /\ Ledger!Identity(manifest, r) = Ledger!Identity(manifest, q)
    BY <2>5, <2>9, OriginIsTheSame
  <2>11. r = q
    BY <2>4, <2>10, Unmistakable DEF Ledger!Identified
  <2> QED
    BY <2>2, <2>4, <2>8, <2>9, <2>11
<1>12. LedgerTyped'
  BY <1>1, <1>2 DEF LedgerInv, LedgerTyped
<1>13. NoneTwice
  BY <1>1 DEF NoneTwice
<1> QED
  BY <1>8, <1>10, <1>11, <1>12, <1>13 DEF LedgerInv

LEMMA AttemptsKeep ==
  ASSUME LedgerInv, Ledger!StartAttempt \/ Ledger!EndAttempt
  PROVE  LedgerInv' /\ NoneTwice
<1>1. /\ UNCHANGED <<manifest, plugin, outcomes, additional, saves, finished>>
      /\ \/ phase' = "inspecting" /\ attempted' = {} /\ attempt' = attempt + 1
         \/ phase' = "between" /\ UNCHANGED <<attempted, attempt>>
  BY DEF Ledger!StartAttempt, Ledger!EndAttempt
<1>2. LedgerTyped'
  BY <1>1 DEF LedgerInv, LedgerTyped, NothingKnown
<1>3. manifest # None => OutcomesFit'
  BY <1>1 DEF LedgerInv, OutcomesFit, DoneAt
<1>4. manifest # None => FilesFit'
  BY <1>1 DEF LedgerInv, LedgerTyped, FilesFit
<1>5. manifest # None => FinishedFits'
  BY <1>1 DEF LedgerInv, FinishedFits
<1>6. NoneTwice
  BY <1>1 DEF NoneTwice
<1> QED
  BY <1>1, <1>2, <1>3, <1>4, <1>5, <1>6 DEF LedgerInv

LEMMA StartKeeps ==
  ASSUME LedgerInv, manifest # None, NEW pos \in Ledger!Positions(manifest), Ledger!StartImage(pos)
  PROVE  LedgerInv' /\ NoneTwice
<1>1. /\ phase = "processing" /\ pos \notin retained \cup attempted /\ attempted' = attempted \cup {pos}
      /\ UNCHANGED <<attempt, phase, manifest, plugin, outcomes, retained, additional, saves, finished>>
  BY DEF Ledger!StartImage
<1>2. LedgerTyped'
  BY <1>1 DEF LedgerInv, LedgerTyped
<1>3. OutcomesFit'
  BY <1>1 DEF LedgerInv, OutcomesFit, DoneAt
<1>4. FilesFit' /\ FinishedFits'
  BY <1>1 DEF LedgerInv, FilesFit, FinishedFits
<1>5. pos \notin DOMAIN outcomes
  BY <1>1 DEF LedgerInv, OutcomesFit
<1>6. Ledger!Copy(manifest, pos) \notin finished
  <2> SUFFICES ASSUME Ledger!Copy(manifest, pos) \in finished PROVE FALSE
    OBVIOUS
  <2>1. PICK q \in Ledger!Identified(manifest) :
          Ledger!Copy(manifest, q) = Ledger!Copy(manifest, pos) /\ q \in DOMAIN outcomes
    BY DEF LedgerInv, FinishedFits
  <2>2. pos = q
    BY <2>1, CopyIdentifies, Unmistakable
  <2> QED
    BY <1>5, <2>1, <2>2
<1>7. NoneTwice
  BY <1>1, <1>6 DEF NoneTwice
<1> QED
  BY <1>1, <1>2, <1>3, <1>4, <1>7 DEF LedgerInv

LEMMA SaveKeeps ==
  ASSUME LedgerInv, manifest # None, NEW pos \in Ledger!Positions(manifest), Ledger!SaveImage(pos)
  PROVE  LedgerInv' /\ NoneTwice
<1> DEFINE copy == Ledger!Copy(manifest, pos)
<1>1. /\ phase = "processing" /\ pos \in attempted /\ pos \notin DOMAIN outcomes
      /\ Ledger!Record(pos, "done")
      /\ saves' = [saves EXCEPT ![copy] = saves[copy] + 1]
      /\ finished' = IF pos \in Ledger!Identified(manifest) THEN finished \cup {copy} ELSE finished
      /\ UNCHANGED <<attempt, phase, manifest, plugin, retained, attempted, additional>>
  BY DEF Ledger!SaveImage, Ledger!InWork
<1>2. /\ DOMAIN outcomes' = DOMAIN outcomes \cup {pos}
      /\ outcomes'[pos].image = Ledger!ImageAt(manifest, pos) /\ outcomes'[pos].kind = "done"
      /\ \A q \in DOMAIN outcomes : outcomes'[q] = outcomes[q]
  BY <1>1 DEF Ledger!Record
<1>3. copy \in Ledger!AllCopies
  BY DEF LedgerInv, LedgerTyped, Ledger!AllCopies
<1> HIDE DEF copy
<1>4. /\ \A x \in Ledger!AllCopies : saves'[x] = IF x = copy THEN saves[x] + 1 ELSE saves[x]
      /\ DOMAIN saves' = Ledger!AllCopies
  BY <1>1, <1>3 DEF LedgerInv, LedgerTyped
<1>5. LedgerTyped'
  BY <1>1, <1>4 DEF LedgerInv, LedgerTyped
<1>6. ASSUME NEW x \in Ledger!AllCopies
      PROVE  IsFiniteSet(DoneAt(x)') /\ Cardinality(DoneAt(x)') <= saves'[x]
  <2>1. IsFiniteSet(DoneAt(x)) /\ Cardinality(DoneAt(x)) <= saves[x] /\ saves[x] \in Nat
    BY DEF LedgerInv, LedgerTyped, OutcomesFit
  <2>2. DoneAt(x)' = IF x = copy THEN DoneAt(x) \cup {pos} ELSE DoneAt(x)
    BY <1>1, <1>2 DEF DoneAt, copy
  <2>3. pos \notin DoneAt(x)
    BY <1>1 DEF DoneAt
  <2>4. Cardinality(DoneAt(x)) \in Nat
    BY <2>1, FS_CardinalityType
  <2>5. IsFiniteSet(DoneAt(x) \cup {pos}) /\ Cardinality(DoneAt(x) \cup {pos}) = Cardinality(DoneAt(x)) + 1
    BY <2>1, <2>3, FS_AddElement
  <2> QED
    BY <1>4, <2>1, <2>2, <2>4, <2>5
<1>7. OutcomesFit'
  <2>1. \A q \in DOMAIN outcomes' :
          q \in Ledger!Positions(manifest) /\ outcomes'[q].image = Ledger!ImageAt(manifest, q)
    BY <1>2 DEF LedgerInv, OutcomesFit
  <2>2. attempted \subseteq Ledger!Positions(manifest) /\ DOMAIN outcomes' \subseteq retained \cup attempted
    BY <1>1, <1>2 DEF LedgerInv, OutcomesFit
  <2> QED
    BY <1>1, <1>6, <2>1, <2>2 DEF OutcomesFit
<1>8. FilesFit'
  BY <1>1 DEF LedgerInv, FilesFit
<1>9. FinishedFits'
  <2> SUFFICES ASSUME NEW x \in finished'
               PROVE  \E q \in Ledger!Identified(manifest) :
                        Ledger!Copy(manifest, q) = x /\ q \in DOMAIN outcomes' /\ outcomes'[q].kind = "done"
    BY <1>1 DEF FinishedFits
  <2>1. CASE x \in finished
    BY <1>2, <2>1 DEF LedgerInv, FinishedFits
  <2>2. CASE x \notin finished
    BY <1>1, <1>2, <2>2 DEF copy
  <2> QED
    BY <2>1, <2>2
<1>10. NoneTwice
  BY <1>1 DEF NoneTwice
<1> QED
  BY <1>1, <1>5, <1>7, <1>8, <1>9, <1>10 DEF LedgerInv

LEMMA FailKeeps ==
  ASSUME LedgerInv, manifest # None, NEW pos \in Ledger!Positions(manifest), Ledger!FailImage(pos)
  PROVE  LedgerInv' /\ NoneTwice
<1> DEFINE copy == Ledger!Copy(manifest, pos)
<1>1. PICK kind \in {"failed", "rejected"} : Ledger!Record(pos, kind)
  BY DEF Ledger!FailImage
<1>2. /\ phase = "processing" /\ pos \in attempted
      /\ finished' = IF pos \in Ledger!Identified(manifest) THEN finished \ {copy} ELSE finished
      /\ UNCHANGED <<attempt, phase, manifest, plugin, retained, attempted, additional, saves>>
  BY DEF Ledger!FailImage
<1>3. /\ DOMAIN outcomes' = DOMAIN outcomes \cup {pos}
      /\ outcomes'[pos].image = Ledger!ImageAt(manifest, pos) /\ outcomes'[pos].kind # "done"
      /\ \A q \in DOMAIN outcomes \ {pos} : outcomes'[q] = outcomes[q]
  BY <1>1 DEF Ledger!Record
<1>4. LedgerTyped'
  BY <1>2 DEF LedgerInv, LedgerTyped
<1>5. ASSUME NEW x \in Ledger!AllCopies
      PROVE  IsFiniteSet(DoneAt(x)') /\ Cardinality(DoneAt(x)') <= saves'[x]
  <2>1. IsFiniteSet(DoneAt(x)) /\ Cardinality(DoneAt(x)) <= saves[x] /\ saves[x] \in Nat
    BY DEF LedgerInv, LedgerTyped, OutcomesFit
  <2>2. DoneAt(x)' \in SUBSET DoneAt(x)
    BY <1>2, <1>3 DEF DoneAt
  <2>3. IsFiniteSet(DoneAt(x)') /\ Cardinality(DoneAt(x)') <= Cardinality(DoneAt(x))
    BY <2>1, <2>2, FS_Subset
  <2>4. Cardinality(DoneAt(x)) \in Nat /\ Cardinality(DoneAt(x)') \in Nat
    BY <2>1, <2>3, FS_CardinalityType
  <2> QED
    BY <1>2, <2>1, <2>3, <2>4
<1>6. OutcomesFit'
  <2>1. \A q \in DOMAIN outcomes' :
          q \in Ledger!Positions(manifest) /\ outcomes'[q].image = Ledger!ImageAt(manifest, q)
    BY <1>3 DEF LedgerInv, OutcomesFit
  <2>2. attempted \subseteq Ledger!Positions(manifest) /\ DOMAIN outcomes' \subseteq retained \cup attempted
    BY <1>2, <1>3 DEF LedgerInv, OutcomesFit
  <2> QED
    BY <1>2, <1>5, <2>1, <2>2 DEF OutcomesFit
<1>7. FilesFit'
  BY <1>2 DEF LedgerInv, FilesFit
<1>8. FinishedFits'
  <2> SUFFICES ASSUME NEW x \in finished'
               PROVE  \E q \in Ledger!Identified(manifest) :
                        Ledger!Copy(manifest, q) = x /\ q \in DOMAIN outcomes' /\ outcomes'[q].kind = "done"
    BY <1>2 DEF FinishedFits
  <2>1. PICK q \in Ledger!Identified(manifest) :
          Ledger!Copy(manifest, q) = x /\ q \in DOMAIN outcomes /\ outcomes[q].kind = "done"
    BY <1>2 DEF LedgerInv, FinishedFits
  <2>2. q # pos
    BY <1>2, <2>1
  <2> QED
    BY <1>3, <2>1, <2>2
<1>9. NoneTwice
  BY <1>2 DEF NoneTwice
<1> QED
  BY <1>2, <1>4, <1>6, <1>7, <1>8, <1>9 DEF LedgerInv

LEMMA RecordKeeps ==
  ASSUME LedgerInv, manifest # None, NEW pos \in Ledger!Positions(manifest), Ledger!RecordFile(pos)
  PROVE  LedgerInv' /\ NoneTwice
<1> DEFINE file == [of |-> Ledger!ImageAt(manifest, pos), attempt |-> attempt, at |-> pos,
                    identity |-> IF pos \in Ledger!Identified(manifest) THEN Ledger!Identity(manifest, pos)
                                 ELSE None]
<1>1. /\ phase = "processing" /\ additional' = additional \cup {file}
      /\ UNCHANGED <<attempt, phase, manifest, plugin, outcomes, retained, attempted, saves, finished>>
  BY DEF Ledger!RecordFile
<1>2. LedgerTyped' /\ OutcomesFit' /\ FinishedFits'
  BY <1>1 DEF LedgerInv, LedgerTyped, OutcomesFit, FinishedFits, DoneAt
<1>3. /\ file.at = pos /\ file.of = Ledger!ImageAt(manifest, pos) /\ file.attempt = attempt
      /\ file.identity \in {None, Ledger!Identity(manifest, pos)} /\ attempt \in Nat
  BY DEF LedgerInv, LedgerTyped
<1> HIDE DEF file
<1>4. FilesFit'
  BY <1>1, <1>3 DEF LedgerInv, FilesFit
<1>5. NoneTwice
  BY <1>1 DEF NoneTwice
<1> QED
  BY <1>1, <1>2, <1>4, <1>5 DEF LedgerInv

LEMMA LedgerKept ==
  ASSUME LedgerInv, Ledger!Next
  PROVE  LedgerInv' /\ NoneTwice
<1>1. CASE Ledger!StartAttempt \/ Ledger!EndAttempt
  BY <1>1, AttemptsKeep
<1>2. ASSUME NEW m \in Manifests, NEW p \in Plugins, Ledger!Begin(m, p) PROVE LedgerInv' /\ NoneTwice
  BY <1>2, BeginsKeeps
<1>3. ASSUME manifest # None, NEW pos \in Ledger!Positions(manifest),
             \/ Ledger!StartImage(pos) \/ Ledger!SaveImage(pos)
             \/ Ledger!FailImage(pos) \/ Ledger!RecordFile(pos)
      PROVE  LedgerInv' /\ NoneTwice
  BY <1>3, StartKeeps, SaveKeeps, FailKeeps, RecordKeeps
<1> QED
  BY <1>1, <1>2, <1>3 DEF Ledger!Next

\* Whatever manifests an URL has from one attempt to the next, and wherever an
\* attempt ends: each outcome and each file reported is that of the image it
\* names, an image is said to be done no more often than it was saved, and one
\* that is done and unmistakable is not processed again (ImageLedger).
THEOREM AttemptsAreAddedUp == StoresSpec => AttemptsAddUp
<1>1. StoresInit => LedgerInv
  <2>1. Ledger!Init => LedgerInv
    BY DEF Ledger!Init, LedgerInv, LedgerTyped, NothingKnown
  <2> QED
    BY <2>1 DEF StoresInit
<1>2. [StoresNext]_storeVars => Ledger!Next \/ UNCHANGED ledgerVars
  BY DEF StoresNext, Moves, LedgerEnds, storeVars, ledgerVars
<1>3. LedgerInv /\ UNCHANGED ledgerVars => LedgerInv'
  <2> SUFFICES ASSUME LedgerInv, UNCHANGED ledgerVars PROVE LedgerInv'
    OBVIOUS
  <2>1. LedgerTyped'
    BY DEF LedgerInv, LedgerTyped, NothingKnown, ledgerVars
  <2>2. manifest # None => OutcomesFit' /\ FilesFit' /\ FinishedFits'
    BY DEF LedgerInv, OutcomesFit, FilesFit, FinishedFits, DoneAt, ledgerVars
  <2> QED
    BY <2>1, <2>2 DEF LedgerInv, ledgerVars
<1>4. LedgerInv /\ [StoresNext]_storeVars => LedgerInv'
  BY <1>2, <1>3, LedgerKept
<1>5. LedgerInv => Ledger!ReportsAreTrue
  <2> SUFFICES ASSUME LedgerInv PROVE Ledger!ReportsAreTrue
    OBVIOUS
  <2>1. CASE manifest = None
    <3>1. outcomes = [pos \in {} |-> None] /\ additional = {}
      BY <2>1 DEF LedgerInv, LedgerTyped, NothingKnown
    <3>2. ASSUME NEW x \in Ledger!AllCopies
          PROVE  Ledger!Cardinality({pos \in DOMAIN outcomes :
                   outcomes[pos].kind = "done" /\ Ledger!Copy(manifest, pos) = x}) <= saves[x]
      <4> DEFINE D == {pos \in DOMAIN outcomes : outcomes[pos].kind = "done"
                                                /\ Ledger!Copy(manifest, pos) = x}
      <4>1. D = {}
        BY <3>1
      <4>2. Ledger!Cardinality({}) = 0 /\ saves[x] \in Nat
        BY FS_EmptySet, SameCount DEF LedgerInv, LedgerTyped
      <4>3. Ledger!Cardinality(D) = 0
        BY <4>1, <4>2
      <4> HIDE DEF D
      <4>4. Ledger!Cardinality(D) <= saves[x]
        BY <4>2, <4>3
      <4> QED
        BY <4>4 DEF D
    <3> QED
      BY <3>1, <3>2 DEF Ledger!ReportsAreTrue
  <2>2. CASE manifest # None
    BY <2>2, SameCount DEF LedgerInv, OutcomesFit, FilesFit, DoneAt, Ledger!ReportsAreTrue
  <2> QED
    BY <2>1, <2>2
<1>6. LedgerInv /\ [StoresNext]_storeVars => [NoneTwice]_(Ledger!vars)
  BY <1>2, LedgerKept DEF ledgerVars, Ledger!vars
<1>7. [NoneTwice]_(Ledger!vars) =>
        [\A pos \in attempted' \ attempted : Ledger!Copy(manifest, pos) \notin finished]_(Ledger!vars)
  BY DEF NoneTwice
<1> QED
  BY <1>1, <1>4, <1>5, <1>6, <1>7, PTL DEF StoresSpec, AttemptsAddUp, Ledger!NotDoneTwice

-----------------------------------------------------------------------------
(***************************************************************************)
(* What is defined by a fold of the library is a recursive function on the *)
(* subsets of a finite set.  What holds of it for every set is shown of a  *)
(* smallest set for which it does not.                                     *)
(***************************************************************************)

HIDE PluginAssumption DEF PluginsInv, TypeOK, LockedSteps, Locked, Undoing, Steps, Commands, Dirs, disk, job, held,
    Goto, Move, MoveAway, Ends, Release, Forget

\* Of the sets a statement fails for, one is smallest.
LEMMA LeastFailing ==
  ASSUME NEW S, IsFiniteSet(S), NEW Wrong \in SUBSET (SUBSET S), Wrong # {}
  PROVE  \E T \in Wrong : \A U \in SUBSET T : U # T => U \notin Wrong
<1>1. FiniteSubsetsOf(S) = SUBSET S
  BY FS_FiniteSubsetsOfFinite
<1>2. IsWellFoundedOn(StrictSubsetOrdering(S), SUBSET S)
  BY <1>1, FS_StrictSubsetOrderingWellFounded
<1>3. PICK T \in Wrong : \A U \in Wrong : <<U, T>> \notin StrictSubsetOrdering(S)
  BY <1>2, WFMin
<1>4. ASSUME NEW U \in SUBSET T, U # T, U \in Wrong PROVE FALSE
  BY <1>3, <1>4 DEF StrictSubsetOrdering
<1> QED
  BY <1>3, <1>4

-----------------------------------------------------------------------------
(***************************************************************************)
(* The workflow history of a profile (WorkflowHistory): what the retention *)
(* policy keeps and drops.                                                 *)
(***************************************************************************)

\* What the sum of History!Size is defined by: one run after the other goes.
FirstOf(S) == CHOOSE r \in S : TRUE
Sums(f, S, g) ==
  g = [T \in SUBSET S |-> IF T = {} THEN 0 ELSE f[FirstOf(T)].size + g[T \ {FirstOf(T)}]]

LEMMA SizeIs == \A f, S : History!Size(f, S) = (CHOOSE g : Sums(f, S, g))[S]
  BY DEF History!Size, History!MapThenSumSet, History!MapThenFoldSet, Sums, FirstOf

LEMMA FirstIsIn == \A S : S # {} => FirstOf(S) \in S
  BY DEF FirstOf

\* Two such functions, of which the second is of some of the runs only.
TwoSums(f, S, T, g, h) == IsFiniteSet(S) /\ T \in SUBSET S /\ Sums(f, S, g) /\ Sums(f, T, h)

LEMMA SumsAgree ==
  ASSUME NEW f, NEW S, NEW T, NEW g, NEW h, TwoSums(f, S, T, g, h)
  PROVE  g[T] = h[T]
<1>0. IsFiniteSet(S) /\ T \in SUBSET S /\ Sums(f, S, g) /\ Sums(f, T, h)
  BY DEF TwoSums
<1> DEFINE Wrong == {U \in SUBSET T : g[U] # h[U]}
<1> SUFFICES ASSUME Wrong # {} PROVE FALSE
  OBVIOUS
<1>1. IsFiniteSet(T)
  BY <1>0, FS_Subset
<1>2. Wrong \in SUBSET (SUBSET T)
  OBVIOUS
<1>3. PICK U \in Wrong : \A V \in SUBSET U : V # U => V \notin Wrong
  <2> HIDE DEF Wrong
  <2> QED
    BY <1>1, <1>2, LeastFailing
<1>4. U \in SUBSET T /\ U \in SUBSET S /\ g[U] # h[U]
  BY <1>0, <1>3
<1>5. U # {}
  <2>1. {} \in SUBSET S /\ {} \in SUBSET T
    OBVIOUS
  <2>2. g[{}] = 0 /\ h[{}] = 0
    BY <1>0, <2>1 DEF Sums
  <2> QED
    BY <1>4, <2>2
<1> DEFINE V == U \ {FirstOf(U)}
<1>6. V \in SUBSET U /\ V # U
  BY <1>5, FirstIsIn
<1>7. g[V] = h[V]
  BY <1>3, <1>4, <1>6
<1>8. g[U] = f[FirstOf(U)].size + g[V] /\ h[U] = f[FirstOf(U)].size + h[V]
  BY <1>0, <1>4, <1>5 DEF Sums
<1> QED
  BY <1>4, <1>7, <1>8

LEMMA SumsExist ==
  ASSUME NEW f, NEW S, IsFiniteSet(S)
  PROVE  \E g : Sums(f, S, g)
<1> DEFINE Wrong == {T \in SUBSET S : ~\E g : Sums(f, T, g)}
<1> SUFFICES ASSUME Wrong # {} PROVE FALSE
  OBVIOUS
<1>1. Wrong \in SUBSET (SUBSET S)
  OBVIOUS
<1>2. PICK T \in Wrong : \A U \in SUBSET T : U # T => U \notin Wrong
  <2> HIDE DEF Wrong
  <2> QED
    BY <1>1, LeastFailing
<1>3. T \in SUBSET S /\ ~\E g : Sums(f, T, g)
  BY <1>2
<1>4. ASSUME NEW U \in SUBSET T, U # T
      PROVE  \E h : Sums(f, U, h) /\ h[U] = History!Size(f, U)
  <2>1. U \in SUBSET S /\ U \notin Wrong
    BY <1>2, <1>3, <1>4
  <2>2. \E h : Sums(f, U, h)
    BY <2>1
  <2> QED
    BY <2>2, SizeIs
<1> DEFINE g == [U \in SUBSET T |-> IF U = {} THEN 0
                                    ELSE f[FirstOf(U)].size + History!Size(f, U \ {FirstOf(U)})]
<1>5. ASSUME NEW U \in SUBSET T, U # {}
      PROVE  g[U \ {FirstOf(U)}] = History!Size(f, U \ {FirstOf(U)})
  <2> DEFINE V == U \ {FirstOf(U)}
  <2>1. V \in SUBSET T /\ V # T
    BY <1>5, FirstIsIn
  <2>2. PICK h : Sums(f, V, h) /\ h[V] = History!Size(f, V)
    BY <1>4, <2>1
  <2>3. CASE V = {}
    <3>1. h[V] = 0
      BY <2>2, <2>3 DEF Sums
    <3> QED
      BY <2>1, <2>2, <2>3, <3>1
  <2>4. CASE V # {}
    <3> DEFINE W == V \ {FirstOf(V)}
    <3>1. W \in SUBSET V /\ W \in SUBSET T /\ W # T
      BY <2>1
    <3>2. PICK k : Sums(f, W, k) /\ k[W] = History!Size(f, W)
      BY <1>4, <3>1
    <3>3. IsFiniteSet(V)
      BY <1>3, <2>1, FS_Subset
    <3>4. h[W] = k[W]
      <4>1. TwoSums(f, V, W, h, k)
        BY <2>2, <3>1, <3>2, <3>3 DEF TwoSums
      <4> QED
        BY ONLY <4>1, SumsAgree
    <3>5. h[V] = f[FirstOf(V)].size + h[W]
      BY <2>2, <2>4 DEF Sums
    <3>6. g[V] = f[FirstOf(V)].size + History!Size(f, W)
      BY <2>1, <2>4
    <3> QED
      BY <2>2, <3>2, <3>4, <3>5, <3>6
  <2> QED
    BY <2>3, <2>4
<1>6. Sums(f, T, g)
  <2>1. \A U \in SUBSET T :
          (IF U = {} THEN 0 ELSE f[FirstOf(U)].size + History!Size(f, U \ {FirstOf(U)}))
            = (IF U = {} THEN 0 ELSE f[FirstOf(U)].size + g[U \ {FirstOf(U)}])
    BY <1>5
  <2> QED
    BY <2>1 DEF Sums
<1> QED
  BY <1>3, <1>6

LEMMA SizeStep ==
  ASSUME NEW f, NEW S, IsFiniteSet(S)
  PROVE  History!Size(f, S) =
           IF S = {} THEN 0 ELSE f[FirstOf(S)].size + History!Size(f, S \ {FirstOf(S)})
<1>1. PICK g : Sums(f, S, g) /\ g[S] = History!Size(f, S)
  BY SumsExist, SizeIs
<1>2. CASE S = {}
  BY <1>1, <1>2 DEF Sums
<1>3. CASE S # {}
  <2> DEFINE T == S \ {FirstOf(S)}
  <2>1. T \in SUBSET S /\ IsFiniteSet(T)
    BY FS_Subset
  <2>2. PICK h : Sums(f, T, h) /\ h[T] = History!Size(f, T)
    BY <2>1, SumsExist, SizeIs
  <2>3. g[T] = h[T]
    <3>1. TwoSums(f, S, T, g, h)
      BY <1>1, <2>1, <2>2 DEF TwoSums
    <3> QED
      BY ONLY <3>1, SumsAgree
  <2>4. g[S] = f[FirstOf(S)].size + g[T]
    BY <1>1, <1>3 DEF Sums
  <2> QED
    BY <1>1, <1>3, <2>2, <2>3, <2>4
<1> QED
  BY <1>2, <1>3

Sized(f, S) == \A r \in S : f[r].size \in Nat

LEMMA SizeIsNat ==
  ASSUME NEW f, NEW S, IsFiniteSet(S), Sized(f, S)
  PROVE  History!Size(f, S) \in Nat
<1> DEFINE Wrong == {T \in SUBSET S : History!Size(f, T) \notin Nat}
<1> SUFFICES ASSUME Wrong # {} PROVE FALSE
  OBVIOUS
<1>1. Wrong \in SUBSET (SUBSET S)
  OBVIOUS
<1>2. PICK T \in Wrong : \A U \in SUBSET T : U # T => U \notin Wrong
  <2> HIDE DEF Wrong
  <2> QED
    BY <1>1, LeastFailing
<1>3. T \in SUBSET S /\ IsFiniteSet(T) /\ History!Size(f, T) \notin Nat
  BY <1>2, FS_Subset
<1>4. T # {}
  <2>1. T = {} => History!Size(f, T) = 0
    BY <1>3, SizeStep
  <2> QED
    BY <1>3, <2>1
<1>5. FirstOf(T) \in T /\ f[FirstOf(T)].size \in Nat
  BY <1>3, <1>4, FirstIsIn DEF Sized
<1>6. History!Size(f, T \ {FirstOf(T)}) \in Nat
  BY <1>2, <1>3, <1>5
<1>7. History!Size(f, T) = f[FirstOf(T)].size + History!Size(f, T \ {FirstOf(T)})
  BY <1>3, <1>4, SizeStep
<1> QED
  BY <1>3, <1>5, <1>6, <1>7

\* Whichever run is left out, the others and it are the sum.
LEMMA SizeWithout ==
  ASSUME NEW f, NEW S, IsFiniteSet(S), Sized(f, S)
  PROVE  \A r \in S : History!Size(f, S) = f[r].size + History!Size(f, S \ {r})
<1> DEFINE Wrong == {T \in SUBSET S : ~\A r \in T : History!Size(f, T) = f[r].size + History!Size(f, T \ {r})}
<1> SUFFICES ASSUME Wrong # {} PROVE FALSE
  OBVIOUS
<1>1. Wrong \in SUBSET (SUBSET S)
  OBVIOUS
<1>2. PICK T \in Wrong : \A U \in SUBSET T : U # T => U \notin Wrong
  <2> HIDE DEF Wrong
  <2> QED
    BY <1>1, LeastFailing
<1>3. PICK r \in T : History!Size(f, T) # f[r].size + History!Size(f, T \ {r})
  BY <1>2
<1>4. T \in SUBSET S /\ IsFiniteSet(T) /\ T # {}
  BY <1>2, <1>3, FS_Subset
<1> DEFINE first == FirstOf(T)
           rest == History!Size(f, (T \ {r}) \ {first})
<1>5. first \in T /\ History!Size(f, T) = f[first].size + History!Size(f, T \ {first})
  BY <1>4, FirstIsIn, SizeStep
<1>6. r # first
  BY <1>3, <1>5
<1>7. History!Size(f, T \ {first}) = f[r].size + rest
  <2>1. T \ {first} \notin Wrong /\ r \in T \ {first}
    BY <1>2, <1>4, <1>5, <1>6
  <2>2. (T \ {first}) \ {r} = (T \ {r}) \ {first}
    OBVIOUS
  <2> QED
    BY <1>4, <2>1, <2>2
<1>8. History!Size(f, T \ {r}) = f[first].size + rest
  <2>1. T \ {r} \notin Wrong /\ first \in T \ {r}
    BY <1>2, <1>4, <1>5, <1>6
  <2> QED
    BY <1>4, <2>1
<1>9. f[r].size \in Nat /\ f[first].size \in Nat
  BY <1>4, <1>5 DEF Sized
<1>10. rest \in Nat
  <2>1. IsFiniteSet((T \ {r}) \ {first}) /\ Sized(f, (T \ {r}) \ {first})
    BY <1>4, FS_Subset DEF Sized
  <2> QED
    BY <2>1, SizeIsNat
<1> QED
  BY <1>3, <1>5, <1>7, <1>8, <1>9, <1>10

LEMMA SizeGrows ==
  ASSUME NEW f, NEW S, IsFiniteSet(S), Sized(f, S), NEW U \in SUBSET S
  PROVE  History!Size(f, U) <= History!Size(f, S)
<1> DEFINE Wrong == {T \in SUBSET S : U \subseteq T /\ ~(History!Size(f, U) <= History!Size(f, T))}
<1> SUFFICES ASSUME Wrong # {} PROVE FALSE
  OBVIOUS
<1>1. Wrong \in SUBSET (SUBSET S)
  OBVIOUS
<1>2. PICK T \in Wrong : \A V \in SUBSET T : V # T => V \notin Wrong
  <2> HIDE DEF Wrong
  <2> QED
    BY <1>1, LeastFailing
<1>3. T \in SUBSET S /\ U \subseteq T /\ ~(History!Size(f, U) <= History!Size(f, T))
  BY <1>2
<1>4. /\ IsFiniteSet(T) /\ Sized(f, T) /\ History!Size(f, T) \in Nat
      /\ History!Size(f, U) \in Nat
  <2>1. IsFiniteSet(T) /\ Sized(f, T) /\ IsFiniteSet(U) /\ Sized(f, U)
    BY <1>3, FS_Subset DEF Sized
  <2> QED
    BY <2>1, SizeIsNat
<1>5. PICK r \in T : r \notin U
  BY <1>3, <1>4
<1>6. IsFiniteSet(T \ {r}) /\ Sized(f, T \ {r}) /\ f[r].size \in Nat
  BY <1>4, <1>5, FS_Subset DEF Sized
<1>7. History!Size(f, T \ {r}) \in Nat
  BY <1>6, SizeIsNat
<1>8. History!Size(f, U) <= History!Size(f, T \ {r})
  BY <1>2, <1>3, <1>5
<1>9. History!Size(f, T) = f[r].size + History!Size(f, T \ {r})
  BY <1>4, <1>5, SizeWithout
<1> QED
  BY <1>3, <1>4, <1>6, <1>7, <1>8, <1>9
-----------------------------------------------------------------------------
\* Of the runs of a finite set one is the last to go.
LEMMA LatestRun ==
  ASSUME NEW f, NEW S, IsFiniteSet(S), S # {},
         \A r \in S : r \in Int /\ f[r].ended \in Int
  PROVE  \E r \in S : History!Since(f, S, r) = {r}
<1> DEFINE Later(T) == \E r \in T : \A q \in T : q # r => History!Earlier(f, q, r)
           Wrong == {T \in SUBSET S : T # {} /\ ~Later(T)}
<1>1. Wrong = {}
  <2> SUFFICES ASSUME Wrong # {} PROVE FALSE
    OBVIOUS
  <2>1. Wrong \in SUBSET (SUBSET S)
    OBVIOUS
  <2>2. PICK T \in Wrong : \A U \in SUBSET T : U # T => U \notin Wrong
    <3> HIDE DEF Wrong
    <3> QED
      BY <2>1, LeastFailing
  <2>3. PICK r \in T : TRUE
    BY <2>2
  <2> DEFINE U == T \ {r}
  <2>4. U \in SUBSET S /\ (U = {} \/ Later(U))
    BY <2>2, <2>3
  <2>5. CASE U = {}
    BY <2>2, <2>3, <2>5
  <2>6. CASE U # {}
    <3>1. PICK s \in U : \A q \in U : q # s => History!Earlier(f, q, s)
      BY <2>4, <2>6
    <3>2. \A q \in T : q \in Int /\ f[q].ended \in Int
      BY <2>2
    <3>3. CASE History!Earlier(f, r, s)
      BY <2>2, <2>3, <3>1, <3>3
    <3>4. CASE ~History!Earlier(f, r, s)
      <4>1. \A q \in T : q # r => History!Earlier(f, q, r)
        BY <2>3, <3>1, <3>2, <3>4 DEF History!Earlier
      <4> QED
        BY <2>2, <2>3, <4>1
    <3> QED
      BY <3>3, <3>4
  <2> QED
    BY <2>5, <2>6
<1>2. PICK r \in S : \A q \in S : q # r => History!Earlier(f, q, r)
  BY <1>1
<1> QED
  BY <1>2 DEF History!Since, History!Earlier

KeptRuns(f, new) == History!Retain(f, new)
Gone(f, new) == History!Visible(f) \ KeptRuns(f, new)

\* What the retention policy keeps and drops of any runs.
LEMMA RetainedInOrder ==
  ASSUME NEW f, IsFiniteSet(DOMAIN f), MaxSize \in Nat,
         \A r \in DOMAIN f : r \in Int /\ f[r].ended \in Int /\ f[r].size \in Nat,
         NEW new, NEW r \in Gone(f, new)
  PROVE  /\ KeptRuns(f, new) # {}
         /\ \A q \in KeptRuns(f, new) : History!Earlier(f, r, q)
         /\ History!Size(f, History!Since(f, Gone(f, new) \cup KeptRuns(f, new), r)) > MaxSize
         /\ \A n \in new : ~(f[n].size > MaxSize)
<1> DEFINE S == History!Visible(f)
<1>1. ~\E n \in new : f[n].size > MaxSize
  BY DEF Gone, KeptRuns, History!Retain
<1>2. KeptRuns(f, new) = History!Fitting(f, S)
  BY <1>1 DEF KeptRuns, History!Retain
<1>3. /\ IsFiniteSet(S) /\ S \subseteq DOMAIN f
      /\ \A q \in S : q \in Int /\ f[q].ended \in Int /\ f[q].size \in Nat
  BY FS_Subset DEF History!Visible
<1>4. /\ r \in S /\ ~(History!Size(f, History!Since(f, S, r)) <= MaxSize)
      /\ History!Since(f, S, r) # {r}
  BY <1>2 DEF Gone, History!Fitting
<1>5. Gone(f, new) \cup KeptRuns(f, new) = S
  BY <1>2 DEF Gone, History!Fitting
<1>6. ASSUME NEW q \in S
      PROVE  /\ IsFiniteSet(History!Since(f, S, q)) /\ Sized(f, History!Since(f, S, q))
             /\ History!Size(f, History!Since(f, S, q)) \in Nat
  <2>1. History!Since(f, S, q) \subseteq S
    BY DEF History!Since
  <2>2. IsFiniteSet(History!Since(f, S, q)) /\ Sized(f, History!Since(f, S, q))
    BY <1>3, <2>1, FS_Subset DEF Sized
  <2> QED
    BY <2>2, SizeIsNat
<1>7. History!Size(f, History!Since(f, S, r)) > MaxSize
  BY <1>4, <1>6
<1>8. KeptRuns(f, new) # {}
  <2>1. PICK q \in S : History!Since(f, S, q) = {q}
    BY <1>3, <1>4, LatestRun
  <2> QED
    BY <1>2, <2>1 DEF History!Fitting
<1>9. ASSUME NEW q \in KeptRuns(f, new) PROVE History!Earlier(f, r, q)
  <2>1. /\ q \in S /\ q # r
        /\ History!Size(f, History!Since(f, S, q)) <= MaxSize \/ History!Since(f, S, q) = {q}
    BY <1>2 DEF Gone, History!Fitting
  <2>2. CASE History!Since(f, S, q) = {q}
    BY <1>4, <2>1, <2>2 DEF History!Since
  <2>3. CASE History!Size(f, History!Since(f, S, q)) <= MaxSize
    <3>1. ~(History!Since(f, S, r) \subseteq History!Since(f, S, q))
      BY <1>4, <1>6, <2>1, <2>3, SizeGrows
    <3>2. PICK p \in S : ~History!Earlier(f, p, r) /\ History!Earlier(f, p, q)
      BY <3>1 DEF History!Since
    <3> QED
      BY <1>3, <1>4, <2>1, <3>2 DEF History!Earlier
  <2> QED
    BY <2>1, <2>2, <2>3
<1> QED
  BY <1>1, <1>5, <1>7, <1>8, <1>9

-----------------------------------------------------------------------------
RunEntry == [ended : Nat, size : RunSizes]

LEMMA HistoryHolds == History!HistoryAssumption
  BY StoresAssumption

HistoryInv ==
  /\ clock \in Nat
  /\ stage \in [Runs -> {"running", "ended", "saved", "unsaved"}]
  /\ \A r \in Runs : stage[r] = "ended" => r \in DOMAIN record
  /\ \A r \in DOMAIN record : record[r] \in RunEntry
  /\ DOMAIN runs \subseteq Runs /\ IsFiniteSet(DOMAIN runs)
  /\ runs \in [DOMAIN runs -> RunEntry]
  /\ \/ incoming = None
     \/ /\ incoming \in [run : Runs, entry : RunEntry]
        /\ stage[incoming.run] \in {"saved", "unsaved"}
        /\ incoming.run \in DOMAIN runs => runs[incoming.run] = incoming.entry

RoomInOrder ==
  LET gone == History!Visible(History!Candidates) \ DOMAIN runs' IN
  \A r \in gone :
    /\ DOMAIN runs' # {}
    /\ \A q \in DOMAIN runs' : History!Earlier(History!Candidates, r, q)
    /\ History!Size(History!Candidates, History!Since(History!Candidates, gone \cup DOMAIN runs', r)) > MaxSize
    /\ incoming' # None => incoming'.entry.size <= MaxSize

LEMMA RunsFit ==
  ASSUME NEW f, IsFiniteSet(DOMAIN f), DOMAIN f \subseteq Runs, f \in [DOMAIN f -> RunEntry]
  PROVE  /\ MaxSize \in Nat
         /\ \A r \in DOMAIN f : r \in Int /\ f[r].ended \in Int /\ f[r].size \in Nat
<1>1. MaxSize \in Nat /\ Runs \subseteq Int /\ RunSizes \subseteq Nat
  BY HistoryHolds DEF History!HistoryAssumption
<1>2. \A r \in DOMAIN f : f[r] \in RunEntry
  OBVIOUS
<1> QED
  BY <1>1, <1>2 DEF RunEntry

\* What a transaction that retains of f, with new among it, comes to.
LEMMA TransactionInOrder ==
  ASSUME NEW f, IsFiniteSet(DOMAIN f), DOMAIN f \subseteq Runs, f \in [DOMAIN f -> RunEntry], NEW new,
         runs' = History!Only(f, History!Retain(f, new)), History!Candidates = f,
         incoming' # None => \E n \in new : incoming'.entry = f[n] /\ f[n] \in RunEntry
  PROVE  /\ RoomInOrder
         /\ DOMAIN runs' \subseteq DOMAIN f /\ IsFiniteSet(DOMAIN runs')
         /\ runs' \in [DOMAIN runs' -> RunEntry]
         /\ \A r \in DOMAIN runs' : runs'[r] = f[r]
<1>1. DOMAIN runs' = KeptRuns(f, new) /\ KeptRuns(f, new) \subseteq DOMAIN f
  BY DEF KeptRuns, History!Only, History!Retain, History!Fitting, History!Visible
<1>2. ASSUME NEW r \in Gone(f, new)
      PROVE  /\ KeptRuns(f, new) # {}
             /\ \A q \in KeptRuns(f, new) : History!Earlier(f, r, q)
             /\ History!Size(f, History!Since(f, Gone(f, new) \cup KeptRuns(f, new), r)) > MaxSize
             /\ \A n \in new : ~(f[n].size > MaxSize)
  BY RunsFit, RetainedInOrder
<1>3. ASSUME incoming' # None, NEW r \in Gone(f, new) PROVE incoming'.entry.size <= MaxSize
  <2>1. PICK n \in new : incoming'.entry = f[n] /\ f[n] \in RunEntry
    BY <1>3
  <2>2. ~(f[n].size > MaxSize)
    BY <1>2
  <2>3. f[n].size \in Nat /\ MaxSize \in Nat
    BY <2>1, HistoryHolds DEF History!HistoryAssumption, RunEntry
  <2> QED
    BY <2>1, <2>2, <2>3
<1>4. RoomInOrder
  BY <1>1, <1>2, <1>3 DEF RoomInOrder, Gone
<1>5. IsFiniteSet(DOMAIN runs')
  BY <1>1, FS_Subset
<1>6. runs' \in [DOMAIN runs' -> RunEntry] /\ \A r \in DOMAIN runs' : runs'[r] = f[r]
  BY <1>1 DEF History!Only, KeptRuns
<1> QED
  BY <1>1, <1>4, <1>5, <1>6

\* A transaction that writes entry as the record of run r.
LEMMA WriteKeeps ==
  ASSUME HistoryInv, NEW r \in Runs, NEW entry \in RunEntry, History!Write(r, entry),
         incoming' = incoming => r \in DOMAIN runs
  PROVE  /\ RoomInOrder
         /\ DOMAIN runs' \subseteq Runs /\ IsFiniteSet(DOMAIN runs')
         /\ runs' \in [DOMAIN runs' -> RunEntry]
         /\ incoming' \in [run : Runs, entry : RunEntry] /\ incoming'.run = r
         /\ incoming'.run \in DOMAIN runs' => runs'[incoming'.run] = incoming'.entry
<1> DEFINE f == History!Set(runs, r, entry)
<1>1. runs' = History!Only(f, History!Retain(f, {r})) /\ incoming' = [run |-> r, entry |-> entry]
  BY DEF History!Write
<1>2. incoming' \in [run : Runs, entry : RunEntry] /\ incoming'.run = r /\ incoming'.entry = entry
  BY <1>1
<1>3. incoming' # None
  BY <1>2, HistoryHolds DEF History!HistoryAssumption, RunEntry
<1>4. DOMAIN f = DOMAIN runs \cup {r} /\ f[r] = entry /\ f \in [DOMAIN f -> RunEntry]
  BY DEF History!Set, HistoryInv
<1>5. IsFiniteSet(DOMAIN f) /\ DOMAIN f \subseteq Runs
  BY <1>4, FS_AddElement DEF HistoryInv
<1>6. History!Candidates = f
  <2>1. CASE incoming' # incoming
    BY <1>1, <1>3, <2>1 DEF History!Candidates
  <2>2. CASE incoming' = incoming
    <3>1. r \in DOMAIN runs /\ runs[r] = entry
      BY <1>2, <1>3, <2>2 DEF HistoryInv
    <3>2. runs = [q \in DOMAIN runs |-> runs[q]]
      BY DEF HistoryInv
    <3>3. f = runs
      BY <3>1, <3>2 DEF History!Set
    <3> QED
      BY <2>2, <3>3 DEF History!Candidates
  <2> QED
    BY <2>1, <2>2
<1>7. \E n \in {r} : incoming'.entry = f[n] /\ f[n] \in RunEntry
  BY <1>2, <1>4
<1> HIDE DEF f
<1>8. /\ RoomInOrder
      /\ DOMAIN runs' \subseteq DOMAIN f /\ IsFiniteSet(DOMAIN runs')
      /\ runs' \in [DOMAIN runs' -> RunEntry]
      /\ \A q \in DOMAIN runs' : runs'[q] = f[q]
  BY <1>1, <1>4, <1>5, <1>6, <1>7, TransactionInOrder
<1> QED
  BY <1>2, <1>4, <1>5, <1>8

LEMMA NothingGoes ==
  ASSUME runs' = runs, incoming' = None \/ incoming' = incoming
  PROVE  RoomInOrder
<1>1. History!Candidates = runs
  BY DEF History!Candidates
<1>2. History!Visible(runs) \subseteq DOMAIN runs
  BY DEF History!Visible
<1> QED
  BY <1>1, <1>2 DEF RoomInOrder

LEMMA HistoryKept ==
  ASSUME HistoryInv, History!Next
  PROVE  HistoryInv' /\ RoomInOrder
<1>1. CASE History!Tick
  <2>1. clock' = clock + 1 /\ incoming' = None /\ UNCHANGED <<stage, record, runs>>
    BY <1>1 DEF History!Tick
  <2> QED
    BY <2>1, NothingGoes DEF HistoryInv
<1>2. CASE History!Prune
  <2>1. incoming' = None /\ UNCHANGED <<clock, stage, record>> /\ History!Candidates = runs
        /\ runs' = History!Only(runs, History!Retain(runs, {}))
    BY <1>2 DEF History!Prune, History!Candidates
  <2>2. IsFiniteSet(DOMAIN runs) /\ DOMAIN runs \subseteq Runs /\ runs \in [DOMAIN runs -> RunEntry]
    BY DEF HistoryInv
  <2>3. /\ RoomInOrder
        /\ DOMAIN runs' \subseteq DOMAIN runs /\ IsFiniteSet(DOMAIN runs')
        /\ runs' \in [DOMAIN runs' -> RunEntry]
    BY <2>1, <2>2, TransactionInOrder
  <2> QED
    BY <2>1, <2>2, <2>3 DEF HistoryInv
<1>3. ASSUME NEW r \in Runs, History!End(r) PROVE HistoryInv' /\ RoomInOrder
  <2>1. PICK size \in RunSizes : record' = History!Set(record, r, [ended |-> clock, size |-> size])
    BY <1>3 DEF History!End
  <2>2. stage[r] = "running" /\ stage' = [stage EXCEPT ![r] = "ended"] /\ UNCHANGED <<clock, runs, incoming>>
    BY <1>3 DEF History!End
  <2>3. [ended |-> clock, size |-> size] \in RunEntry
    BY DEF RunEntry, HistoryInv
  <2>4. DOMAIN record' = DOMAIN record \cup {r} /\ \A q \in DOMAIN record' : record'[q] \in RunEntry
    BY <2>1, <2>3 DEF History!Set, HistoryInv
  <2>5. HistoryInv'
    BY <2>2, <2>4 DEF HistoryInv
  <2> QED
    BY <2>2, <2>5, NothingGoes
<1>4. ASSUME NEW r \in Runs, History!Save(r) PROVE HistoryInv' /\ RoomInOrder
  <2>1. /\ stage[r] = "ended" /\ stage' = [stage EXCEPT ![r] = "saved"] /\ History!Write(r, record[r])
        /\ record' = History!Only(record, DOMAIN record \ {r}) /\ UNCHANGED clock
    BY <1>4 DEF History!Save
  <2>2. record[r] \in RunEntry
    BY <2>1 DEF HistoryInv
  <2>3. incoming' # incoming
    <3>1. incoming' = [run |-> r, entry |-> record[r]] /\ incoming' \in [run : Runs, entry : RunEntry]
      BY <2>1, <2>2 DEF History!Write
    <3>2. incoming' # None
      BY <3>1, HistoryHolds DEF History!HistoryAssumption, RunEntry
    <3> QED
      BY <2>1, <3>1, <3>2 DEF HistoryInv
  <2>4. /\ RoomInOrder
        /\ DOMAIN runs' \subseteq Runs /\ IsFiniteSet(DOMAIN runs')
        /\ runs' \in [DOMAIN runs' -> RunEntry]
        /\ incoming' \in [run : Runs, entry : RunEntry] /\ incoming'.run = r
        /\ incoming'.run \in DOMAIN runs' => runs'[incoming'.run] = incoming'.entry
    BY <2>1, <2>2, <2>3, WriteKeeps
  <2>5. DOMAIN record' = DOMAIN record \ {r} /\ \A q \in DOMAIN record' : record'[q] \in RunEntry
    BY <2>1 DEF History!Only, HistoryInv
  <2> QED
    BY <2>1, <2>4, <2>5 DEF HistoryInv
<1>5. ASSUME NEW r \in Runs, History!Revise(r) PROVE HistoryInv' /\ RoomInOrder
  <2>1. PICK size \in RunSizes : History!Write(r, [ended |-> clock, size |-> size])
    BY <1>5 DEF History!Revise
  <2>2. stage[r] = "saved" /\ r \in DOMAIN runs /\ UNCHANGED <<clock, stage, record>>
    BY <1>5 DEF History!Revise
  <2>3. [ended |-> clock, size |-> size] \in RunEntry
    BY DEF RunEntry, HistoryInv
  <2>4. /\ RoomInOrder
        /\ DOMAIN runs' \subseteq Runs /\ IsFiniteSet(DOMAIN runs')
        /\ runs' \in [DOMAIN runs' -> RunEntry]
        /\ incoming' \in [run : Runs, entry : RunEntry] /\ incoming'.run = r
        /\ incoming'.run \in DOMAIN runs' => runs'[incoming'.run] = incoming'.entry
    BY <2>1, <2>2, <2>3, WriteKeeps
  <2> QED
    BY <2>2, <2>4 DEF HistoryInv
<1>6. ASSUME NEW r \in Runs, History!RecordingFails(r) PROVE HistoryInv' /\ RoomInOrder
  <2>1. /\ stage[r] \in {"ended", "saved"} /\ stage' = [stage EXCEPT ![r] = "unsaved"]
        /\ record' = History!Only(record, DOMAIN record \ {r}) /\ UNCHANGED <<clock, runs, incoming>>
    BY <1>6 DEF History!RecordingFails
  <2>2. DOMAIN record' = DOMAIN record \ {r} /\ \A q \in DOMAIN record' : record'[q] \in RunEntry
    BY <2>1 DEF History!Only, HistoryInv
  <2>3. HistoryInv'
    BY <2>1, <2>2 DEF HistoryInv
  <2> QED
    BY <2>1, <2>3, NothingGoes
<1> QED
  BY <1>1, <1>2, <1>3, <1>4, <1>5, <1>6 DEF History!Next

\* Whichever processes save, revise and prune the runs of a profile, in whatever
\* order: a run that is listed disappears only when it expires, or to make room
\* for runs that ended after it and did not fit with it (WorkflowHistory._retain).
THEOREM RunsGoInOrder == StoresSpec => RunsMakeRoomInOrder
<1>1. StoresInit => HistoryInv
  <2>1. History!Init => HistoryInv
    BY FS_EmptySet DEF History!Init, HistoryInv
  <2> QED
    BY <2>1 DEF StoresInit
<1>2. [StoresNext]_storeVars => History!Next \/ UNCHANGED historyVars
  BY DEF StoresNext, Moves, storeVars
<1>3. HistoryInv /\ UNCHANGED historyVars => HistoryInv'
  BY DEF HistoryInv, historyVars
<1>4. HistoryInv /\ [StoresNext]_storeVars => HistoryInv'
  BY <1>2, <1>3, HistoryKept
<1>5. HistoryInv /\ [StoresNext]_storeVars => [RoomInOrder]_(History!vars)
  BY <1>2, HistoryKept DEF historyVars, History!vars
<1>6. [RoomInOrder]_(History!vars) =>
        [LET gone == History!Visible(History!Candidates) \ DOMAIN runs' IN
         \A r \in gone :
           /\ DOMAIN runs' # {}
           /\ \A q \in DOMAIN runs' : History!Earlier(History!Candidates, r, q)
           /\ History!Size(History!Candidates, History!Since(History!Candidates, gone \cup DOMAIN runs', r)) > MaxSize
           /\ incoming' # None => incoming'.entry.size <= MaxSize]_(History!vars)
  BY DEF RoomInOrder
<1> QED
  BY <1>1, <1>4, <1>5, <1>6, PTL DEF StoresSpec, RunsMakeRoomInOrder, History!RunsMakeRoomInOrder

-----------------------------------------------------------------------------
(***************************************************************************)
(* The settings a loader merges from its layers (Configuration).           *)
(***************************************************************************)

\* A sequence of n entries, of whatever kind, and what one more makes of it.
LEMMA AppendIs ==
  ASSUME NEW n \in Nat, NEW s, s = [i \in 1..n |-> s[i]], NEW z
  PROVE  Len(s) = n /\ Append(s, z) = [i \in 1..(n + 1) |-> IF i = n + 1 THEN z ELSE s[i]]
<1> DEFINE X == {s[i] : i \in 1..n} \cup {z}
<1>1. s \in [1..n -> X]
  <2>1. \A i \in 1..n : s[i] \in X
    OBVIOUS
  <2> HIDE DEF X
  <2> QED
    BY <2>1
<1> HIDE DEF X
<1>2. s \in Seq(X) /\ Len(s) = n
  BY <1>1
<1>3. z \in X
  BY DEF X
<1> QED
  BY <1>2, <1>3

\* Setting, Strongest and ValueIn of the layers a loader has read.
NamedIn(read, p) == {n \in DOMAIN read : p \in Config!Paths(read[n])}
LastOf(N) == IF N = {} THEN 0 ELSE CHOOSE n \in N : \A m \in N : m <= n
StrongestOf(read, p) == LastOf(NamedIn(read, p))
ValueOf(read, n, p) == IF n = 0 THEN Defaults[p[1]][p[2]] ELSE read[n][p[1]][p[2]]

LEMMA LayersOf ==
  /\ \A l, p : Config!Strongest(l, p) = StrongestOf(seen[l], p)
  /\ \A l, n, p : Config!ValueIn(l, n, p) = ValueOf(seen[l], n, p)
  BY DEF Config!Strongest, Config!Setting, Config!ValueIn, StrongestOf, LastOf, NamedIn, ValueOf

\* What loader l has made of the layers it has read.
Explained(n, read, merged, known) ==
  /\ n \in Nat
  /\ read = [i \in 1..n |-> read[i]]
  /\ DOMAIN merged = Config!Sections
  /\ \A s \in Config!Sections : DOMAIN Defaults[s] \subseteq DOMAIN merged[s]
  /\ \A p \in Config!Settings :
       /\ StrongestOf(read, p) \in 0..n
       /\ merged[p[1]][p[2]] = ValueOf(read, StrongestOf(read, p), p)
       /\ p \in DOMAIN known => known[p] = StrongestOf(read, p)

SettingsInv ==
  /\ DOMAIN position = Loaders /\ DOMAIN data = Loaders /\ DOMAIN origins = Loaders /\ DOMAIN seen = Loaders
  /\ \A l \in Loaders : Explained(position[l], seen[l], data[l], origins[l])

\* A setting is a key of a section.
LEMMA SettingsAre ==
  /\ \A p \in Config!Settings : p = <<p[1], p[2]>> /\ p[1] \in DOMAIN Defaults /\ p[2] \in DOMAIN Defaults[p[1]]
  /\ \A doc : \A p \in Config!Settings :
       p \in Config!Paths(doc) <=> p[1] \in DOMAIN doc /\ p[2] \in DOMAIN doc[p[1]]
<1>1. \A doc, p : p \in Config!Paths(doc) /\ Len(p) = 2 =>
         p = <<p[1], p[2]>> /\ p[1] \in DOMAIN doc /\ p[2] \in DOMAIN doc[p[1]]
  BY DEF Config!Paths
<1>2. \A p \in Config!Settings : p \in Config!Paths(Defaults) /\ Len(p) = 2
  BY DEF Config!Settings
<1>3. \A doc, s, k : s \in DOMAIN doc /\ k \in DOMAIN doc[s] => <<s, k>> \in Config!Paths(doc)
  BY DEF Config!Paths
<1>4. \A p \in Config!Settings : p = <<p[1], p[2]>> /\ p[1] \in DOMAIN Defaults /\ p[2] \in DOMAIN Defaults[p[1]]
  BY <1>1, <1>2
<1>5. \A doc : \A p \in Config!Settings :
       p[1] \in DOMAIN doc /\ p[2] \in DOMAIN doc[p[1]] => p \in Config!Paths(doc)
  <2> SUFFICES ASSUME NEW doc, NEW p \in Config!Settings, p[1] \in DOMAIN doc, p[2] \in DOMAIN doc[p[1]]
               PROVE  p \in Config!Paths(doc)
    OBVIOUS
  <2>1. <<p[1], p[2]>> \in Config!Paths(doc)
    BY <1>3
  <2> QED
    BY <1>4, <2>1
<1> QED
  BY <1>1, <1>2, <1>4, <1>5

\* One more layer: what it names is its own, of the rest nothing changes.
LEMMA LayerExplained ==
  ASSUME NEW n, NEW read, NEW merged, NEW known, Explained(n, read, merged, known), NEW doc
  PROVE  Explained(n + 1, Append(read, doc), Config!DeepMerge(merged, doc),
                   Config!RecordOrigins(known, doc, n + 1))
<1> DEFINE next2 == Append(read, doc)
           merged2 == Config!DeepMerge(merged, doc)
           known2 == Config!RecordOrigins(known, doc, n + 1)
<1>1. n \in Nat /\ DOMAIN read = 1..n /\ next2 = [i \in 1..(n + 1) |-> IF i = n + 1 THEN doc ELSE read[i]]
  BY AppendIs DEF Explained
<1>4. next2 = [i \in 1..(n + 1) |-> next2[i]]
  BY <1>1
<1> HIDE DEF next2
<1>2. /\ DOMAIN merged2 = Config!Sections
      /\ \A s \in Config!Sections : DOMAIN Defaults[s] \subseteq DOMAIN merged2[s]
  BY DEF Explained, Config!DeepMerge
<1>3. ASSUME NEW p \in Config!Settings
      PROVE  /\ StrongestOf(next2, p) \in 0..(n + 1)
             /\ merged2[p[1]][p[2]] = ValueOf(next2, StrongestOf(next2, p), p)
             /\ p \in DOMAIN known2 => known2[p] = StrongestOf(next2, p)
  <2>1. /\ p[1] \in Config!Sections /\ p[2] \in DOMAIN Defaults[p[1]]
        /\ p \in Config!Paths(doc) <=> p[1] \in DOMAIN doc /\ p[2] \in DOMAIN doc[p[1]]
    BY SettingsAre DEF Config!Sections
  <2>2. p[2] \in DOMAIN merged[p[1]]
    BY <2>1 DEF Explained
  <2>3. CASE p \in Config!Paths(doc)
    <3>1. n + 1 \in NamedIn(next2, p) /\ \A m \in NamedIn(next2, p) : m \in 1..(n + 1)
      BY <1>1, <2>3 DEF NamedIn
    <3>2. StrongestOf(next2, p) = n + 1
      <4> DEFINE N == NamedIn(next2, p)
      <4>1. n + 1 \in N /\ N \subseteq 1..(n + 1)
        BY <3>1
      <4> HIDE DEF N
      <4>2. \A top \in N : (\A m \in N : m <= top) => top = n + 1
        BY <1>1, <4>1
      <4>3. \A m \in N : m <= n + 1
        BY <1>1, <4>1
      <4>4. LET last == CHOOSE z \in N : \A m \in N : m <= z IN last = n + 1
        BY <4>1, <4>2, <4>3
      <4>5. LastOf(N) = n + 1
        BY <4>1, <4>4 DEF LastOf
      <4> QED
        BY <4>5 DEF StrongestOf, N
    <3>3. merged2[p[1]][p[2]] = doc[p[1]][p[2]]
      BY <2>1, <2>3 DEF Config!DeepMerge
    <3>4. ValueOf(next2, n + 1, p) = doc[p[1]][p[2]]
      BY <1>1 DEF ValueOf
    <3>5. known2[p] = n + 1
      BY <2>3 DEF Config!RecordOrigins
    <3> QED
      BY <1>1, <3>2, <3>3, <3>4, <3>5
  <2>4. CASE p \notin Config!Paths(doc)
    <3>1. NamedIn(next2, p) = NamedIn(read, p)
      <4>1. \A m : m \in NamedIn(next2, p) <=> m \in NamedIn(read, p)
        BY <1>1, <2>4 DEF NamedIn
      <4> QED
        BY <4>1
    <3>2. StrongestOf(next2, p) = StrongestOf(read, p) /\ StrongestOf(read, p) \in 0..n
      BY <3>1 DEF StrongestOf, Explained
    <3>3. ValueOf(next2, StrongestOf(read, p), p) = ValueOf(read, StrongestOf(read, p), p)
      BY <1>1, <3>2 DEF ValueOf
    <3>4. merged2[p[1]][p[2]] = merged[p[1]][p[2]]
      BY <2>1, <2>2, <2>4 DEF Config!DeepMerge
    <3>5. p \in DOMAIN known2 => p \in DOMAIN known /\ known2[p] = known[p]
      BY <2>4 DEF Config!RecordOrigins
    <3> QED
      BY <1>1, <3>2, <3>3, <3>4, <3>5 DEF Explained
  <2> QED
    BY <2>3, <2>4
<1> HIDE DEF merged2, known2
<1>5. Explained(n + 1, next2, merged2, known2)
  <2>1. n + 1 \in Nat
    BY <1>1
  <2> QED
    BY <1>2, <1>3, <1>4, <2>1 DEF Explained
<1> QED
  BY <1>5 DEF next2, merged2, known2

LEMMA SettingsKept ==
  ASSUME SettingsInv, Config!ConfigNext
  PROVE  SettingsInv'
<1>1. CASE UNCHANGED <<position, seen, data, origins>>
  BY <1>1 DEF SettingsInv
<1>2. ASSUME NEW l \in Loaders, Config!ReadLayer(l) PROVE SettingsInv'
  <2> DEFINE doc == Config!Sanitized(yaml[Layers[l][position[l] + 1]])
  <2>1. CASE UNCHANGED <<position, seen, data, origins>>
    BY <1>1, <2>1
  <2>2. CASE ~UNCHANGED <<position, seen, data, origins>>
    <3>1. /\ position' = [position EXCEPT ![l] = position[l] + 1]
          /\ data' = [data EXCEPT ![l] = Config!DeepMerge(data[l], doc)]
          /\ origins' = [origins EXCEPT ![l] = Config!RecordOrigins(origins[l], doc, position[l] + 1)]
          /\ seen' = [seen EXCEPT ![l] = Append(seen[l], doc)]
      BY <1>2, <2>2 DEF Config!ReadLayer
    <3> HIDE DEF doc
    <3>2. Explained(position'[l], seen'[l], data'[l], origins'[l])
      BY <3>1, LayerExplained DEF SettingsInv
    <3>3. ASSUME NEW k \in Loaders PROVE Explained(position'[k], seen'[k], data'[k], origins'[k])
      BY <3>1, <3>2 DEF SettingsInv
    <3> QED
      BY <3>1, <3>3 DEF SettingsInv
  <2> QED
    BY <2>1, <2>2
<1>3. ASSUME NEW l \in Loaders, Config!Resolve(l) \/ Config!Compare(l) \/ Config!Replace(l)
      PROVE  UNCHANGED <<position, seen, data, origins>>
  BY <1>3 DEF Config!Resolve, Config!Compare, Config!Replace
<1>4. ASSUME NEW f \in Config!FileNames, Config!Edit(f) PROVE UNCHANGED <<position, seen, data, origins>>
  BY <1>4 DEF Config!Edit
<1>5. Config!ConfigDone => UNCHANGED <<position, seen, data, origins>>
  BY DEF Config!ConfigDone, Config!configVars
<1> QED
  BY <1>1, <1>2, <1>3, <1>4, <1>5 DEF Config!ConfigNext

\* Whatever sections and keys the layers of the settings name, and whoever edits
\* or rewrites the files meanwhile: each setting has the value of the strongest
\* layer that names it, and the origin "config explain" gives for it is that
\* layer (Configuration, layers.py and provenance.py).
THEOREM OriginsHold == StoresSpec => []OriginsAreTrue
<1>1. StoresInit => SettingsInv
  <2> SUFFICES ASSUME Config!ConfigInit PROVE SettingsInv
    BY DEF StoresInit
  <2>1. ASSUME NEW l \in Loaders PROVE Explained(0, <<>>, Defaults, [p \in Config!Paths(Defaults) |-> 0])
    <3>1. \A p : NamedIn(<<>>, p) = {}
      BY DEF NamedIn
    <3>2. \A p : StrongestOf(<<>>, p) = 0
      BY <3>1 DEF StrongestOf, LastOf
    <3>3. <<>> = [i \in 1..0 |-> <<>>[i]]
      OBVIOUS
    <3> QED
      BY <3>2, <3>3 DEF Explained, ValueOf, Config!Sections
  <2> QED
    BY <2>1 DEF SettingsInv, Config!ConfigInit
<1>2. [StoresNext]_storeVars => Config!ConfigNext \/ UNCHANGED settingVars
  BY DEF StoresNext, Moves, storeVars
<1>3. SettingsInv /\ UNCHANGED settingVars => SettingsInv'
  BY DEF SettingsInv, settingVars
<1>4. SettingsInv /\ [StoresNext]_storeVars => SettingsInv'
  BY <1>2, <1>3, SettingsKept
<1>5. SettingsInv => OriginsAreTrue
  BY LayersOf DEF SettingsInv, Explained, OriginsAreTrue, Config!OriginsAreTrue
<1> QED
  BY <1>1, <1>4, <1>5, PTL DEF StoresSpec

-----------------------------------------------------------------------------
(***************************************************************************)
(* The log of a chapter and the verdict on it (ChapterLog).                *)
(***************************************************************************)

LEMMA LeastNumber ==
  ASSUME NEW Wrong \in SUBSET Nat, Wrong # {}
  PROVE  \E n \in Wrong : \A m \in Wrong : n <= m
<1> DEFINE Less == OpToRel(<, Nat)
<1>1. IsWellFoundedOn(Less, Nat)
  BY NatLessThanWellFounded
<1>2. PICK n \in Wrong : \A m \in Wrong : <<m, n>> \notin Less
  <2> HIDE DEF Less
  <2> QED
    BY <1>1, WFMin
<1>3. \A i, j \in Nat : i < j => <<i, j>> \in Less
  BY DEF OpToRel
<1> HIDE DEF Less
<1>4. \A m \in Wrong : ~(m < n)
  BY <1>2, <1>3
<1> QED
  BY <1>2, <1>4

-----------------------------------------------------------------------------
\* What FoldLeft of Log!Lines is defined by: the last line is read last.
Reading(p, kinds, S, g) ==
  g = [T \in SUBSET S |-> IF T = {} THEN p ELSE Log!Line(g[T \ {Log!Max(T)}], kinds[Log!Max(T)])]
Read(p, kinds, S) == (CHOOSE g : Reading(p, kinds, S, g))[S]

LEMMA LinesAre == \A p, kinds : Log!Lines(p, kinds) = Read(p, kinds, DOMAIN kinds)
  BY DEF Log!Lines, Log!FoldLeft, Log!MapThenFoldSet, Read, Reading

LEMMA MaxIs ==
  ASSUME NEW S \in SUBSET Nat, IsFiniteSet(S), S # {}
  PROVE  Log!Max(S) \in S /\ \A i \in S : i <= Log!Max(S)
<1> DEFINE Top(T) == \E i \in T : \A j \in T : i >= j
           Wrong == {T \in SUBSET S : T # {} /\ ~Top(T)}
<1>1. Wrong = {}
  <2> SUFFICES ASSUME Wrong # {} PROVE FALSE
    OBVIOUS
  <2>1. Wrong \in SUBSET (SUBSET S)
    OBVIOUS
  <2>2. PICK T \in Wrong : \A U \in SUBSET T : U # T => U \notin Wrong
    <3> HIDE DEF Wrong
    <3> QED
      BY <2>1, LeastFailing
  <2>3. PICK i \in T : TRUE
    BY <2>2
  <2> DEFINE U == T \ {i}
  <2>4. U = {} \/ Top(U)
    BY <2>2, <2>3
  <2>5. T \subseteq Nat
    BY <2>2
  <2>6. CASE U = {}
    BY <2>2, <2>3, <2>5, <2>6
  <2>7. CASE Top(U)
    <3>1. PICK k \in U : \A j \in U : k >= j
      BY <2>7
    <3>2. CASE k >= i
      BY <2>2, <2>3, <2>5, <3>1, <3>2
    <3>3. CASE ~(k >= i)
      <4>1. \A j \in T : i >= j
        BY <2>3, <2>5, <3>1, <3>3
      <4> QED
        BY <2>2, <4>1
    <3> QED
      BY <3>2, <3>3
  <2> QED
    BY <2>4, <2>6, <2>7
<1>2. \E i \in S : \A j \in S : i >= j
  BY <1>1
<1>3. Log!Max(S) \in S /\ \A j \in S : Log!Max(S) >= j
  BY <1>2 DEF Log!Max
<1> QED
  BY <1>3

\* Two readings, of which the second is of some of the lines only.
TwoReadings(p, kinds, others, S, T, g, h) ==
  /\ S \in SUBSET Nat /\ IsFiniteSet(S) /\ T \in SUBSET S
  /\ Reading(p, kinds, S, g) /\ Reading(p, others, T, h)
  /\ \A i \in T : others[i] = kinds[i]

LEMMA ReadingsAgree ==
  ASSUME NEW p, NEW kinds, NEW others, NEW S, NEW T, NEW g, NEW h,
         TwoReadings(p, kinds, others, S, T, g, h)
  PROVE  g[T] = h[T]
<1>0. /\ S \in SUBSET Nat /\ IsFiniteSet(S) /\ T \in SUBSET S
      /\ Reading(p, kinds, S, g) /\ Reading(p, others, T, h)
      /\ \A i \in T : others[i] = kinds[i]
  BY DEF TwoReadings
<1> DEFINE Wrong == {U \in SUBSET T : g[U] # h[U]}
<1> SUFFICES ASSUME Wrong # {} PROVE FALSE
  OBVIOUS
<1>1. IsFiniteSet(T) /\ Wrong \in SUBSET (SUBSET T)
  BY <1>0, FS_Subset
<1>2. PICK U \in Wrong : \A V \in SUBSET U : V # U => V \notin Wrong
  <2> HIDE DEF Wrong
  <2> QED
    BY <1>1, LeastFailing
<1>3. U \in SUBSET T /\ U \in SUBSET S /\ g[U] # h[U] /\ IsFiniteSet(U) /\ U \subseteq Nat
  BY <1>0, <1>2, FS_Subset
<1>4. U # {}
  <2>1. g[{}] = p /\ h[{}] = p
    BY <1>0 DEF Reading
  <2> QED
    BY <1>3, <2>1
<1>5. Log!Max(U) \in U
  BY <1>3, <1>4, MaxIs
<1> DEFINE V == U \ {Log!Max(U)}
<1>6. g[V] = h[V]
  BY <1>2, <1>3, <1>5
<1>7. g[U] = Log!Line(g[V], kinds[Log!Max(U)]) /\ h[U] = Log!Line(h[V], others[Log!Max(U)])
  BY <1>0, <1>3, <1>4 DEF Reading
<1>8. others[Log!Max(U)] = kinds[Log!Max(U)]
  BY <1>0, <1>3, <1>5
<1> QED
  BY <1>3, <1>6, <1>7, <1>8

LEMMA ReadingExists ==
  ASSUME NEW p, NEW kinds, NEW S \in SUBSET Nat, IsFiniteSet(S)
  PROVE  \E g : Reading(p, kinds, S, g)
<1> DEFINE Wrong == {T \in SUBSET S : ~\E g : Reading(p, kinds, T, g)}
<1> SUFFICES ASSUME Wrong # {} PROVE FALSE
  OBVIOUS
<1>1. Wrong \in SUBSET (SUBSET S)
  OBVIOUS
<1>2. PICK T \in Wrong : \A U \in SUBSET T : U # T => U \notin Wrong
  <2> HIDE DEF Wrong
  <2> QED
    BY <1>1, LeastFailing
<1>3. T \in SUBSET S /\ ~\E g : Reading(p, kinds, T, g)
  BY <1>2
<1>4. ASSUME NEW U \in SUBSET T
      PROVE  IsFiniteSet(U) /\ U \subseteq Nat /\ (U # {} => Log!Max(U) \in U)
  BY <1>3, FS_Subset, MaxIs
<1>5. ASSUME NEW U \in SUBSET T, U # T
      PROVE  \E h : Reading(p, kinds, U, h) /\ h[U] = Read(p, kinds, U)
  <2>1. \E h : Reading(p, kinds, U, h)
    BY <1>2, <1>3, <1>5
  <2> QED
    BY <2>1 DEF Read
<1> DEFINE g == [U \in SUBSET T |-> IF U = {} THEN p
                                    ELSE Log!Line(Read(p, kinds, U \ {Log!Max(U)}), kinds[Log!Max(U)])]
<1>6. ASSUME NEW U \in SUBSET T, U # {}
      PROVE  g[U \ {Log!Max(U)}] = Read(p, kinds, U \ {Log!Max(U)})
  <2> DEFINE V == U \ {Log!Max(U)}
  <2>1. V \in SUBSET T /\ V # T
    BY <1>4, <1>6
  <2>2. PICK h : Reading(p, kinds, V, h) /\ h[V] = Read(p, kinds, V)
    BY <1>5, <2>1
  <2>3. CASE V = {}
    <3>1. h[V] = p
      BY <2>2, <2>3 DEF Reading
    <3> QED
      BY <2>1, <2>2, <2>3, <3>1
  <2>4. CASE V # {}
    <3> DEFINE W == V \ {Log!Max(V)}
    <3>1. W \in SUBSET V /\ W \in SUBSET T /\ W # T
      BY <2>1
    <3>2. PICK k : Reading(p, kinds, W, k) /\ k[W] = Read(p, kinds, W)
      BY <1>5, <3>1
    <3>3. IsFiniteSet(V) /\ V \subseteq Nat
      BY <1>4, <2>1
    <3>4. h[W] = k[W]
      <4> HIDE DEF V, W
      <4>1. TwoReadings(p, kinds, kinds, V, W, h, k)
        BY <2>2, <3>1, <3>2, <3>3 DEF TwoReadings
      <4>2. h[W] = k[W]
        BY ONLY <4>1, ReadingsAgree
      <4> QED
        BY <4>2
    <3>5. h[V] = Log!Line(h[W], kinds[Log!Max(V)])
      BY <2>2, <2>4 DEF Reading
    <3>6. g[V] = Log!Line(Read(p, kinds, W), kinds[Log!Max(V)])
      BY <2>1, <2>4
    <3> QED
      BY <2>2, <3>2, <3>4, <3>5, <3>6
  <2> QED
    BY <2>3, <2>4
<1>7. Reading(p, kinds, T, g)
  <2>1. \A U \in SUBSET T :
          (IF U = {} THEN p ELSE Log!Line(Read(p, kinds, U \ {Log!Max(U)}), kinds[Log!Max(U)]))
            = (IF U = {} THEN p ELSE Log!Line(g[U \ {Log!Max(U)}], kinds[Log!Max(U)]))
    BY <1>6
  <2> QED
    BY <2>1 DEF Reading
<1> QED
  BY <1>3, <1>7

LEMMA ReadStep ==
  ASSUME NEW p, NEW kinds, NEW S \in SUBSET Nat, IsFiniteSet(S)
  PROVE  Read(p, kinds, S) =
           IF S = {} THEN p ELSE Log!Line(Read(p, kinds, S \ {Log!Max(S)}), kinds[Log!Max(S)])
<1>1. PICK g : Reading(p, kinds, S, g) /\ g[S] = Read(p, kinds, S)
  BY ReadingExists DEF Read
<1>2. CASE S = {}
  BY <1>1, <1>2 DEF Reading
<1>3. CASE S # {}
  <2> DEFINE T == S \ {Log!Max(S)}
  <2>1. T \in SUBSET S /\ IsFiniteSet(T) /\ T \subseteq Nat
    BY FS_Subset
  <2>2. PICK h : Reading(p, kinds, T, h) /\ h[T] = Read(p, kinds, T)
    BY <2>1, ReadingExists DEF Read
  <2>3. g[T] = h[T]
    <3> HIDE DEF T
    <3>1. TwoReadings(p, kinds, kinds, S, T, g, h)
      BY <1>1, <2>1, <2>2 DEF TwoReadings
    <3>2. g[T] = h[T]
      BY ONLY <3>1, ReadingsAgree
    <3> QED
      BY <3>2
  <2>4. g[S] = Log!Line(g[T], kinds[Log!Max(S)])
    BY <1>1, <1>3 DEF Reading
  <2> QED
    BY <1>1, <1>3, <2>2, <2>3, <2>4
<1> QED
  BY <1>2, <1>3

\* The parser after n of the lines.
After(p, kinds, n) == Read(p, kinds, 1..n)

LEMMA NextLine ==
  ASSUME NEW p, NEW kinds
  PROVE  /\ After(p, kinds, 0) = p
         /\ \A n \in Nat : After(p, kinds, n + 1) = Log!Line(After(p, kinds, n), kinds[n + 1])
<1>1. After(p, kinds, 0) = p
  <2>1. 1..0 = {} /\ IsFiniteSet({})
    BY FS_EmptySet
  <2>2. Read(p, kinds, {}) = p
    BY <2>1, ReadStep
  <2> QED
    BY <2>1, <2>2 DEF After
<1>2. ASSUME NEW n \in Nat
      PROVE  After(p, kinds, n + 1) = Log!Line(After(p, kinds, n), kinds[n + 1])
  <2> DEFINE S == 1..(n + 1)
  <2>1. IsFiniteSet(S) /\ S \subseteq Nat /\ n + 1 \in S
    BY FS_Interval
  <2>2. Log!Max(S) = n + 1
    <3>1. Log!Max(S) \in S /\ \A i \in S : i <= Log!Max(S)
      <4> HIDE DEF S
      <4> QED
        BY <2>1, MaxIs
    <3> QED
      BY <2>1, <3>1
  <2>3. S \ {n + 1} = 1..n
    OBVIOUS
  <2> HIDE DEF S
  <2>4. Read(p, kinds, S) =
           IF S = {} THEN p ELSE Log!Line(Read(p, kinds, S \ {Log!Max(S)}), kinds[Log!Max(S)])
    BY <2>1, ReadStep
  <2>5. Read(p, kinds, S) = Log!Line(Read(p, kinds, S \ {n + 1}), kinds[n + 1])
    BY <2>1, <2>2, <2>4
  <2> QED
    BY <2>3, <2>5 DEF After, S
<1> QED
  BY <1>1, <1>2

LEMMA LinesUpTo ==
  ASSUME NEW p, NEW X, NEW kinds \in Seq(X), NEW n \in 0..Len(kinds)
  PROVE  Log!Lines(p, SubSeq(kinds, 1, n)) = After(p, kinds, n)
<1> DEFINE part == SubSeq(kinds, 1, n)
           S == 1..n
<1>1. DOMAIN part = S /\ \A i \in S : part[i] = kinds[i]
  OBVIOUS
<1>2. IsFiniteSet(S) /\ S \subseteq Nat
  BY FS_Interval
<1> HIDE DEF part, S
<1>3. PICK g : Reading(p, kinds, S, g) /\ g[S] = Read(p, kinds, S)
  BY <1>2, ReadingExists DEF Read
<1>4. PICK h : Reading(p, part, S, h) /\ h[S] = Read(p, part, S)
  BY <1>2, ReadingExists DEF Read
<1>5. g[S] = h[S]
  <2>1. TwoReadings(p, kinds, part, S, S, g, h)
    BY <1>1, <1>2, <1>3, <1>4 DEF TwoReadings
  <2>2. g[S] = h[S]
    BY ONLY <2>1, ReadingsAgree
  <2> QED
    BY <2>2
<1>6. Log!Lines(p, part) = Read(p, part, S)
  BY <1>1, LinesAre
<1> QED
  BY <1>3, <1>4, <1>5, <1>6 DEF After, part, S

-----------------------------------------------------------------------------
LineKinds == {"---", "url", "title", "entry", "group", "done", "blank", "junk"}
NoLine == ""  \* the file ends where a line does

\* What _LogParser can be in, and when no line helps any more.
Parser == {p \in [header : Seq(LineKinds), session : BOOLEAN, recognized : BOOLEAN,
                  errors : BOOLEAN, flagged : BOOLEAN] : p.header # <<>> => p.header[1] = "---"}

HeaderUpTo(k) ==
  IF k = 1 THEN <<"---">> ELSE IF k = 2 THEN <<"---", "url">>
  ELSE IF k = 3 THEN <<"---", "url", "title">> ELSE <<>>

Doomed(p) ==
  \/ p.flagged
  \/ p.header \notin {HeaderUpTo(k) : k \in 0..3}
  \/ p.header # <<>> /\ p.session

\* The lines u of a session of which k header lines are in the file.
Rest(u, k) ==
  /\ Len(u) >= 4 - k
  /\ \A i \in 1..(4 - k) : u[i] = Log!Header[k + i]
  /\ \A i \in 1..Len(u) : i > 4 - k => u[i] \in {"entry", "group", "done"} /\ (u[i] = "done" => i = Len(u))

Live(s) == logPhase[s] \in {"open", "saved", "failed", "done"}

\* Session s has left no trace, or is over.
Quiet(s) ==
  \/ wrote[s] = {}
  \/ /\ "done" \in wrote[s] /\ ("group" \in wrote[s] => parsed.errors)
     /\ Live(s) => buffer[s] = <<>>

\* The file ends where a session does.
Between ==
  /\ parsed.header = <<>> /\ ~parsed.session /\ tail = NoLine /\ cut = {}
  /\ \A s \in Sessions : Quiet(s)

\* The file ends in session c, of which k header lines have been read.
Within(c, k) ==
  /\ wrote[c] # {} /\ \A s \in Sessions \ {c} : Quiet(s)
  /\ parsed.header = HeaderUpTo(k) /\ parsed.session = (k = 4)
  /\ Live(c) => Rest(buffer[c], k)
  /\ k < 4 => torn
  /\ \/ /\ tail = NoLine /\ cut = {} /\ k > 0
        /\ "done" \notin wrote[c] /\ ("group" \in wrote[c] => parsed.errors)
     \/ /\ cut = {c} /\ torn
        /\ tail \in IF k < 4 THEN {Log!Header[k + 1], "junk"} ELSE {"entry", "group", "done", "junk"}
        /\ tail = "done" => "done" \in wrote[c] /\ ("group" \in wrote[c] => parsed.errors)
        /\ Live(c) => /\ buffer[c] # <<>>
                      /\ "group" \in wrote[c] => parsed.errors \/ buffer[c][1] = "group"
                      /\ "done" \in wrote[c] => buffer[c][1] = "done"

\* Session c was cut in its first line within another session.
Crossed(c) ==
  /\ parsed.header = <<>> /\ parsed.session /\ tail \in {"---", "junk"} /\ cut = {c} /\ torn
  /\ Live(c) => Rest(buffer[c], 0)

SessionFits(s) ==
  /\ logPhase[s] = "new" => buffer[s] = <<>> /\ wrote[s] = {}
  /\ Live(s) /\ wrote[s] = {} => Rest(buffer[s], 0)
  /\ Live(s) /\ logPhase[s] # "done" => \A i \in 1..Len(buffer[s]) : buffer[s][i] # "done"
  /\ "done" \in wrote[s] => logPhase[s] \in {"done", "closed", "dead"}

LogTyped ==
  /\ parsed \in Parser
  /\ tail \in LineKinds \cup {NoLine}
  /\ buffer \in [Sessions -> Seq(LineKinds)]
  /\ logPhase \in [Sessions -> {"new", "open", "saved", "failed", "done", "closed", "dead"}]
  /\ wrote \in [Sessions -> SUBSET LineKinds]
  /\ cut \subseteq Sessions /\ torn \in BOOLEAN

FileFits ==
  \/ Doomed(parsed)
  \/ Between
  \/ \E c \in Sessions, k \in 0..4 : Within(c, k)
  \/ \E c \in Sessions : Crossed(c)

LogInv == LogTyped /\ (\A s \in Sessions : SessionFits(s)) /\ FileFits

-----------------------------------------------------------------------------
Fields(p, header, session, errors, flagged) ==
  p.header = header /\ p.session = session /\ p.errors = errors /\ p.flagged = flagged

LEMMA OneLine ==
  ASSUME NEW X, NEW s \in Seq(X), Len(s) = 1
  PROVE  s = <<s[1]>>
  OBVIOUS

LEMMA TwoLines ==
  ASSUME NEW X, NEW s \in Seq(X), Len(s) = 2
  PROVE  s = <<s[1], s[2]>>
  OBVIOUS

LEMMA ThreeLines ==
  ASSUME NEW X, NEW s \in Seq(X), Len(s) = 3
  PROVE  s = <<s[1], s[2], s[3]>>
  OBVIOUS

LEMMA AppendGives ==
  ASSUME NEW X, NEW s \in Seq(X), NEW z \in X
  PROVE  /\ Append(s, z) \in Seq(X) /\ Len(s) = Len(Append(s, z)) - 1
         /\ \A i \in 1..Len(s) : Append(s, z)[i] = s[i]
  OBVIOUS

LEMMA TailGives ==
  ASSUME NEW X, NEW s \in Seq(X), s # <<>>
  PROVE  /\ Tail(s) \in Seq(X) /\ Len(s) \in Nat /\ Len(Tail(s)) = Len(s) - 1
         /\ \A i \in 1..(Len(s) - 1) : Tail(s)[i] = s[i + 1]
  OBVIOUS

LEMMA AppendToTwo ==
  ASSUME NEW X, NEW s \in Seq(X), NEW z \in X, NEW v, NEW w, Append(s, z) = <<v, w>>
  PROVE  s = <<v>>
<1> DEFINE t == Append(s, z)
<1>1. t \in Seq(X) /\ Len(s) = Len(t) - 1 /\ \A i \in 1..Len(s) : t[i] = s[i]
  BY AppendGives
<1>2. t = <<v, w>>
  OBVIOUS
<1> HIDE DEF t
<1>3. Len(t) = 2 /\ t[1] = v
  BY <1>2
<1>4. Len(s) = 1
  BY <1>1, <1>3
<1>5. s[1] = v
  BY <1>1, <1>3, <1>4
<1> QED
  BY <1>4, <1>5, OneLine

LEMMA AppendToThree ==
  ASSUME NEW X, NEW s \in Seq(X), NEW z \in X, NEW v, NEW w, NEW y, Append(s, z) = <<v, w, y>>
  PROVE  s = <<v, w>>
<1> DEFINE t == Append(s, z)
<1>1. t \in Seq(X) /\ Len(s) = Len(t) - 1 /\ \A i \in 1..Len(s) : t[i] = s[i]
  BY AppendGives
<1>2. t = <<v, w, y>>
  OBVIOUS
<1> HIDE DEF t
<1>3. Len(t) = 3 /\ t[1] = v /\ t[2] = w
  BY <1>2
<1>4. Len(s) = 2
  BY <1>1, <1>3
<1>5. s[1] = v /\ s[2] = w
  BY <1>1, <1>3, <1>4
<1> QED
  BY <1>4, <1>5, TwoLines

LEMMA TailIsTwo ==
  ASSUME NEW X, NEW s \in Seq(X), s # <<>>, NEW v, NEW w, Tail(s) = <<v, w>>
  PROVE  s = <<s[1], v, w>>
<1> DEFINE t == Tail(s)
<1>1. t \in Seq(X) /\ Len(t) = Len(s) - 1 /\ Len(s) \in Nat /\ \A i \in 1..(Len(s) - 1) : t[i] = s[i + 1]
  BY TailGives
<1>2. t = <<v, w>>
  OBVIOUS
<1> HIDE DEF t
<1>3. Len(t) = 2 /\ t[1] = v /\ t[2] = w
  BY <1>2
<1>4. Len(s) = 3
  BY <1>1, <1>3
<1>5. s[2] = t[1] /\ s[3] = t[2]
  BY <1>1, <1>4
<1>6. s = <<s[1], s[2], s[3]>>
  BY <1>4, ThreeLines
<1> QED
  BY <1>3, <1>5, <1>6

LEMMA HeaderIs ==
  /\ Len(Log!Header) = 4 /\ Log!Header \in Seq(LineKinds)
  /\ Log!Header[1] = "---" /\ Log!Header[2] = "url" /\ Log!Header[3] = "title" /\ Log!Header[4] = "---"
  /\ SubSeq(Log!Header, 2, 3) = <<"url", "title">>
<1>1. /\ Len(Log!Header) = 4 /\ Log!Header \in Seq(LineKinds)
      /\ Log!Header[1] = "---" /\ Log!Header[2] = "url" /\ Log!Header[3] = "title" /\ Log!Header[4] = "---"
  BY DEF Log!Header, LineKinds
<1> DEFINE keys == SubSeq(Log!Header, 2, 3)
<1>2. keys \in Seq(LineKinds) /\ Len(keys) = 2 /\ keys[1] = Log!Header[2] /\ keys[2] = Log!Header[3]
  BY <1>1
<1> HIDE DEF keys
<1>3. keys = <<keys[1], keys[2]>>
  BY <1>2, TwoLines
<1> QED
  BY <1>1, <1>2, <1>3 DEF keys

\* q is a parser with these fields.
Made(q, h, e, r, b, f) ==
  /\ h \in Seq(LineKinds) /\ (h # <<>> => h[1] = "---")
  /\ e \in BOOLEAN /\ r \in BOOLEAN /\ b \in BOOLEAN /\ f \in BOOLEAN
  /\ q = [header |-> h, session |-> e, recognized |-> r, errors |-> b, flagged |-> f]

LEMMA ParserMade ==
  ASSUME NEW q, NEW h, NEW e, NEW r, NEW b, NEW f, Made(q, h, e, r, b, f)
  PROVE  q \in Parser /\ Fields(q, h, e, b, f)
  BY DEF Made, Parser, Fields

\* What a line makes of the parser.
LEMMA LineReads ==
  ASSUME NEW p \in Parser, NEW kind \in LineKinds
  PROVE  /\ Log!Line(p, kind) \in Parser
         /\ p.header # <<>> /\ kind = "---" /\ Tail(p.header) = <<"url", "title">> =>
              Fields(Log!Line(p, kind), <<>>, TRUE, p.errors, p.flagged \/ p.session)
         /\ p.header # <<>> /\ kind = "---" /\ Tail(p.header) # <<"url", "title">> =>
              Fields(Log!Line(p, kind), <<>>, p.session, p.errors, TRUE)
         /\ p.header # <<>> /\ kind # "---" =>
              Fields(Log!Line(p, kind), Append(p.header, kind), p.session, p.errors, p.flagged)
         /\ p.header = <<>> /\ kind = "---" =>
              Fields(Log!Line(p, kind), <<"---">>, p.session, p.errors, p.flagged)
         /\ p.header = <<>> /\ kind = "done" =>
              Fields(Log!Line(p, kind), <<>>, FALSE, p.errors, p.flagged \/ ~p.session)
         /\ p.header = <<>> /\ kind = "group" =>
              Fields(Log!Line(p, kind), <<>>, p.session, TRUE, p.flagged)
         /\ p.header = <<>> /\ kind = "entry" =>
              Fields(Log!Line(p, kind), <<>>, p.session, p.errors, p.flagged \/ ~p.session)
         /\ p.header = <<>> /\ kind \in {"url", "title", "junk"} =>
              Fields(Log!Line(p, kind), <<>>, p.session, p.errors, TRUE)
         /\ p.header = <<>> /\ kind = "blank" => Log!Line(p, kind) = p
<1>1. PICK h \in Seq(LineKinds), e \in BOOLEAN, r \in BOOLEAN, b \in BOOLEAN, f \in BOOLEAN :
        /\ p = [header |-> h, session |-> e, recognized |-> r, errors |-> b, flagged |-> f]
        /\ h # <<>> => h[1] = "---"
  BY DEF Parser
<1>2. p.header = h /\ p.session = e /\ p.errors = b /\ p.flagged = f
  BY <1>1
<1> DEFINE q == Log!Line(p, kind)
<1>3. <<>> \in Seq(LineKinds) /\ <<"---">> \in Seq(LineKinds) /\ <<"---">>[1] = "---" /\ <<"---">> # <<>>
  BY DEF LineKinds
<1>4. ASSUME h # <<>>, kind = "---", Tail(h) = <<"url", "title">>
      PROVE  q \in Parser /\ Fields(q, <<>>, TRUE, b, f \/ e)
  <2>1. q = [header |-> <<>>, session |-> TRUE, recognized |-> TRUE, errors |-> b, flagged |-> f \/ e]
    BY <1>1, <1>4, HeaderIs DEF Log!Line, Log!HeaderEnds
  <2> HIDE DEF q
  <2>3. Made(q, <<>>, TRUE, TRUE, b, f \/ e)
    BY <1>1, <1>3, <2>1 DEF Made
  <2> QED
    BY <2>3, ParserMade
<1>5. ASSUME h # <<>>, kind = "---", Tail(h) # <<"url", "title">>
      PROVE  q \in Parser /\ Fields(q, <<>>, e, b, TRUE)
  <2>1. q = [header |-> <<>>, session |-> e, recognized |-> r, errors |-> b, flagged |-> TRUE]
    BY <1>1, <1>5, HeaderIs DEF Log!Line, Log!HeaderEnds
  <2> HIDE DEF q
  <2>3. Made(q, <<>>, e, r, b, TRUE)
    BY <1>1, <1>3, <2>1 DEF Made
  <2> QED
    BY <2>3, ParserMade
<1>6. ASSUME h # <<>>, kind # "---"
      PROVE  q \in Parser /\ Fields(q, Append(h, kind), e, b, f)
  <2>1. q = [header |-> Append(h, kind), session |-> e, recognized |-> r, errors |-> b, flagged |-> f]
    BY <1>1, <1>6 DEF Log!Line
  <2>2. Append(h, kind) \in Seq(LineKinds) /\ Append(h, kind)[1] = "---"
    BY <1>1, <1>6
  <2> HIDE DEF q
  <2>3. Made(q, Append(h, kind), e, r, b, f)
    BY <1>1, <2>1, <2>2 DEF Made
  <2> QED
    BY <2>3, ParserMade
<1>7. ASSUME h = <<>>, kind = "---"
      PROVE  q \in Parser /\ Fields(q, <<"---">>, e, b, f)
  <2>1. q = [header |-> <<"---">>, session |-> e, recognized |-> r, errors |-> b, flagged |-> f]
    BY <1>1, <1>7 DEF Log!Line
  <2> HIDE DEF q
  <2>3. Made(q, <<"---">>, e, r, b, f)
    BY <1>1, <1>3, <2>1 DEF Made
  <2> QED
    BY <2>3, ParserMade
<1>8. ASSUME h = <<>>, kind = "done"
      PROVE  q \in Parser /\ Fields(q, <<>>, FALSE, b, f \/ ~e)
  <2>1. q = [header |-> <<>>, session |-> FALSE, recognized |-> r, errors |-> b, flagged |-> f \/ ~e]
    BY <1>1, <1>8 DEF Log!Line
  <2> HIDE DEF q
  <2>3. Made(q, <<>>, FALSE, r, b, f \/ ~e)
    BY <1>1, <1>3, <2>1 DEF Made
  <2> QED
    BY <2>3, ParserMade
<1>9. ASSUME h = <<>>, kind = "group"
      PROVE  q \in Parser /\ Fields(q, <<>>, e, TRUE, f)
  <2>1. q = [header |-> <<>>, session |-> e, recognized |-> r, errors |-> TRUE, flagged |-> f]
    BY <1>1, <1>9 DEF Log!Line
  <2> HIDE DEF q
  <2>3. Made(q, <<>>, e, r, TRUE, f)
    BY <1>1, <1>3, <2>1 DEF Made
  <2> QED
    BY <2>3, ParserMade
<1>10. ASSUME h = <<>>, kind = "entry"
       PROVE  q \in Parser /\ Fields(q, <<>>, e, b, f \/ ~e)
  <2>1. q = [header |-> <<>>, session |-> e, recognized |-> r, errors |-> b, flagged |-> f \/ ~e]
    BY <1>1, <1>10 DEF Log!Line
  <2> HIDE DEF q
  <2>3. Made(q, <<>>, e, r, b, f \/ ~e)
    BY <1>1, <1>3, <2>1 DEF Made
  <2> QED
    BY <2>3, ParserMade
<1>11. ASSUME h = <<>>, kind \in {"url", "title", "junk"}
       PROVE  q \in Parser /\ Fields(q, <<>>, e, b, TRUE)
  <2>1. q = [header |-> <<>>, session |-> e, recognized |-> r, errors |-> b, flagged |-> TRUE]
    BY <1>1, <1>11 DEF Log!Line
  <2> HIDE DEF q
  <2>3. Made(q, <<>>, e, r, b, TRUE)
    BY <1>1, <1>3, <2>1 DEF Made
  <2> QED
    BY <2>3, ParserMade
<1>12. ASSUME h = <<>>, kind = "blank" PROVE q = p
  BY <1>1, <1>12 DEF Log!Line
<1>13. q \in Parser
  BY <1>4, <1>5, <1>6, <1>7, <1>8, <1>9, <1>10, <1>11, <1>12 DEF LineKinds
<1> HIDE DEF q
<1>14. /\ q \in Parser
       /\ p.header # <<>> /\ kind = "---" /\ Tail(p.header) = <<"url", "title">> =>
            Fields(q, <<>>, TRUE, p.errors, p.flagged \/ p.session)
       /\ p.header # <<>> /\ kind = "---" /\ Tail(p.header) # <<"url", "title">> =>
            Fields(q, <<>>, p.session, p.errors, TRUE)
       /\ p.header # <<>> /\ kind # "---" => Fields(q, Append(p.header, kind), p.session, p.errors, p.flagged)
       /\ p.header = <<>> /\ kind = "---" => Fields(q, <<"---">>, p.session, p.errors, p.flagged)
       /\ p.header = <<>> /\ kind = "done" => Fields(q, <<>>, FALSE, p.errors, p.flagged \/ ~p.session)
       /\ p.header = <<>> /\ kind = "group" => Fields(q, <<>>, p.session, TRUE, p.flagged)
       /\ p.header = <<>> /\ kind = "entry" => Fields(q, <<>>, p.session, p.errors, p.flagged \/ ~p.session)
       /\ p.header = <<>> /\ kind \in {"url", "title", "junk"} => Fields(q, <<>>, p.session, p.errors, TRUE)
       /\ p.header = <<>> /\ kind = "blank" => q = p
  BY <1>2, <1>4, <1>5, <1>6, <1>7, <1>8, <1>9, <1>10, <1>11, <1>12, <1>13
<1> QED
  BY <1>14 DEF q

LEMMA DoomedIs ==
  \A p : Doomed(p) <=>
    \/ p.flagged
    \/ p.header \notin {<<>>, <<"---">>, <<"---", "url">>, <<"---", "url", "title">>}
    \/ p.header # <<>> /\ p.session
<1>1. {HeaderUpTo(k) : k \in 0..3} = {HeaderUpTo(0), HeaderUpTo(1), HeaderUpTo(2), HeaderUpTo(3)}
  OBVIOUS
<1>2. {HeaderUpTo(k) : k \in 0..3} = {<<>>, <<"---">>, <<"---", "url">>, <<"---", "url", "title">>}
  BY <1>1 DEF HeaderUpTo
<1> QED
  BY <1>2 DEF Doomed

LEMMA DoomStays ==
  ASSUME NEW p \in Parser, NEW kind \in LineKinds, Doomed(p)
  PROVE  Doomed(Log!Line(p, kind))
<1> DEFINE q == Log!Line(p, kind)
           h == p.header
<1>1. h \in Seq(LineKinds) /\ (h # <<>> => h[1] = "---") /\ p.session \in BOOLEAN /\ p.flagged \in BOOLEAN
  BY DEF Parser
<1>2. CASE p.flagged
  <2>1. CASE h # <<>> /\ kind = "---"
    <3>1. q.flagged
      BY <1>2, <2>1, LineReads DEF Fields
    <3> QED
      BY <3>1, DoomedIs
  <2>2. CASE h # <<>> /\ kind # "---"
    <3>1. q.flagged
      BY <1>2, <2>2, LineReads DEF Fields
    <3> QED
      BY <3>1, DoomedIs
  <2>3. CASE h = <<>> /\ kind = "blank"
    <3>1. q.flagged
      BY <1>2, <2>3, LineReads
    <3> QED
      BY <3>1, DoomedIs
  <2>4. CASE h = <<>> /\ kind # "blank"
    <3>1. q.flagged
      BY <1>2, <2>4, LineReads DEF Fields, LineKinds
    <3> QED
      BY <3>1, DoomedIs
  <2> QED
    BY <2>1, <2>2, <2>3, <2>4
<1>3. CASE h # <<>> /\ kind = "---"
  <2>1. CASE Tail(h) = <<"url", "title">>
    <3>1. h = <<"---", "url", "title">>
      <4>1. h = <<h[1], "url", "title">>
        BY <1>1, <1>3, <2>1, TailIsTwo
      <4> QED
        BY <1>1, <1>3, <4>1
    <3>2. p.flagged \/ p.session
      BY <1>3, <3>1, DoomedIs
    <3>3. q.flagged
      BY <1>1, <1>3, <2>1, <3>2, LineReads DEF Fields
    <3> QED
      BY <3>3, DoomedIs
  <2>2. CASE Tail(h) # <<"url", "title">>
    <3>1. q.flagged
      BY <1>3, <2>2, LineReads DEF Fields
    <3> QED
      BY <3>1, DoomedIs
  <2> QED
    BY <2>1, <2>2
<1>4. CASE h # <<>> /\ kind # "---"
  <2>1. q.header = Append(h, kind) /\ q.session = p.session /\ q.flagged = p.flagged
    BY <1>4, LineReads DEF Fields
  <2>2. q.header # <<>>
    BY <1>1, <2>1
  <2>3. CASE p.session
    BY <2>1, <2>2, <2>3, DoomedIs
  <2>4. CASE h \notin {<<>>, <<"---">>, <<"---", "url">>, <<"---", "url", "title">>}
    <3>1. ASSUME Append(h, kind) = <<"---">> PROVE FALSE
      <4>1. Len(Append(h, kind)) = 1 /\ Len(h) >= 1
        BY <1>1, <1>4, <3>1
      <4> QED
        BY <1>1, <4>1
    <3>2. ASSUME Append(h, kind) = <<"---", "url">> PROVE FALSE
      BY <1>1, <2>4, <3>2, AppendToTwo
    <3>3. ASSUME Append(h, kind) = <<"---", "url", "title">> PROVE FALSE
      BY <1>1, <2>4, <3>3, AppendToThree
    <3> QED
      BY <2>1, <2>2, <3>1, <3>2, <3>3, DoomedIs
  <2> QED
    BY <1>2, <1>4, <2>3, <2>4, DoomedIs
<1> QED
  BY <1>2, <1>3, <1>4, DoomedIs

LEMMA AfterLines ==
  ASSUME NEW p \in Parser, NEW kinds \in Seq(LineKinds), NEW n \in 0..Len(kinds)
  PROVE  /\ After(p, kinds, n) \in Parser
         /\ \A m \in 0..n : Doomed(After(p, kinds, m)) => Doomed(After(p, kinds, n))
<1> DEFINE Fine(j) == /\ After(p, kinds, j) \in Parser
                      /\ \A m \in 0..j : Doomed(After(p, kinds, m)) => Doomed(After(p, kinds, j))
           Wrong == {j \in 0..n : ~Fine(j)}
<1> SUFFICES ASSUME Wrong # {} PROVE FALSE
  OBVIOUS
<1>1. Wrong \in SUBSET Nat
  OBVIOUS
<1>2. PICK j \in Wrong : \A m \in Wrong : j <= m
  <2> HIDE DEF Wrong
  <2> QED
    BY <1>1, LeastNumber
<1>3. j \in 0..n /\ ~Fine(j)
  BY <1>2
<1>4. j # 0
  <2>1. After(p, kinds, 0) = p
    BY NextLine
  <2>2. 0..0 = {0}
    OBVIOUS
  <2>3. Fine(0)
    BY <2>1, <2>2
  <2> HIDE DEF Fine
  <2> QED
    BY <1>3, <2>3
<1> DEFINE i == j - 1
<1>5. i \in Nat /\ j = i + 1 /\ i \in 0..n /\ i \notin Wrong /\ j \in 1..Len(kinds)
  BY <1>2, <1>3, <1>4
<1>6. Fine(i)
  BY <1>5
<1>7. After(p, kinds, j) = Log!Line(After(p, kinds, i), kinds[j])
  <2> HIDE DEF i
  <2> QED
    BY <1>5, NextLine
<1>8. kinds[j] \in LineKinds
  BY <1>5
<1>9. After(p, kinds, j) \in Parser
  BY <1>6, <1>7, <1>8, LineReads
<1>10. Doomed(After(p, kinds, i)) => Doomed(After(p, kinds, j))
  BY <1>6, <1>7, <1>8, DoomStays
<1>11. \A m \in 0..j : m \in 0..i \/ m = j
  BY <1>3, <1>5
<1> QED
  BY <1>3, <1>6, <1>9, <1>10, <1>11

-----------------------------------------------------------------------------
\* The parser q, having read the first n of the lines u of a session of which p
\* had read k lines of the header.
ReadTo(q, p, k, u, n) ==
  /\ k + n <= 3 => q.header = HeaderUpTo(k + n) /\ ~q.session
  /\ k + n >= 4 => q.header = <<>> /\ q.session = ~(n > 0 /\ u[n] = "done")
  /\ q.errors <=> (p.errors \/ \E i \in 1..n : u[i] = "group")

LEMMA HeaderSteps ==
  /\ HeaderUpTo(0) = <<>> /\ HeaderUpTo(1) = <<"---">> /\ HeaderUpTo(2) = <<"---", "url">>
  /\ HeaderUpTo(3) = <<"---", "url", "title">> /\ HeaderUpTo(4) = <<>>
  /\ HeaderUpTo(1) # <<>> /\ HeaderUpTo(2) # <<>> /\ HeaderUpTo(3) # <<>>
  /\ Append(HeaderUpTo(1), "url") = HeaderUpTo(2) /\ Append(HeaderUpTo(2), "title") = HeaderUpTo(3)
  /\ Tail(HeaderUpTo(3)) = <<"url", "title">>
<1>1. /\ HeaderUpTo(0) = <<>> /\ HeaderUpTo(1) = <<"---">> /\ HeaderUpTo(2) = <<"---", "url">>
      /\ HeaderUpTo(3) = <<"---", "url", "title">> /\ HeaderUpTo(4) = <<>>
  BY DEF HeaderUpTo
<1>2. <<"---">> # <<>> /\ <<"---", "url">> # <<>> /\ <<"---", "url", "title">> # <<>>
  OBVIOUS
<1>3. Append(<<"---">>, "url") = <<"---", "url">>
  <2> DEFINE t == Append(<<"---">>, "url")
  <2>1. t \in Seq(LineKinds) /\ Len(t) = 2 /\ t[1] = "---" /\ t[2] = "url"
    BY DEF LineKinds
  <2> HIDE DEF t
  <2>2. t = <<t[1], t[2]>>
    BY <2>1, TwoLines
  <2> QED
    BY <2>1, <2>2 DEF t
<1>4. Append(<<"---", "url">>, "title") = <<"---", "url", "title">>
  <2> DEFINE t == Append(<<"---", "url">>, "title")
  <2>1. t \in Seq(LineKinds) /\ Len(t) = 3 /\ t[1] = "---" /\ t[2] = "url" /\ t[3] = "title"
    BY DEF LineKinds
  <2> HIDE DEF t
  <2>2. t = <<t[1], t[2], t[3]>>
    BY <2>1, ThreeLines
  <2> QED
    BY <2>1, <2>2 DEF t
<1>5. Tail(<<"---", "url", "title">>) = <<"url", "title">>
  OBVIOUS
<1> QED
  BY <1>1, <1>2, <1>3, <1>4, <1>5

LEMMA LineReadOn ==
  ASSUME NEW p \in Parser, NEW u \in Seq(LineKinds), NEW k \in 0..4, Rest(u, k),
         NEW n \in Nat, n < Len(u), NEW q \in Parser, ReadTo(q, p, k, u, n)
  PROVE  ReadTo(Log!Line(q, u[n + 1]), p, k, u, n + 1)
<1> DEFINE kind == u[n + 1]
           r == Log!Line(q, kind)
<1>1. n + 1 \in 1..Len(u) /\ n + 1 \in Nat /\ n + 1 > 0 /\ kind \in LineKinds /\ q.errors \in BOOLEAN
      /\ q.session \in BOOLEAN
  BY DEF Parser
<1>2. \/ k + n = 0 \/ k + n = 1 \/ k + n = 2 \/ k + n = 3 \/ k + n >= 4
  OBVIOUS
<1>3. (\E i \in 1..(n + 1) : u[i] = "group") <=> ((\E i \in 1..n : u[i] = "group") \/ kind = "group")
  <2>1. 1..(n + 1) = (1..n) \cup {n + 1}
    OBVIOUS
  <2> QED
    BY <2>1
<1>11. ASSUME r.errors <=> (q.errors \/ kind = "group")
       PROVE  r.errors <=> (p.errors \/ \E i \in 1..(n + 1) : u[i] = "group")
  BY <1>3, <1>11 DEF ReadTo
<1>4. ASSUME k + n <= 3 PROVE kind = Log!Header[k + n + 1]
  <2>1. n + 1 \in 1..(4 - k)
    BY <1>1, <1>4
  <2>2. u[n + 1] = Log!Header[k + (n + 1)]
    BY <2>1 DEF Rest
  <2> QED
    BY <2>2
<1>5. ASSUME k + n >= 4
      PROVE  /\ kind \in {"entry", "group", "done"}
             /\ q.header = <<>> /\ q.session
  <2>1. kind \in {"entry", "group", "done"}
    BY <1>1, <1>5 DEF Rest
  <2>2. ~(n > 0 /\ u[n] = "done")
    <3>1. SUFFICES ASSUME n > 0, u[n] = "done" PROVE FALSE
      OBVIOUS
    <3>2. n \in 1..Len(u)
      BY <3>1
    <3>3. CASE n > 4 - k
      BY <3>1, <3>2, <3>3 DEF Rest
    <3>4. CASE ~(n > 4 - k)
      <4>1. n \in 1..(4 - k)
        BY <3>1, <3>4
      <4>2. u[n] = Log!Header[k + n] /\ k + n \in 1..4
        BY <4>1 DEF Rest
      <4> QED
        BY <3>1, <4>2, HeaderIs
    <3> QED
      BY <3>3, <3>4
  <2> QED
    BY <1>5, <2>1, <2>2 DEF ReadTo
<1>6. CASE k + n = 0
  <2>1. kind = "---" /\ kind # "group"
    BY <1>4, <1>6, HeaderIs
  <2>2. q.header = HeaderUpTo(0) /\ ~q.session
    BY <1>6 DEF ReadTo
  <2>6. Fields(r, <<"---">>, q.session, q.errors, q.flagged)
    BY <1>1, <2>1, <2>2, LineReads, HeaderSteps
  <2>3. r.header = HeaderUpTo(1) /\ ~r.session /\ (r.errors <=> q.errors)
    BY <2>2, <2>6, HeaderSteps DEF Fields
  <2>4. k + (n + 1) = 1
    BY <1>6
  <2>5. r.errors <=> (p.errors \/ \E i \in 1..(n + 1) : u[i] = "group")
    BY <1>11, <2>1, <2>3
  <2>7. k + (n + 1) <= 3 => r.header = HeaderUpTo(k + (n + 1)) /\ ~r.session
    BY <2>3, <2>4, <2>5
  <2>8. k + (n + 1) >= 4 => r.header = <<>> /\ r.session = ~(n + 1 > 0 /\ u[n + 1] = "done")
    BY <2>3, <2>4, <2>5
  <2> QED
    BY <2>7, <2>8, <2>5 DEF ReadTo
<1>7. CASE k + n = 1
  <2>1. kind = "url" /\ kind # "group"
    BY <1>4, <1>7, HeaderIs
  <2>2. q.header = HeaderUpTo(1) /\ ~q.session
    BY <1>7 DEF ReadTo
  <2>6. Fields(r, Append(q.header, "url"), q.session, q.errors, q.flagged)
    BY <1>1, <2>1, <2>2, LineReads, HeaderSteps
  <2>3. r.header = HeaderUpTo(2) /\ ~r.session /\ (r.errors <=> q.errors)
    BY <2>2, <2>6, HeaderSteps DEF Fields
  <2>4. k + (n + 1) = 2
    BY <1>7
  <2>5. r.errors <=> (p.errors \/ \E i \in 1..(n + 1) : u[i] = "group")
    BY <1>11, <2>1, <2>3
  <2>7. k + (n + 1) <= 3 => r.header = HeaderUpTo(k + (n + 1)) /\ ~r.session
    BY <2>3, <2>4, <2>5
  <2>8. k + (n + 1) >= 4 => r.header = <<>> /\ r.session = ~(n + 1 > 0 /\ u[n + 1] = "done")
    BY <2>3, <2>4, <2>5
  <2> QED
    BY <2>7, <2>8, <2>5 DEF ReadTo
<1>8. CASE k + n = 2
  <2>1. kind = "title" /\ kind # "group"
    BY <1>4, <1>8, HeaderIs
  <2>2. q.header = HeaderUpTo(2) /\ ~q.session
    BY <1>8 DEF ReadTo
  <2>6. Fields(r, Append(q.header, "title"), q.session, q.errors, q.flagged)
    BY <1>1, <2>1, <2>2, LineReads, HeaderSteps
  <2>3. r.header = HeaderUpTo(3) /\ ~r.session /\ (r.errors <=> q.errors)
    BY <2>2, <2>6, HeaderSteps DEF Fields
  <2>4. k + (n + 1) = 3
    BY <1>8
  <2>5. r.errors <=> (p.errors \/ \E i \in 1..(n + 1) : u[i] = "group")
    BY <1>11, <2>1, <2>3
  <2>7. k + (n + 1) <= 3 => r.header = HeaderUpTo(k + (n + 1)) /\ ~r.session
    BY <2>3, <2>4, <2>5
  <2>8. k + (n + 1) >= 4 => r.header = <<>> /\ r.session = ~(n + 1 > 0 /\ u[n + 1] = "done")
    BY <2>3, <2>4, <2>5
  <2> QED
    BY <2>7, <2>8, <2>5 DEF ReadTo
<1>9. CASE k + n = 3
  <2>1. kind = "---" /\ kind # "group"
    BY <1>4, <1>9, HeaderIs
  <2>2. q.header = HeaderUpTo(3) /\ ~q.session
    BY <1>9 DEF ReadTo
  <2>6. Fields(r, <<>>, TRUE, q.errors, q.flagged \/ q.session)
    BY <1>1, <2>1, <2>2, LineReads, HeaderSteps
  <2>3. r.header = <<>> /\ r.session = TRUE /\ (r.errors <=> q.errors)
    BY <2>6 DEF Fields
  <2>4. k + (n + 1) = 4 /\ ~(u[n + 1] = "done")
    BY <1>9, <2>1
  <2>5. r.errors <=> (p.errors \/ \E i \in 1..(n + 1) : u[i] = "group")
    BY <1>11, <2>1, <2>3
  <2>7. k + (n + 1) <= 3 => r.header = HeaderUpTo(k + (n + 1)) /\ ~r.session
    BY <2>3, <2>4, <2>5
  <2>8. k + (n + 1) >= 4 => r.header = <<>> /\ r.session = ~(n + 1 > 0 /\ u[n + 1] = "done")
    BY <2>3, <2>4, <2>5
  <2> QED
    BY <2>7, <2>8, <2>5 DEF ReadTo
<1>10. CASE k + n >= 4
  <2>1. /\ r.header = <<>> /\ r.session = (kind # "done")
        /\ r.errors <=> (q.errors \/ kind = "group")
    <3>1. CASE kind = "entry"
      <4>1. Fields(r, <<>>, q.session, q.errors, q.flagged \/ ~q.session)
        BY <1>1, <1>5, <1>10, <3>1, LineReads
      <4> QED
        BY <1>5, <1>10, <3>1, <4>1 DEF Fields
    <3>2. CASE kind = "group"
      <4>1. Fields(r, <<>>, q.session, TRUE, q.flagged)
        BY <1>1, <1>5, <1>10, <3>2, LineReads
      <4> QED
        BY <1>5, <1>10, <3>2, <4>1 DEF Fields
    <3>3. CASE kind = "done"
      <4>1. Fields(r, <<>>, FALSE, q.errors, q.flagged \/ ~q.session)
        BY <1>1, <1>5, <1>10, <3>3, LineReads
      <4> QED
        BY <1>5, <1>10, <3>3, <4>1 DEF Fields
    <3> QED
      BY <1>5, <1>10, <3>1, <3>2, <3>3
  <2>2. k + (n + 1) >= 4 /\ ~(k + (n + 1) <= 3)
    BY <1>10
  <2>3. r.errors <=> (p.errors \/ \E i \in 1..(n + 1) : u[i] = "group")
    BY <1>11, <2>1
  <2>4. r.header = <<>> /\ r.session = ~(n + 1 > 0 /\ u[n + 1] = "done")
    BY <1>1, <2>1
  <2>7. k + (n + 1) <= 3 => r.header = HeaderUpTo(k + (n + 1)) /\ ~r.session
    BY <2>2, <2>3, <2>4
  <2>8. k + (n + 1) >= 4 => r.header = <<>> /\ r.session = ~(n + 1 > 0 /\ u[n + 1] = "done")
    BY <2>2, <2>3, <2>4
  <2> QED
    BY <2>7, <2>8, <2>3 DEF ReadTo
<1> QED
  BY <1>2, <1>6, <1>7, <1>8, <1>9, <1>10

LEMMA LinesReadOn ==
  ASSUME NEW p \in Parser, NEW u \in Seq(LineKinds), NEW k \in 0..4, Rest(u, k),
         ReadTo(p, p, k, u, 0), NEW n \in 0..Len(u)
  PROVE  ReadTo(After(p, u, n), p, k, u, n)
<1> DEFINE Wrong == {j \in 0..n : ~ReadTo(After(p, u, j), p, k, u, j)}
<1> SUFFICES ASSUME Wrong # {} PROVE FALSE
  OBVIOUS
<1>1. Wrong \in SUBSET Nat
  OBVIOUS
<1>2. PICK j \in Wrong : \A m \in Wrong : j <= m
  <2> HIDE DEF Wrong
  <2> QED
    BY <1>1, LeastNumber
<1>3. j \in 0..n /\ ~ReadTo(After(p, u, j), p, k, u, j)
  BY <1>2
<1>4. j # 0
  <2>1. After(p, u, 0) = p
    BY NextLine
  <2>2. ReadTo(After(p, u, 0), p, k, u, 0)
    BY <2>1
  <2> QED
    BY <1>3, <2>2
<1> DEFINE i == j - 1
<1>5. i \in Nat /\ j = i + 1 /\ i \in 0..n /\ i \notin Wrong /\ i < Len(u) /\ i \in 0..Len(u)
  BY <1>2, <1>3, <1>4
<1>6. ReadTo(After(p, u, i), p, k, u, i)
  BY <1>5
<1> HIDE DEF i, Wrong
<1>7. After(p, u, i + 1) = Log!Line(After(p, u, i), u[i + 1])
  BY <1>5, NextLine
<1>8. After(p, u, i) \in Parser
  BY <1>5, AfterLines
<1>9. ReadTo(Log!Line(After(p, u, i), u[i + 1]), p, k, u, i + 1)
  BY <1>5, <1>6, <1>8, LineReadOn
<1> QED
  BY <1>3, <1>5, <1>7, <1>9

\* The lines of which the first reads as something else.
LEMMA Reads ==
  ASSUME NEW u \in Seq(LineKinds), u # <<>>, NEW first \in LineKinds
  PROVE  /\ <<first>> \o Tail(u) \in Seq(LineKinds)
         /\ Len(<<first>> \o Tail(u)) = Len(u) /\ Len(u) >= 1
         /\ \A i \in 1..Len(u) : (<<first>> \o Tail(u))[i] = IF i = 1 THEN first ELSE u[i]
         /\ first = u[1] => <<first>> \o Tail(u) = u
<1> DEFINE r == <<first>> \o Tail(u)
<1>1. r \in Seq(LineKinds) /\ Len(r) = Len(u) /\ Len(u) >= 1 /\ Len(u) \in Nat
  OBVIOUS
<1>2. ASSUME NEW i \in 1..Len(u) PROVE r[i] = IF i = 1 THEN first ELSE u[i]
  <2>1. CASE i = 1
    BY <2>1
  <2>2. CASE i # 1
    <3>1. i - 1 \in 1..Len(Tail(u)) /\ r[i] = Tail(u)[i - 1]
      BY <1>1, <2>2
    <3>2. Tail(u)[i - 1] = u[i]
      BY <1>1, <2>2
    <3> QED
      BY <2>2, <3>1, <3>2
  <2> QED
    BY <2>1, <2>2
<1> HIDE DEF r
<1>3. ASSUME first = u[1] PROVE r = u
  <2>1. \A i \in 1..Len(u) : r[i] = u[i]
    BY <1>2, <1>3
  <2>2. r = [i \in 1..Len(u) |-> r[i]] /\ u = [i \in 1..Len(u) |-> u[i]]
    BY <1>1
  <2> QED
    BY <2>1, <2>2
<1>4. /\ r \in Seq(LineKinds) /\ Len(r) = Len(u) /\ Len(u) >= 1
      /\ \A i \in 1..Len(u) : r[i] = IF i = 1 THEN first ELSE u[i]
      /\ first = u[1] => r = u
  BY <1>1, <1>2, <1>3
<1> QED
  BY <1>4 DEF r

\* A flush() of session s that puts n lines of u, and perhaps a part of the
\* next, into the file.
Written(s, u, n, cuts, first) ==
  /\ n > 0 \/ cuts
  /\ cuts => n < Len(u)
  /\ cuts \/ n < Len(u) => ~torn
  /\ torn' = (torn \/ cuts \/ n < Len(u))
  /\ buffer' = [buffer EXCEPT ![s] = SubSeq(u, n + 1, Len(u))]
  /\ first \in Log!FirstReads(s, u[1])
  /\ parsed' = After(parsed, <<first>> \o Tail(u), n)
  /\ tail' \in IF cuts THEN Log!Begins((<<first>> \o Tail(u))[n + 1]) ELSE {NoLine}
  /\ cut' = IF cuts THEN {s} ELSE cut \ {s}
  /\ wrote' = [wrote EXCEPT ![s] = @ \cup {u[i] : i \in 1..(IF cuts THEN n + 1 ELSE n)}]

LEMMA FirstIsKnown ==
  ASSUME NEW s, NEW kind \in LineKinds, NEW first \in Log!FirstReads(s, kind)
  PROVE  first \in LineKinds
  BY DEF Log!FirstReads, LineKinds

LEMMA FlushWrites ==
  ASSUME NEW s \in Sessions, NEW u \in Seq(LineKinds), u # <<>>, tail \in LineKinds \cup {NoLine},
         torn \in BOOLEAN, Log!Flush(s, u)
  PROVE  \/ buffer' = [buffer EXCEPT ![s] = u] /\ UNCHANGED <<parsed, tail, cut, torn, wrote>>
         \/ \E n \in 0..Len(u), cuts \in BOOLEAN, first \in LineKinds : Written(s, u, n, cuts, first)
<1>1. PICK n \in 0..Len(u), cuts \in BOOLEAN :
        /\ cuts => n < Len(u)
        /\ Log!InPart(n, cuts, u) => ~torn
        /\ buffer' = [buffer EXCEPT ![s] = SubSeq(u, n + 1, Len(u))]
        /\ IF n = 0 /\ ~cuts
           THEN UNCHANGED <<parsed, tail, cut, torn, wrote>>
           ELSE \E first \in Log!FirstReads(s, Head(u)) :
                  /\ parsed' = Log!Lines(parsed, SubSeq(<<first>> \o Tail(u), 1, n))
                  /\ IF cuts THEN tail' \in Log!Begins((<<first>> \o Tail(u))[n + 1]) ELSE tail' = NoLine
                  /\ cut' = IF cuts THEN {s} ELSE cut \ {s}
                  /\ torn' = (torn \/ Log!InPart(n, cuts, u))
                  /\ wrote' = [wrote EXCEPT ![s] =
                                 @ \cup Log!Range(SubSeq(u, 1, IF cuts THEN n + 1 ELSE n))]
  BY DEF Log!Flush, NoLine
<1>2. Len(u) \in Nat /\ Len(u) >= 1 /\ Head(u) = u[1] /\ u[1] \in LineKinds
  OBVIOUS
<1>3. CASE n = 0 /\ ~cuts
  <2>1. SubSeq(u, n + 1, Len(u)) = u
    BY <1>2, <1>3
  <2> QED
    BY <1>1, <1>3, <2>1
<1>4. CASE ~(n = 0 /\ ~cuts)
  <2>1. PICK first \in Log!FirstReads(s, u[1]) :
          /\ parsed' = Log!Lines(parsed, SubSeq(<<first>> \o Tail(u), 1, n))
          /\ IF cuts THEN tail' \in Log!Begins((<<first>> \o Tail(u))[n + 1]) ELSE tail' = NoLine
          /\ cut' = IF cuts THEN {s} ELSE cut \ {s}
          /\ torn' = (torn \/ Log!InPart(n, cuts, u))
          /\ wrote' = [wrote EXCEPT ![s] =
                         @ \cup Log!Range(SubSeq(u, 1, IF cuts THEN n + 1 ELSE n))]
    BY <1>1, <1>2, <1>4
  <2>2. first \in LineKinds
    BY <1>2, <2>1, FirstIsKnown
  <2>3. n > 0 \/ cuts
    BY <1>4
  <2>4. Log!InPart(n, cuts, u) <=> (cuts \/ n < Len(u))
    BY <1>2, <2>3 DEF Log!InPart
  <2>5. parsed' = After(parsed, <<first>> \o Tail(u), n)
    <3>1. <<first>> \o Tail(u) \in Seq(LineKinds) /\ n \in 0..Len(<<first>> \o Tail(u))
      BY <2>2, Reads
    <3> QED
      BY <2>1, <3>1, LinesUpTo
  <2>6. ASSUME NEW m \in 0..Len(u) PROVE Log!Range(SubSeq(u, 1, m)) = {u[i] : i \in 1..m}
    <3>1. DOMAIN SubSeq(u, 1, m) = 1..m /\ \A i \in 1..m : SubSeq(u, 1, m)[i] = u[i]
      BY <1>2
    <3> QED
      BY <3>1 DEF Log!Range
  <2>7. Log!Range(SubSeq(u, 1, IF cuts THEN n + 1 ELSE n)) = {u[i] : i \in 1..(IF cuts THEN n + 1 ELSE n)}
    <3>1. (IF cuts THEN n + 1 ELSE n) \in 0..Len(u)
      BY <1>1, <1>2
    <3> QED
      BY <2>6, <3>1
  <2>8. Written(s, u, n, cuts, first)
    <3>1. tail' \in IF cuts THEN Log!Begins((<<first>> \o Tail(u))[n + 1]) ELSE {NoLine}
      BY <2>1
    <3>2. torn' = (torn \/ cuts \/ n < Len(u))
      BY <2>1, <2>4
    <3> QED
      BY <1>1, <2>1, <2>3, <2>4, <2>5, <2>7, <3>1, <3>2 DEF Written
  <2> QED
    BY <2>2, <2>8
<1> QED
  BY <1>3, <1>4

\* What is left of the lines of a session when n more of them are in the file.
LEMMA RestLeft ==
  ASSUME NEW u \in Seq(LineKinds), NEW k \in 0..4, Rest(u, k), NEW n \in 0..Len(u),
         NEW m, m = IF k + n <= 4 THEN k + n ELSE 4
  PROVE  /\ m \in 0..4
         /\ SubSeq(u, n + 1, Len(u)) \in Seq(LineKinds)
         /\ Len(SubSeq(u, n + 1, Len(u))) = Len(u) - n
         /\ \A i \in 1..(Len(u) - n) : SubSeq(u, n + 1, Len(u))[i] = u[n + i]
         /\ Rest(SubSeq(u, n + 1, Len(u)), m)
<1> DEFINE v == SubSeq(u, n + 1, Len(u))
<1>1. v \in Seq(LineKinds) /\ Len(v) = Len(u) - n /\ Len(u) \in Nat
      /\ \A i \in 1..(Len(u) - n) : v[i] = u[n + i]
  OBVIOUS
<1> HIDE DEF v
<1>2. m \in 0..4
  OBVIOUS
<1>3. Len(v) >= 4 - m
  BY <1>1 DEF Rest
<1>4. ASSUME NEW i \in 1..(4 - m) PROVE v[i] = Log!Header[m + i]
  <2>1. m = k + n /\ n + i \in 1..(4 - k) /\ i \in 1..(Len(u) - n)
    BY <1>1, <1>2, <1>3
  <2>2. u[n + i] = Log!Header[k + (n + i)]
    BY <2>1 DEF Rest
  <2> QED
    BY <1>1, <2>1, <2>2
<1>5. ASSUME NEW i \in 1..Len(v), i > 4 - m
      PROVE  v[i] \in {"entry", "group", "done"} /\ (v[i] = "done" => i = Len(v))
  <2>1. n + i \in 1..Len(u) /\ n + i > 4 - k /\ v[i] = u[n + i]
    BY <1>1, <1>5
  <2> QED
    BY <1>1, <2>1 DEF Rest
<1>6. Rest(v, m)
  BY <1>3, <1>4, <1>5 DEF Rest
<1>7. /\ m \in 0..4 /\ v \in Seq(LineKinds) /\ Len(v) = Len(u) - n
      /\ \A i \in 1..(Len(u) - n) : v[i] = u[n + i]
      /\ Rest(v, m)
  BY <1>1, <1>2, <1>6
<1> QED
  BY <1>7 DEF v

\* What a message adds to the lines of a session that has not ended.
LEMMA RestGrows ==
  ASSUME NEW b \in Seq(LineKinds), NEW k \in 0..4, Rest(b, k),
         \A i \in 1..Len(b) : b[i] # "done",
         NEW message \in {<<"entry">>, <<"group", "entry">>, <<"done">>}
  PROVE  Rest(b \o message, k)
<1> DEFINE u == b \o message
<1>1. /\ message \in Seq(LineKinds) /\ Len(message) \in 1..2
      /\ \A i \in 1..Len(message) : message[i] \in {"entry", "group", "done"}
      /\ \A i \in 1..Len(message) : message[i] = "done" => i = Len(message)
  <2>1. CASE message = <<"entry">>
    BY <2>1 DEF LineKinds
  <2>2. CASE message = <<"group", "entry">>
    BY <2>2 DEF LineKinds
  <2>3. CASE message = <<"done">>
    BY <2>3 DEF LineKinds
  <2> QED
    BY <2>1, <2>2, <2>3
<1>2. /\ Len(u) = Len(b) + Len(message) /\ Len(b) \in Nat
      /\ \A i \in 1..Len(b) : u[i] = b[i]
      /\ \A i \in 1..Len(u) : i > Len(b) => u[i] = message[i - Len(b)]
  BY <1>1
<1> HIDE DEF u
<1>3. Len(u) >= 4 - k /\ Len(b) >= 4 - k
  BY <1>1, <1>2 DEF Rest
<1>4. \A i \in 1..(4 - k) : u[i] = Log!Header[k + i]
  <2> SUFFICES ASSUME NEW i \in 1..(4 - k) PROVE u[i] = Log!Header[k + i]
    OBVIOUS
  <2>1. i \in 1..Len(b)
    BY <1>2, <1>3
  <2> QED
    BY <1>2, <2>1 DEF Rest
<1>5. ASSUME NEW i \in 1..Len(u), i > 4 - k
      PROVE  u[i] \in {"entry", "group", "done"} /\ (u[i] = "done" => i = Len(u))
  <2>1. CASE i \in 1..Len(b)
    BY <1>2, <1>5, <2>1 DEF Rest
  <2>2. CASE i > Len(b)
    <3>1. i - Len(b) \in 1..Len(message)
      BY <1>1, <1>2, <2>2
    <3>3. u[i] = message[i - Len(b)]
      BY <1>2, <2>2
    <3>2. /\ u[i] \in {"entry", "group", "done"}
          /\ u[i] = "done" => i - Len(b) = Len(message)
      BY <1>1, <3>1, <3>3
    <3> QED
      BY <1>1, <1>2, <3>2
  <2> QED
    BY <1>2, <2>1, <2>2
<1> QED
  BY <1>3, <1>4, <1>5 DEF Rest, u

-----------------------------------------------------------------------------
\* A session that has left no trace, or is over, is so when others write.
LEMMA StaysQuiet ==
  ASSUME NEW s, Quiet(s), wrote'[s] = wrote[s], parsed.errors => parsed'.errors,
         \/ logPhase'[s] = logPhase[s] /\ buffer'[s] = buffer[s]
         \/ logPhase'[s] \in {"closed", "dead"}
  PROVE  Quiet(s)'
  BY DEF Quiet, Live
\* What is in a session of which k header lines have been read, at line i of the rest.
LEMMA RestIs ==
  ASSUME NEW u \in Seq(LineKinds), NEW k \in 0..4, Rest(u, k), NEW i \in 1..Len(u)
  PROVE  /\ i <= 4 - k => u[i] = Log!Header[k + i] /\ u[i] \notin {"entry", "group", "done"}
         /\ i > 4 - k => u[i] \in {"entry", "group", "done"}
         /\ u[i] = "done" => i = Len(u)
         /\ u[i] \in {"entry", "group", "done"} => i > 4 - k
<1>1. ASSUME i <= 4 - k PROVE u[i] = Log!Header[k + i] /\ u[i] \notin {"entry", "group", "done"}
  <2>1. u[i] = Log!Header[k + i]
    BY <1>1 DEF Rest
  <2>2. k + i \in 1..4
    BY <1>1
  <2>3. Log!Header[k + i] \in {"---", "url", "title"}
    BY <2>2, HeaderIs
  <2> QED
    BY <2>1, <2>3
<1>2. ASSUME i > 4 - k PROVE u[i] \in {"entry", "group", "done"} /\ (u[i] = "done" => i = Len(u))
  BY <1>2 DEF Rest
<1>3. Len(u) \in Nat
  OBVIOUS
<1> QED
  BY <1>1, <1>2, <1>3
\* The session whose lines end the file writes on.
LEMMA Continued ==
  ASSUME NEW s \in Sessions, NEW u \in Seq(LineKinds), u # <<>>, NEW k \in 0..4, Rest(u, k),
         NEW n \in 0..Len(u), NEW cuts \in BOOLEAN, Written(s, u, n, cuts, u[1]),
         parsed \in Parser, buffer \in [Sessions -> Seq(LineKinds)],
         wrote \in [Sessions -> SUBSET LineKinds], torn \in BOOLEAN,
         parsed.header = HeaderUpTo(k), parsed.session = (k = 4), cut \subseteq {s},
         "group" \in wrote[s] => parsed.errors \/ u[1] = "group",
         "done" \in wrote[s] => u[1] = "done",
         \A q \in Sessions \ {s} : Quiet(q) /\ logPhase'[q] = logPhase[q],
         NEW m \in 0..4, m = IF k + n <= 4 THEN k + n ELSE 4
  PROVE  Between' \/ Within(s, m)'
<1> DEFINE v == SubSeq(u, n + 1, Len(u))
           put == {u[i] : i \in 1..(IF cuts THEN n + 1 ELSE n)}
<1>1. Len(u) \in Nat /\ Len(u) >= 1 /\ u[1] \in LineKinds /\ <<u[1]>> \o Tail(u) = u
  BY Reads
<1>2. /\ n > 0 \/ cuts
      /\ cuts => n < Len(u)
      /\ n < Len(u) => torn'
      /\ cuts => torn'
      /\ buffer'[s] = v /\ \A q \in Sessions \ {s} : buffer'[q] = buffer[q]
      /\ parsed' = After(parsed, u, n)
      /\ cut' = IF cuts THEN {s} ELSE {}
      /\ wrote'[s] = wrote[s] \cup put /\ \A q \in Sessions \ {s} : wrote'[q] = wrote[q]
  BY <1>1 DEF Written
<1>3. tail' \in IF cuts THEN {u[n + 1], "junk"} ELSE {NoLine}
  BY <1>1 DEF Written, Log!Begins
<1>4. /\ m \in 0..4 /\ v \in Seq(LineKinds) /\ Len(v) = Len(u) - n
      /\ \A i \in 1..(Len(u) - n) : v[i] = u[n + i]
      /\ Rest(v, m)
  <2> HIDE DEF v
  <2> QED
    BY RestLeft DEF v
<1>5. ReadTo(parsed', parsed, k, u, n)
  <2>1. ReadTo(parsed, parsed, k, u, 0)
    <3>1. HeaderUpTo(4) = <<>> /\ k + 0 = k /\ ~(0 > 0) /\ 1..0 = {}
      BY HeaderSteps
    <3>5. k + 0 <= 3 => k # 4
      OBVIOUS
    <3>2. k + 0 <= 3 => parsed.header = HeaderUpTo(k + 0) /\ ~parsed.session
      BY ONLY <3>1, <3>5, parsed.header = HeaderUpTo(k), parsed.session = (k = 4)
    <3>3. k + 0 >= 4 => parsed.header = <<>> /\ parsed.session = ~(0 > 0 /\ u[0] = "done")
      BY <3>1
    <3>4. parsed.errors <=> (parsed.errors \/ \E i \in 1..0 : u[i] = "group")
      BY <3>1
    <3> QED
      BY <3>2, <3>3, <3>4 DEF ReadTo
  <2>2. ReadTo(After(parsed, u, n), parsed, k, u, n)
    BY <2>1, LinesReadOn
  <2> QED
    BY <1>2, <2>2
<1> HIDE DEF v, put
<1>6. parsed.errors => parsed'.errors
  BY <1>5 DEF ReadTo
<1>7. \A q \in Sessions \ {s} : Quiet(q)'
  BY <1>2, <1>6, StaysQuiet
<1>8. cuts => v[1] = u[n + 1] /\ n + 1 \in 1..Len(u) /\ v # <<>>
  BY <1>1, <1>2, <1>4
<1>9. "group" \in wrote'[s] => parsed'.errors \/ (cuts /\ v[1] = "group")
  <2>1. ASSUME NEW i \in 1..(IF cuts THEN n + 1 ELSE n), u[i] = "group"
        PROVE  parsed'.errors \/ (cuts /\ v[1] = "group")
    <3>1. CASE i \in 1..n
      BY <1>5, <2>1, <3>1 DEF ReadTo
    <3>2. CASE i \notin 1..n
      <4>1. cuts /\ i = n + 1
        BY <2>1, <3>2
      <4> QED
        BY <1>8, <2>1, <4>1
    <3> QED
      BY <3>1, <3>2
  <2>2. ASSUME "group" \in wrote[s], u[1] = "group"
        PROVE  parsed'.errors \/ (cuts /\ v[1] = "group")
    <3>1. 1 \in 1..(IF cuts THEN n + 1 ELSE n)
      BY <1>2
    <3> QED
      BY <2>1, <2>2, <3>1
  <2> QED
    BY <1>2, <1>6, <2>1, <2>2 DEF put
<1>10. "done" \in wrote'[s] => (n > 0 /\ u[n] = "done") \/ (cuts /\ v[1] = "done")
  <2>1. ASSUME NEW i \in 1..(IF cuts THEN n + 1 ELSE n), u[i] = "done"
        PROVE  (n > 0 /\ u[n] = "done") \/ (cuts /\ v[1] = "done")
    <3>1. i \in 1..Len(u)
      BY <1>1, <1>2, <2>1
    <3>2. i = Len(u)
      BY <2>1, <3>1, RestIs
    <3>3. CASE cuts
      <4>1. i = n + 1
        BY <1>2, <2>1, <3>2, <3>3
      <4> QED
        BY <1>8, <2>1, <3>3, <4>1
    <3>4. CASE ~cuts
      <4>1. i \in 1..n
        BY <2>1, <3>4
      <4>2. Len(u) \in Nat /\ n \in Nat /\ n <= Len(u)
        BY <1>1
      <4>3. i \in Nat /\ i >= 1 /\ i <= n
        BY <4>1, <4>2
      <4>4. i = n /\ n > 0
        BY <3>2, <4>2, <4>3
      <4> QED
        BY <2>1, <4>4
    <3> QED
      BY <3>3, <3>4
  <2>2. ASSUME "done" \in wrote[s], u[1] = "done"
        PROVE  (n > 0 /\ u[n] = "done") \/ (cuts /\ v[1] = "done")
    <3>1. 1 \in 1..(IF cuts THEN n + 1 ELSE n)
      BY <1>2
    <3> QED
      BY <2>1, <2>2, <3>1
  <2> QED
    BY <1>2, <2>1, <2>2 DEF put
<1>11. CASE n > 0 /\ u[n] = "done"
  <2>1. n \in 1..Len(u) /\ n = Len(u) /\ n > 4 - k
    <3>1. n \in 1..Len(u)
      BY <1>1, <1>11
    <3> QED
      BY <1>11, <3>1, RestIs
  <2>2. ~cuts /\ k + n >= 4
    BY <1>1, <1>2, <2>1
  <2>3. parsed'.header = <<>> /\ ~parsed'.session
    BY <1>11, <2>2, <1>5 DEF ReadTo
  <2>4. v = <<>>
    BY <1>1, <1>4, <2>1
  <2>5. "done" \in wrote'[s]
    BY <1>2, <1>11, <2>1, <2>2 DEF put
  <2>6. Quiet(s)'
    BY <1>2, <1>9, <2>2, <2>4, <2>5 DEF Quiet
  <2>7. Between'
    BY <1>2, <1>3, <1>7, <2>2, <2>3, <2>6 DEF Between
  <2> QED
    BY <2>7
<1>12. CASE ~(n > 0 /\ u[n] = "done")
  <2>1. parsed'.header = HeaderUpTo(m) /\ parsed'.session = (m = 4)
    <3>1. CASE k + n <= 3
      <4>1. parsed'.header = HeaderUpTo(k + n) /\ ~parsed'.session
        BY <1>5, <3>1 DEF ReadTo
      <4>2. m = k + n /\ m # 4
        BY <3>1
      <4>3. parsed'.session \in BOOLEAN
        <5>1. parsed' \in Parser
          BY <1>2, AfterLines
        <5> QED
          BY <5>1 DEF Parser
      <4> QED
        BY <4>1, <4>2, <4>3
    <3>2. CASE k + n >= 4
      <4>1. parsed'.header = <<>> /\ parsed'.session = TRUE
        BY <1>5, <1>12, <3>2 DEF ReadTo
      <4>2. m = 4
        BY <3>2
      <4> QED
        BY <4>1, <4>2, HeaderSteps
    <3> QED
      BY <3>1, <3>2
  <2>2. m < 4 => n < Len(u)
    <3>1. Len(u) >= 4 - k
      BY DEF Rest
    <3> QED
      BY <1>1, <3>1
  <2>3. m < 4 => torn'
    BY <1>2, <2>2
  <2>4. put # {}
    <3>1. 1 \in 1..(IF cuts THEN n + 1 ELSE n)
      BY <1>2
    <3>2. u[1] \in put
      BY <3>1 DEF put
    <3> QED
      BY <3>2
  <2>5. CASE ~cuts
    <3>1. m > 0
      BY <1>2, <2>5
    <3>2. tail' = NoLine /\ cut' = {} /\ "done" \notin wrote'[s] /\ ("group" \in wrote'[s] => parsed'.errors)
      BY <1>2, <1>3, <1>9, <1>10, <1>12, <2>5
    <3>3. Within(s, m)'
      BY <1>2, <1>4, <1>7, <2>1, <2>3, <2>4, <3>1, <3>2 DEF Within
    <3> QED
      BY <1>4, <3>3
  <2>6. CASE cuts
    <3>1. cut' = {s} /\ torn'
      BY <1>2, <2>6
    <3>2. tail' \in IF m < 4 THEN {Log!Header[m + 1], "junk"} ELSE {"entry", "group", "done", "junk"}
      <4>1. tail' \in {u[n + 1], "junk"} /\ n + 1 \in 1..Len(u)
        BY <1>3, <1>8, <2>6
      <4>2. CASE m < 4
        <5>1. m = k + n /\ n + 1 <= 4 - k
          BY <4>2
        <5>2. u[n + 1] = Log!Header[k + (n + 1)]
          BY <4>1, <5>1, RestIs
        <5>3. k + (n + 1) = m + 1
          BY <5>1
        <5> QED
          BY <4>1, <4>2, <5>2, <5>3
      <4>3. CASE ~(m < 4)
        <5>1. n + 1 > 4 - k
          BY <4>3
        <5>2. u[n + 1] \in {"entry", "group", "done"}
          BY <4>1, <5>1, RestIs
        <5> QED
          BY <4>1, <4>3, <5>2
      <4> QED
        BY <4>2, <4>3
    <3>3. tail' = "done" => v[1] = "done"
      BY <1>3, <1>8, <2>6
    <3>4. v[1] = "done" => "done" \in wrote'[s]
      BY <1>2, <1>8, <2>6 DEF put
    <3>5. tail' = "done" => "done" \in wrote'[s] /\ ("group" \in wrote'[s] => parsed'.errors)
      BY <1>9, <3>3, <3>4
    <3>6. /\ v # <<>>
          /\ "group" \in wrote'[s] => parsed'.errors \/ v[1] = "group"
          /\ "done" \in wrote'[s] => v[1] = "done"
      BY <1>8, <1>9, <1>10, <1>12, <2>6
    <3>7. Within(s, m)'
      BY <1>2, <1>4, <1>7, <2>1, <2>3, <2>4, <3>1, <3>2, <3>5, <3>6 DEF Within
    <3> QED
      BY <1>4, <3>7
  <2> QED
    BY <2>5, <2>6
<1> QED
  BY <1>11, <1>12

LEMMA TwoLinesOn ==
  ASSUME NEW p, NEW kinds
  PROVE  /\ After(p, kinds, 1) = Log!Line(p, kinds[1])
         /\ After(p, kinds, 2) = Log!Line(Log!Line(p, kinds[1]), kinds[2])
<1>1. After(p, kinds, 0) = p /\ After(p, kinds, 0 + 1) = Log!Line(After(p, kinds, 0), kinds[0 + 1])
  BY NextLine
<1>2. After(p, kinds, 1 + 1) = Log!Line(After(p, kinds, 1), kinds[1 + 1])
  <2>1. 1 \in Nat
    OBVIOUS
  <2> QED
    BY <2>1, NextLine
<1>3. 0 + 1 = 1 /\ 1 + 1 = 2
  OBVIOUS
<1> QED
  BY <1>1, <1>2, <1>3

LEMMA AppendToOne ==
  ASSUME NEW X, NEW s \in Seq(X), NEW z \in X, NEW v, Append(s, z) = <<v>>
  PROVE  s = <<>>
<1> DEFINE t == Append(s, z)
<1>1. Len(s) = Len(t) - 1
  BY AppendGives
<1>2. t = <<v>>
  OBVIOUS
<1> HIDE DEF t
<1>3. Len(t) = 1
  BY <1>2
<1>4. Len(s) = 0
  BY <1>1, <1>3
<1> QED
  BY <1>4

LEMMA NoHeader ==
  ASSUME NEW h \in Seq(LineKinds), h # <<>>, NEW z \in LineKinds,
         z = "junk" \/ (z = "url" /\ h # <<"---">>)
  PROVE  Append(h, z) \notin {<<>>, <<"---">>, <<"---", "url">>, <<"---", "url", "title">>}
<1>1. Append(h, z) # <<>>
  OBVIOUS
<1>2. Append(h, z) # <<"---">>
  BY AppendToOne
<1>3. ASSUME Append(h, z) = <<"---", "url">> PROVE FALSE
  <2>1. h = <<"---">>
    BY <1>3, AppendToTwo
  <2>2. Append(<<"---">>, z)[2] = z /\ <<"---", "url">>[2] = "url"
    OBVIOUS
  <2> QED
    BY <1>3, <2>1, <2>2
<1>4. ASSUME Append(h, z) = <<"---", "url", "title">> PROVE FALSE
  <2>1. h = <<"---", "url">>
    BY <1>4, AppendToThree
  <2>2. Append(<<"---", "url">>, z)[3] = z /\ <<"---", "url", "title">>[3] = "title"
    OBVIOUS
  <2> QED
    BY <1>4, <2>1, <2>2
<1> QED
  BY <1>1, <1>2, <1>3, <1>4

\* What dooms a parser that reads on.
LEMMA DoomsAt ==
  ASSUME NEW q, NEW h, h \notin {<<>>, <<"---">>, <<"---", "url">>, <<"---", "url", "title">>},
         q.header = h
  PROVE  Doomed(q)
  BY DoomedIs

\* Nothing unknown, nor a header within a header, can be read without a flag.
LEMMA Spoils ==
  ASSUME NEW p \in Parser, NEW k \in 0..4, p.header = HeaderUpTo(k), p.session = (k = 4)
  PROVE  /\ k \in {0, 3, 4} => Doomed(Log!Line(p, "junk"))
         /\ k \in {1, 2, 4} => Doomed(Log!Line(p, "---"))
         /\ k = 3 => Doomed(Log!Line(Log!Line(p, "---"), "url"))
         /\ k = 1 => \A kind \in {"url", "junk"} : Doomed(Log!Line(Log!Line(p, kind), "url"))
         /\ k = 2 => \A kind \in {"title", "junk"} : Doomed(Log!Line(Log!Line(p, kind), "url"))
         /\ k = 4 => Doomed(Log!Line(Log!Line(p, "entry"), "url"))
<1>1. /\ "junk" \in LineKinds /\ "---" \in LineKinds /\ "url" \in LineKinds /\ "title" \in LineKinds
      /\ "entry" \in LineKinds
  BY DEF LineKinds
<1>2. p.session \in BOOLEAN
  BY DEF Parser
<1>3. CASE k = 0
  <2>1. p.header = <<>>
    BY <1>3, HeaderSteps
  <2>2. Fields(Log!Line(p, "junk"), <<>>, p.session, p.errors, TRUE)
    BY <1>1, <2>1, LineReads
  <2>3. Doomed(Log!Line(p, "junk"))
    BY <2>2, DoomedIs DEF Fields
  <2> QED
    BY <1>3, <2>3
<1>4. CASE k = 4
  <2>1. p.header = <<>> /\ p.session
    BY <1>4, HeaderSteps
  <2>2. Fields(Log!Line(p, "junk"), <<>>, p.session, p.errors, TRUE)
    BY <1>1, <2>1, LineReads
  <2>3. Doomed(Log!Line(p, "junk"))
    BY <2>2, DoomedIs DEF Fields
  <2>4. Fields(Log!Line(p, "---"), <<"---">>, p.session, p.errors, p.flagged)
    BY <1>1, <2>1, LineReads
  <2>5. <<"---">> # <<>>
    OBVIOUS
  <2>6. Doomed(Log!Line(p, "---"))
    BY <2>1, <2>4, <2>5, DoomedIs DEF Fields
  <2> DEFINE q == Log!Line(p, "entry")
  <2>7. q \in Parser /\ Fields(q, <<>>, p.session, p.errors, p.flagged \/ ~p.session)
    BY <1>1, <2>1, LineReads
  <2>8. q.header = <<>>
    BY <2>7 DEF Fields
  <2> HIDE DEF q
  <2>9. Fields(Log!Line(q, "url"), <<>>, q.session, q.errors, TRUE)
    BY <1>1, <2>7, <2>8, LineReads
  <2>10. Doomed(Log!Line(q, "url"))
    BY <2>9, DoomedIs DEF Fields
  <2> QED
    BY <1>4, <2>3, <2>6, <2>10 DEF q
<1>5. CASE k = 3
  <2>1. p.header = HeaderUpTo(3) /\ HeaderUpTo(3) # <<>> /\ Tail(p.header) = <<"url", "title">>
    BY <1>5, HeaderSteps
  <2>2. Fields(Log!Line(p, "junk"), Append(HeaderUpTo(3), "junk"), p.session, p.errors, p.flagged)
    BY <1>1, <2>1, LineReads
  <2>3. Append(HeaderUpTo(3), "junk") \notin {<<>>, <<"---">>, <<"---", "url">>, <<"---", "url", "title">>}
    <3>1. p.header \in Seq(LineKinds)
      BY DEF Parser
    <3> QED
      BY <1>1, <2>1, <3>1, NoHeader
  <2>4. Doomed(Log!Line(p, "junk"))
    BY <2>2, <2>3, DoomsAt DEF Fields
  <2> DEFINE q == Log!Line(p, "---")
  <2>5. q \in Parser /\ Fields(q, <<>>, TRUE, p.errors, p.flagged \/ p.session)
    BY <1>1, <2>1, LineReads
  <2>6. q.header = <<>>
    BY <2>5 DEF Fields
  <2> HIDE DEF q
  <2>7. Fields(Log!Line(q, "url"), <<>>, q.session, q.errors, TRUE)
    BY <1>1, <2>5, <2>6, LineReads
  <2>8. Doomed(Log!Line(q, "url"))
    BY <2>7, DoomedIs DEF Fields
  <2> QED
    BY <1>5, <2>4, <2>8 DEF q
<1>6. CASE k \in {1, 2}
  <2>1. p.header # <<>> /\ Tail(p.header) # <<"url", "title">>
    <3>1. CASE k = 1
      <4>1. Tail(<<"---">>) # <<"url", "title">>
        OBVIOUS
      <4> QED
        BY <3>1, <4>1, HeaderSteps
    <3>2. CASE k = 2
      <4>1. Tail(<<"---", "url">>) # <<"url", "title">>
        OBVIOUS
      <4> QED
        BY <3>2, <4>1, HeaderSteps
    <3> QED
      BY <1>6, <3>1, <3>2
  <2>2. Fields(Log!Line(p, "---"), <<>>, p.session, p.errors, TRUE)
    BY <1>1, <2>1, LineReads
  <2>3. Doomed(Log!Line(p, "---"))
    BY <2>2, DoomedIs DEF Fields
  <2>4. ASSUME NEW kind \in {"url", "title", "junk"}, ~(k = 1 /\ kind = "title"), ~(k = 2 /\ kind = "url")
        PROVE  Doomed(Log!Line(Log!Line(p, kind), "url"))
    <3> DEFINE q == Log!Line(p, kind)
               h == Append(p.header, kind)
    <3>1. kind \in LineKinds /\ kind # "---" /\ p.header \in Seq(LineKinds)
      BY DEF LineKinds, Parser
    <3>2. q \in Parser /\ Fields(q, h, p.session, p.errors, p.flagged)
      BY <2>1, <3>1, LineReads
    <3>3. q.header = h /\ h # <<>>
      BY <3>1, <3>2 DEF Fields
    <3> HIDE DEF q
    <3>4. Fields(Log!Line(q, "url"), Append(h, "url"), q.session, q.errors, q.flagged)
      BY <1>1, <3>2, <3>3, LineReads
    <3>5. Append(h, "url") \notin {<<>>, <<"---">>, <<"---", "url">>, <<"---", "url", "title">>}
      <4>1. h \in Seq(LineKinds) /\ h # <<"---">>
        BY <2>1, <3>1, AppendToOne
      <4> HIDE DEF h
      <4> QED
        BY <1>1, <3>3, <4>1, NoHeader
    <3>6. Doomed(Log!Line(q, "url"))
      BY <3>4, <3>5, DoomsAt DEF Fields
    <3> QED
      BY <3>6 DEF q
  <2> QED
    BY <1>6, <2>3, <2>4
<1> QED
  BY <1>3, <1>4, <1>5, <1>6

\* What a flush() has read of the file, when a line dooms it.
LEMMA DoomedBy ==
  ASSUME NEW r \in Seq(LineKinds), NEW n \in 0..Len(r), parsed \in Parser, parsed' = After(parsed, r, n),
         \/ n >= 1 /\ Doomed(Log!Line(parsed, r[1]))
         \/ n >= 2 /\ Doomed(Log!Line(Log!Line(parsed, r[1]), r[2]))
  PROVE  Doomed(parsed')
<1>1. CASE n >= 1 /\ Doomed(Log!Line(parsed, r[1]))
  <2>1. Doomed(After(parsed, r, 1)) /\ 1 \in 0..n
    BY <1>1, TwoLinesOn
  <2> QED
    BY <2>1, AfterLines
<1>2. CASE n >= 2 /\ Doomed(Log!Line(Log!Line(parsed, r[1]), r[2]))
  <2>1. Doomed(After(parsed, r, 2)) /\ 2 \in 0..n
    BY <1>2, TwoLinesOn
  <2> QED
    BY <2>1, AfterLines
<1> QED
  BY <1>1, <1>2

\* Another session begins where one is in the middle of its own.
LEMMA Overlapped ==
  ASSUME NEW s \in Sessions, NEW c \in Sessions, c # s, NEW k \in 0..4, Within(c, k),
         NEW u \in Seq(LineKinds), u # <<>>, Rest(u, 0), NEW n \in 0..Len(u), NEW cuts \in BOOLEAN,
         NEW first \in LineKinds, Written(s, u, n, cuts, first),
         parsed \in Parser, buffer \in [Sessions -> Seq(LineKinds)], torn \in BOOLEAN
  PROVE  Doomed(parsed') \/ Crossed(s)'
<1> DEFINE r == <<first>> \o Tail(u)
<1>1. /\ r \in Seq(LineKinds) /\ Len(r) = Len(u)
      /\ \A i \in 1..Len(u) : r[i] = IF i = 1 THEN first ELSE u[i]
  BY Reads
<1>2. Len(u) \in Nat /\ Len(u) >= 4 /\ u[1] = "---" /\ u[2] = "url"
  <2>1. Len(u) \in Nat /\ Len(u) >= 4 /\ u[1] = Log!Header[0 + 1] /\ u[2] = Log!Header[0 + 2]
    BY DEF Rest
  <2> QED
    BY <2>1, HeaderIs
<1>3. r[1] = first /\ r[2] = "url"
  BY <1>1, <1>2
<1>4. /\ n > 0 \/ cuts
      /\ cuts \/ n < Len(u) => ~torn
      /\ cuts => torn'
      /\ first \in Log!FirstReads(s, u[1])
      /\ parsed' = After(parsed, r, n)
      /\ cuts => cut' = {s}
      /\ buffer'[s] = SubSeq(u, n + 1, Len(u))
  BY DEF Written
<1>5. cuts => tail' \in {r[n + 1], "junk"}
  BY DEF Written, Log!Begins
<1> HIDE DEF r
<1>6. parsed.header = HeaderUpTo(k) /\ parsed.session = (k = 4) /\ (k < 4 => torn)
  BY DEF Within
<1>7. CASE tail = NoLine /\ cut = {} /\ k > 0
  <2>1. first = "---"
    BY <1>2, <1>4, <1>7 DEF Log!FirstReads, NoLine
  <2>2. CASE n = 0
    <3>1. cuts /\ ~torn /\ k = 4
      BY <1>4, <1>6, <2>2
    <3>2. After(parsed, r, 0) = parsed
      BY NextLine
    <3>3. parsed' = parsed
      BY <1>4, <2>2, <3>2
    <3>4. parsed'.header = <<>> /\ parsed'.session
      BY <1>6, <3>1, <3>3, HeaderSteps
    <3>5. tail' \in {"---", "junk"}
      BY <1>3, <1>5, <2>1, <2>2, <3>1
    <3>6. SubSeq(u, n + 1, Len(u)) = u
      BY <1>2, <2>2
    <3>7. Rest(buffer'[s], 0)
      BY <1>4, <3>6
    <3>8. Crossed(s)'
      BY <1>4, <3>1, <3>4, <3>5, <3>7 DEF Crossed
    <3> QED
      BY <3>8
  <2>3. CASE n # 0
    <3>1. n >= 1 /\ (k = 3 => n >= 2)
      BY <1>2, <1>4, <1>6, <2>3
    <3>2. CASE k # 3
      <4>1. Doomed(Log!Line(parsed, r[1]))
        BY <1>3, <1>6, <1>7, <2>1, <3>2, Spoils
      <4> QED
        BY <1>1, <1>4, <3>1, <4>1, DoomedBy
    <3>3. CASE k = 3
      <4>1. Doomed(Log!Line(Log!Line(parsed, r[1]), r[2]))
        BY <1>3, <1>6, <2>1, <3>3, Spoils
      <4> QED
        BY <1>1, <1>4, <3>1, <3>3, <4>1, DoomedBy
    <3> QED
      BY <3>2, <3>3
  <2> QED
    BY <2>2, <2>3
<1>8. CASE /\ cut = {c} /\ torn
           /\ tail \in IF k < 4 THEN {Log!Header[k + 1], "junk"} ELSE {"entry", "group", "done", "junk"}
  <2>1. n >= 2
    BY <1>2, <1>4, <1>8
  <2>2. tail \in CASE k = 0 -> {"---", "junk"} [] k = 1 -> {"url", "junk"} [] k = 2 -> {"title", "junk"}
                   [] k = 3 -> {"---", "junk"} [] OTHER -> {"entry", "group", "done", "junk"}
    BY <1>8, HeaderIs
  <2>3. tail # ""
    BY <2>2
  <2>4. first \in IF tail \in {"entry", "url", "title"} THEN {tail} ELSE {"junk"}
    BY <1>4, <1>8, <2>3 DEF Log!FirstReads
  <2>5. CASE k \in {0, 3}
    <3>1. first = "junk"
      BY <2>2, <2>4, <2>5
    <3>2. Doomed(Log!Line(parsed, r[1]))
      BY <1>3, <1>6, <2>5, <3>1, Spoils
    <3> QED
      BY <1>1, <1>4, <2>1, <3>2, DoomedBy
  <2>6. CASE k \in {1, 2}
    <3>1. first \in IF k = 1 THEN {"url", "junk"} ELSE {"title", "junk"}
      BY <2>2, <2>4, <2>6
    <3>2. Doomed(Log!Line(Log!Line(parsed, r[1]), r[2]))
      BY <1>3, <1>6, <2>6, <3>1, Spoils
    <3> QED
      BY <1>1, <1>4, <2>1, <3>2, DoomedBy
  <2>7. CASE k = 4
    <3>1. first \in {"entry", "junk"}
      BY <2>2, <2>4, <2>7
    <3>2. \/ Doomed(Log!Line(parsed, r[1]))
          \/ Doomed(Log!Line(Log!Line(parsed, r[1]), r[2]))
      BY <1>3, <1>6, <2>7, <3>1, Spoils
    <3> QED
      BY <1>1, <1>4, <2>1, <3>2, DoomedBy
  <2> QED
    BY <2>5, <2>6, <2>7
<1> QED
  BY <1>7, <1>8 DEF Within

\* Whoever writes behind the first line of a session that was cut within another one.
LEMMA CrossedIsDoomed ==
  ASSUME NEW s \in Sessions, NEW c \in Sessions, Crossed(c), NEW u \in Seq(LineKinds), u # <<>>,
         s = c => u[1] = "---", NEW n \in 0..Len(u), NEW cuts \in BOOLEAN, NEW first \in LineKinds,
         Written(s, u, n, cuts, first), parsed \in Parser
  PROVE  Doomed(parsed')
<1> DEFINE r == <<first>> \o Tail(u)
<1>1. /\ r \in Seq(LineKinds) /\ Len(r) = Len(u) /\ Len(u) >= 1 /\ Len(u) \in Nat
      /\ r[1] = first
  BY Reads
<1>2. n >= 1 /\ parsed' = After(parsed, r, n) /\ first \in Log!FirstReads(s, u[1])
  BY <1>1 DEF Written, Crossed
<1> HIDE DEF r
<1>3. parsed.header = HeaderUpTo(4) /\ parsed.session = (4 = 4) /\ 4 \in 0..4
  <2>1. parsed.session \in BOOLEAN
    BY DEF Parser
  <2>2. parsed.session = TRUE
    BY <2>1 DEF Crossed
  <2>3. parsed.header = <<>>
    BY DEF Crossed
  <2>4. parsed.header = HeaderUpTo(4)
    BY <2>3, HeaderSteps
  <2>5. parsed.session = (4 = 4)
    BY <2>2
  <2>6. 4 \in 0..4
    OBVIOUS
  <2> QED
    BY <2>4, <2>5, <2>6
<1>4. first \in {"---", "junk"}
  BY <1>2 DEF Crossed, Log!FirstReads
<1>5. Doomed(Log!Line(parsed, "junk")) /\ Doomed(Log!Line(parsed, "---"))
  BY <1>3, Spoils
<1> QED
  BY <1>1, <1>2, <1>4, <1>5, DoomedBy

-----------------------------------------------------------------------------
\* The lines u that session s is to flush before it goes on to the phase to.
Writer(s, u, to) ==
  /\ u \in Seq(LineKinds) /\ u # <<>>
  /\ wrote[s] = {} => Rest(u, 0)
  /\ buffer[s] # <<>> => u[1] = buffer[s][1]
  /\ \A k \in 0..4 : Live(s) /\ Rest(buffer[s], k) => Rest(u, k)
  /\ "done" \in wrote[s] => buffer[s] # <<>>
  /\ Live(s) \/ wrote[s] = {}
  /\ to \in {"open", "saved", "failed", "done", "closed"}
  /\ to \in {"open", "saved", "failed"} =>
       "done" \notin wrote[s] /\ \A i \in 1..Len(u) : u[i] # "done"

\* A session that is in the file, and quiet, has nothing to flush.
LEMMA QuietWriter ==
  ASSUME NEW s, NEW u, NEW to, Writer(s, u, to), Quiet(s)
  PROVE  wrote[s] = {}
  BY DEF Writer, Quiet

\* Nothing of what is flushed reaches the file.
LEMMA NothingWritten ==
  ASSUME LogTyped, \A s \in Sessions : SessionFits(s), FileFits,
         NEW s \in Sessions, NEW u, NEW to, Writer(s, u, to),
         logPhase' = [logPhase EXCEPT ![s] = to], buffer' = [buffer EXCEPT ![s] = u],
         UNCHANGED <<parsed, tail, cut, torn, wrote>>
  PROVE  LogTyped' /\ (\A q \in Sessions : SessionFits(q)') /\ FileFits'
<1>1. /\ logPhase'[s] = to /\ \A q \in Sessions \ {s} : logPhase'[q] = logPhase[q]
      /\ buffer'[s] = u /\ \A q \in Sessions \ {s} : buffer'[q] = buffer[q]
  BY DEF LogTyped
<1>2. LogTyped'
  <2>1. logPhase' \in [Sessions -> {"new", "open", "saved", "failed", "done", "closed", "dead"}]
    BY DEF LogTyped, Writer
  <2>2. buffer' \in [Sessions -> Seq(LineKinds)]
    BY DEF LogTyped, Writer
  <2> QED
    BY <2>1, <2>2 DEF LogTyped
<1>3. ASSUME NEW q \in Sessions PROVE SessionFits(q)'
  <2>1. CASE q = s
    BY <1>1, <2>1 DEF SessionFits, Writer, Live
  <2>2. CASE q # s
    BY <1>1, <2>2 DEF SessionFits, Live
  <2> QED
    BY <2>1, <2>2
<1>4. ASSUME NEW q \in Sessions, Quiet(q) PROVE Quiet(q)'
  <2>1. CASE q = s
    <3>1. wrote[s] = {}
      BY <1>4, <2>1, QuietWriter
    <3> QED
      BY <2>1, <3>1 DEF Quiet
  <2>2. CASE q # s
    BY <1>1, <1>4, <2>2, StaysQuiet
  <2> QED
    BY <2>1, <2>2
<1>5. CASE Doomed(parsed)
  <2>1. Doomed(parsed')
    BY <1>5
  <2> QED
    BY <1>2, <1>3, <2>1 DEF FileFits
<1>6. CASE Between
  <2>1. Between'
    BY <1>4, <1>6 DEF Between
  <2> QED
    BY <1>2, <1>3, <2>1 DEF FileFits
<1>7. ASSUME NEW c \in Sessions, NEW k \in 0..4, Within(c, k) PROVE Within(c, k)'
  <2>1. \A q \in Sessions \ {c} : Quiet(q)'
    BY <1>4, <1>7 DEF Within
  <2>2. CASE c = s
    <3>1. Live(s)
      BY <1>7, <2>2 DEF Within, Writer
    <3>2. Rest(u, k)
      BY <1>7, <2>2, <3>1 DEF Within, Writer
    <3>3. /\ u # <<>>
          /\ buffer[s] # <<>> => u[1] = buffer[s][1]
      BY DEF Writer
    <3> QED
      BY <1>1, <1>7, <2>1, <2>2, <3>1, <3>2, <3>3 DEF Within
  <2>3. CASE c # s
    BY <1>1, <1>7, <2>1, <2>3 DEF Within, Live
  <2> QED
    BY <2>2, <2>3
<1>8. ASSUME NEW c \in Sessions, Crossed(c) PROVE Crossed(c)'
  <2>1. CASE c = s
    <3>1. Live(s) \/ wrote[s] = {}
      BY DEF Writer
    <3>2. 0 \in 0..4 /\ Rest(u, 0)
      BY <1>8, <2>1, <3>1 DEF Crossed, Writer
    <3> QED
      BY <1>1, <1>8, <2>1, <3>2 DEF Crossed
  <2>2. CASE c # s
    BY <1>1, <1>8, <2>2 DEF Crossed, Live
  <2> QED
    BY <2>1, <2>2
<1>9. FileFits'
  BY <1>5, <1>6, <1>7, <1>8 DEF FileFits
<1> QED
  BY <1>2, <1>3, <1>9

\* Something of what is flushed reaches the file.
LEMMA SomethingWritten ==
  ASSUME LogTyped, \A s \in Sessions : SessionFits(s), FileFits,
         NEW s \in Sessions, NEW u, NEW to, Writer(s, u, to),
         logPhase' = [logPhase EXCEPT ![s] = to], NEW n \in 0..Len(u), NEW cuts \in BOOLEAN,
         NEW first \in LineKinds, Written(s, u, n, cuts, first)
  PROVE  LogTyped' /\ (\A q \in Sessions : SessionFits(q)') /\ FileFits'
<1>1. u \in Seq(LineKinds) /\ u # <<>>
  BY ONLY Writer(s, u, to) DEF Writer
<1> DEFINE r == <<first>> \o Tail(u)
           v == SubSeq(u, n + 1, Len(u))
           put == {u[i] : i \in 1..(IF cuts THEN n + 1 ELSE n)}
<1>2. /\ r \in Seq(LineKinds) /\ Len(r) = Len(u) /\ Len(u) >= 1 /\ Len(u) \in Nat /\ u[1] \in LineKinds
      /\ v \in Seq(LineKinds) /\ Len(v) = Len(u) - n /\ \A i \in 1..Len(v) : v[i] = u[n + i]
  <2>1. r \in Seq(LineKinds) /\ Len(r) = Len(u) /\ Len(u) >= 1 /\ Len(u) \in Nat /\ u[1] \in LineKinds
    BY <1>1, Reads
  <2>2. v \in Seq(LineKinds) /\ Len(v) = Len(u) - n /\ \A i \in 1..Len(v) : v[i] = u[n + i]
    BY <1>1
  <2> QED
    BY <2>1, <2>2, Zenon
<1>3. /\ n > 0 \/ cuts
      /\ cuts => n < Len(u)
      /\ torn' = (torn \/ cuts \/ n < Len(u))
      /\ buffer' = [buffer EXCEPT ![s] = v]
      /\ first \in Log!FirstReads(s, u[1])
      /\ parsed' = After(parsed, r, n)
      /\ tail' \in IF cuts THEN Log!Begins(r[n + 1]) ELSE {NoLine}
      /\ cut' = IF cuts THEN {s} ELSE cut \ {s}
      /\ wrote' = [wrote EXCEPT ![s] = @ \cup put]
  BY DEF Written
<1> HIDE DEF r, v, put
<1>4. put \subseteq LineKinds /\ put # {} /\ \A x \in put : \E i \in 1..Len(u) : x = u[i]
  <2>1. \A i \in 1..(IF cuts THEN n + 1 ELSE n) : i \in 1..Len(u)
    BY <1>2, <1>3
  <2>2. 1 \in 1..(IF cuts THEN n + 1 ELSE n)
    BY <1>3
  <2>3. u[1] \in put
    BY <2>2 DEF put
  <2> QED
    BY <1>1, <2>1, <2>3 DEF put
<1>5. /\ logPhase'[s] = to /\ \A q \in Sessions \ {s} : logPhase'[q] = logPhase[q]
      /\ buffer'[s] = v /\ \A q \in Sessions \ {s} : buffer'[q] = buffer[q]
      /\ wrote'[s] = wrote[s] \cup put /\ \A q \in Sessions \ {s} : wrote'[q] = wrote[q]
  BY <1>3 DEF LogTyped
<1>6. LogTyped'
  <2>1. logPhase' \in [Sessions -> {"new", "open", "saved", "failed", "done", "closed", "dead"}]
    BY DEF LogTyped, Writer
  <2>2. buffer' \in [Sessions -> Seq(LineKinds)]
    BY <1>2, <1>3 DEF LogTyped
  <2>3. wrote' \in [Sessions -> SUBSET LineKinds]
    BY <1>3, <1>4 DEF LogTyped
  <2>4. parsed' \in Parser
    BY <1>2, <1>3, AfterLines DEF LogTyped
  <2>5. tail' \in LineKinds \cup {NoLine}
    <3>1. CASE cuts
      <4>1. r[n + 1] \in LineKinds
        BY <1>2, <1>3, <3>1
      <4>2. tail' \in {r[n + 1], "junk"}
        BY <1>3, <3>1 DEF Log!Begins
      <4> QED
        BY <4>1, <4>2 DEF LineKinds
    <3>2. CASE ~cuts
      BY <1>3, <3>2
    <3> QED
      BY <3>1, <3>2
  <2>6. cut' \subseteq Sessions /\ torn' \in BOOLEAN
    BY <1>3 DEF LogTyped
  <2> QED
    BY <2>1, <2>2, <2>3, <2>4, <2>5, <2>6 DEF LogTyped
<1>7. ASSUME NEW q \in Sessions PROVE SessionFits(q)'
  <2>1. CASE q = s
    <3>1. to # "new" /\ wrote'[s] # {}
      BY <1>4, <1>5 DEF Writer
    <3>2. ASSUME to \in {"open", "saved", "failed"}
          PROVE  "done" \notin wrote'[s] /\ \A i \in 1..Len(v) : v[i] # "done"
      <4>1. "done" \notin wrote[s] /\ \A i \in 1..Len(u) : u[i] # "done"
        BY <3>2 DEF Writer
      <4>2. "done" \notin wrote'[s]
        BY <1>4, <1>5, <4>1
      <4>3. \A i \in 1..Len(v) : n + i \in 1..Len(u)
        BY <1>2
      <4> QED
        BY <1>2, <4>1, <4>2, <4>3
    <3>3. to \in {"open", "saved", "failed", "done", "closed"}
      BY DEF Writer
    <3> QED
      BY <1>5, <2>1, <3>1, <3>2, <3>3 DEF SessionFits, Live
  <2>2. CASE q # s
    BY <1>5, <2>2 DEF SessionFits, Live
  <2> QED
    BY <2>1, <2>2
<1>8. /\ parsed \in Parser /\ buffer \in [Sessions -> Seq(LineKinds)] /\ torn \in BOOLEAN
      /\ wrote \in [Sessions -> SUBSET LineKinds]
  BY DEF LogTyped
<1>9. CASE Doomed(parsed)
  <2>1. After(parsed, r, 0) = parsed /\ 0 \in 0..n
    BY <1>2, NextLine
  <2>2. Doomed(parsed')
    BY <1>2, <1>3, <1>8, <1>9, <2>1, AfterLines
  <2> QED
    BY <1>6, <1>7, <2>2 DEF FileFits
<1>10. ASSUME \/ Between
              \/ \E k \in 0..4 : Within(s, k)
       PROVE  Between' \/ \E m \in 0..4 : Within(s, m)'
  <2>1. PICK k \in 0..4 :
          /\ Rest(u, k) /\ first = u[1]
          /\ parsed.header = HeaderUpTo(k) /\ parsed.session = (k = 4) /\ cut \subseteq {s}
          /\ "group" \in wrote[s] => parsed.errors \/ u[1] = "group"
          /\ "done" \in wrote[s] => u[1] = "done"
          /\ \A q \in Sessions \ {s} : Quiet(q)
    <3>1. CASE Between
      <4>1. wrote[s] = {} /\ Rest(u, 0)
        <5>1. wrote[s] = {}
          BY <3>1, QuietWriter DEF Between
        <5> QED
          BY <5>1 DEF Writer
      <4>2. first = u[1]
        BY <1>3, <3>1 DEF Between, Log!FirstReads, NoLine
      <4>3. parsed.header = HeaderUpTo(0) /\ cut \subseteq {s} /\ 0 \in 0..4
        BY <3>1, HeaderSteps DEF Between
      <4>4. parsed.session = (0 = 4)
        <5>1. parsed.session \in BOOLEAN /\ ~parsed.session
          BY <1>8, <3>1 DEF Between, Parser
        <5> QED
          BY <5>1
      <4>5. \A q \in Sessions \ {s} : Quiet(q)
        BY <3>1 DEF Between
      <4> QED
        BY <4>1, <4>2, <4>3, <4>4, <4>5
    <3>2. ASSUME NEW k \in 0..4, Within(s, k)
          PROVE  /\ Rest(u, k) /\ first = u[1]
                 /\ parsed.header = HeaderUpTo(k) /\ parsed.session = (k = 4) /\ cut \subseteq {s}
                 /\ "group" \in wrote[s] => parsed.errors \/ u[1] = "group"
                 /\ "done" \in wrote[s] => u[1] = "done"
                 /\ \A q \in Sessions \ {s} : Quiet(q)
      <4>1. Live(s)
        BY <3>2 DEF Within, Writer
      <4>2. Rest(u, k)
        BY <3>2, <4>1 DEF Within, Writer
      <4>3. /\ parsed.header = HeaderUpTo(k) /\ parsed.session = (k = 4)
            /\ \A q \in Sessions \ {s} : Quiet(q)
        BY <3>2 DEF Within
      <4>4. CASE tail = NoLine /\ cut = {} /\ "done" \notin wrote[s] /\ ("group" \in wrote[s] => parsed.errors)
        <5>1. first = u[1]
          BY <1>3, <4>4 DEF Log!FirstReads, NoLine
        <5> QED
          BY <4>2, <4>3, <4>4, <5>1
      <4>5. CASE /\ cut = {s}
                 /\ tail \in IF k < 4 THEN {Log!Header[k + 1], "junk"} ELSE {"entry", "group", "done", "junk"}
                 /\ buffer[s] # <<>>
                 /\ "group" \in wrote[s] => parsed.errors \/ buffer[s][1] = "group"
                 /\ "done" \in wrote[s] => buffer[s][1] = "done"
        <5>1. tail # ""
          <6>1. k < 4 => Log!Header[k + 1] \in {"---", "url", "title"}
            BY HeaderIs
          <6> QED
            BY <4>5, <6>1
        <5>2. first = u[1]
          BY <1>3, <4>5, <5>1 DEF Log!FirstReads
        <5>3. u[1] = buffer[s][1]
          BY <4>5 DEF Writer
        <5> QED
          BY <4>2, <4>3, <4>5, <5>2, <5>3
      <4> QED
        BY <3>2, <4>1, <4>4, <4>5 DEF Within
    <3> QED
      BY <1>10, <3>1, <3>2
  <2>2. \A q \in Sessions \ {s} : Quiet(q) /\ logPhase'[q] = logPhase[q]
    BY <1>5, <2>1
  <2>3. Written(s, u, n, cuts, u[1])
    BY <2>1
  <2>4. /\ u \in Seq(LineKinds) /\ u # <<>> /\ Rest(u, k) /\ n \in 0..Len(u) /\ cuts \in BOOLEAN
        /\ parsed \in Parser /\ buffer \in [Sessions -> Seq(LineKinds)]
        /\ wrote \in [Sessions -> SUBSET LineKinds] /\ torn \in BOOLEAN
        /\ k \in 0..4 /\ s \in Sessions
    BY <1>1, <1>8, <2>1
  <2>5. /\ parsed.header = HeaderUpTo(k) /\ parsed.session = (k = 4) /\ cut \subseteq {s}
        /\ "group" \in wrote[s] => parsed.errors \/ u[1] = "group"
        /\ "done" \in wrote[s] => u[1] = "done"
    BY <2>1
  <2>6. PICK m \in 0..4 : m = IF k + n <= 4 THEN k + n ELSE 4
    OBVIOUS
  <2>7. Between' \/ Within(s, m)'
    BY ONLY <2>2, <2>3, <2>4, <2>5, <2>6, Continued
  <2> QED
    BY <2>7
<1>11. ASSUME NEW c \in Sessions, c # s, NEW k \in 0..4, Within(c, k)
       PROVE  Doomed(parsed') \/ Crossed(s)'
  <2>1. wrote[s] = {}
    BY <1>11, QuietWriter DEF Within
  <2>2. Rest(u, 0)
    BY <2>1 DEF Writer
  <2> QED
    BY <1>1, <1>8, <1>11, <2>2, Overlapped
<1>12. ASSUME NEW c \in Sessions, Crossed(c) PROVE Doomed(parsed')
  <2>1. s = c => u[1] = "---"
    <3>1. s = c => Rest(u, 0)
      <4>1. 0 \in 0..4
        OBVIOUS
      <4> QED
        BY <1>12, <4>1 DEF Crossed, Writer
    <3>2. Rest(u, 0) => u[1] = Log!Header[0 + 1]
      BY DEF Rest
    <3> QED
      BY <3>1, <3>2, HeaderIs
  <2> QED
    BY <1>1, <1>8, <1>12, <2>1, CrossedIsDoomed
<1>13. FileFits'
  BY <1>9, <1>10, <1>11, <1>12 DEF FileFits
<1> QED
  BY <1>6, <1>7, <1>13

LEMMA FlushKept ==
  ASSUME LogInv, NEW s \in Sessions, NEW u, NEW to, Writer(s, u, to),
         logPhase' = [logPhase EXCEPT ![s] = to], Log!Flush(s, u)
  PROVE  LogInv'
<1>1. LogTyped /\ (\A q \in Sessions : SessionFits(q)) /\ FileFits
  BY DEF LogInv
<1>2. LogTyped' /\ (\A q \in Sessions : SessionFits(q)') /\ FileFits'
  <2>1. u \in Seq(LineKinds) /\ u # <<>> /\ tail \in LineKinds \cup {NoLine} /\ torn \in BOOLEAN
    BY <1>1 DEF Writer, LogTyped
  <2>2. CASE buffer' = [buffer EXCEPT ![s] = u] /\ UNCHANGED <<parsed, tail, cut, torn, wrote>>
    BY <1>1, <2>2, NothingWritten
  <2>3. ASSUME NEW n \in 0..Len(u), NEW cuts \in BOOLEAN, NEW first \in LineKinds,
               Written(s, u, n, cuts, first)
        PROVE  LogTyped' /\ (\A q \in Sessions : SessionFits(q)') /\ FileFits'
    BY <1>1, <2>3, SomethingWritten
  <2> QED
    BY <2>1, <2>2, <2>3, FlushWrites
<1> QED
  BY <1>2 DEF LogInv, LogTyped, FileFits

\* A stream that is closed, or dies, without putting more into the file.
LEMMA EndKept ==
  ASSUME LogInv, NEW s \in Sessions, NEW to \in {"closed", "dead"}, Live(s),
         logPhase' = [logPhase EXCEPT ![s] = to], NEW b \in {buffer[s], <<>>},
         buffer' = [buffer EXCEPT ![s] = b], UNCHANGED <<parsed, tail, cut, torn, wrote>>
  PROVE  LogInv'
<1>1. LogTyped /\ (\A q \in Sessions : SessionFits(q)) /\ FileFits
  BY DEF LogInv
<1>2. /\ logPhase'[s] = to /\ \A q \in Sessions \ {s} : logPhase'[q] = logPhase[q]
      /\ \A q \in Sessions \ {s} : buffer'[q] = buffer[q]
  BY <1>1 DEF LogTyped
<1>3. LogTyped'
  <2>1. logPhase' \in [Sessions -> {"new", "open", "saved", "failed", "done", "closed", "dead"}]
    BY <1>1 DEF LogTyped
  <2>2. b \in Seq(LineKinds)
    <3>1. buffer[s] \in Seq(LineKinds)
      BY <1>1 DEF LogTyped
    <3>2. <<>> \in Seq(LineKinds)
      OBVIOUS
    <3> QED
      BY <3>1, <3>2
  <2>3. buffer' \in [Sessions -> Seq(LineKinds)]
    BY <1>1, <2>2 DEF LogTyped
  <2> QED
    BY <1>1, <2>1, <2>3 DEF LogTyped
<1>4. ASSUME NEW q \in Sessions PROVE SessionFits(q)'
  BY <1>1, <1>2 DEF SessionFits, Live
<1>5. ASSUME NEW q \in Sessions, Quiet(q) PROVE Quiet(q)'
  BY <1>2, <1>5, StaysQuiet
<1>6. ASSUME NEW c \in Sessions, NEW k \in 0..4, Within(c, k) PROVE Within(c, k)'
  <2>1. \A q \in Sessions \ {c} : Quiet(q)'
    BY <1>5, <1>6 DEF Within
  <2> QED
    BY <1>2, <1>6, <2>1 DEF Within, Live
<1>7. ASSUME NEW c \in Sessions, Crossed(c) PROVE Crossed(c)'
  BY <1>2, <1>7 DEF Crossed, Live
<1>8. Between => Between'
  BY <1>5 DEF Between
<1>9. Doomed(parsed) => Doomed(parsed')
  OBVIOUS
<1>10. FileFits'
  BY <1>1, <1>6, <1>7, <1>8, <1>9 DEF FileFits
<1> QED
  BY <1>3, <1>4, <1>10 DEF LogInv, LogTyped, FileFits

\* Every message but the header joins what a session that is going on holds.
LEMMA MessageWriter ==
  ASSUME LogInv, NEW s \in Sessions, logPhase[s] \in {"open", "saved", "failed"},
         NEW message, NEW to,
         \/ message \in {<<"entry">>, <<"group", "entry">>} /\ to \in {"saved", "failed"}
         \/ message = <<"done">> /\ to = "done"
  PROVE  Writer(s, buffer[s] \o message, to)
<1> DEFINE b == buffer[s]
           u == b \o message
<1>1. /\ b \in Seq(LineKinds) /\ Live(s) /\ "done" \notin wrote[s]
      /\ \A i \in 1..Len(b) : b[i] # "done"
      /\ wrote[s] = {} => Rest(b, 0)
  BY DEF LogInv, FileFits, LogTyped, SessionFits, Live
<1>2. message \in {<<"entry">>, <<"group", "entry">>, <<"done">>}
  OBVIOUS
<1>3. /\ message \in Seq(LineKinds) /\ Len(message) \in 1..2
      /\ message # <<"done">> => \A i \in 1..Len(message) : message[i] # "done"
  <2>1. CASE message = <<"entry">>
    BY <2>1 DEF LineKinds
  <2>2. CASE message = <<"group", "entry">>
    BY <2>2 DEF LineKinds
  <2>3. CASE message = <<"done">>
    BY <2>3 DEF LineKinds
  <2> QED
    BY <1>2, <2>1, <2>2, <2>3
<1> HIDE DEF b
<1>4. /\ u \in Seq(LineKinds) /\ u # <<>> /\ Len(u) = Len(b) + Len(message) /\ Len(b) \in Nat
      /\ b # <<>> => u[1] = b[1]
      /\ \A i \in 1..Len(b) : u[i] = b[i]
      /\ \A i \in 1..Len(u) : i > Len(b) => u[i] = message[i - Len(b)]
  <2>1. u \in Seq(LineKinds) /\ u # <<>> /\ Len(u) = Len(b) + Len(message) /\ Len(b) \in Nat
    <3>1. u \in Seq(LineKinds) /\ Len(u) = Len(b) + Len(message) /\ Len(b) \in Nat
      BY <1>1, <1>3
    <3> HIDE DEF u
    <3>2. Len(<<>>) = 0
      OBVIOUS
    <3>3. Len(message) >= 1 /\ Len(message) \in Nat
      BY <1>3
    <3>4. Len(u) >= 1
      BY <3>1, <3>3
    <3> QED
      BY <3>1, <3>2, <3>4
  <2>2. \A i \in 1..Len(b) : u[i] = b[i]
    BY <1>1, <1>3
  <2>3. \A i \in 1..Len(u) : i > Len(b) => u[i] = message[i - Len(b)]
    BY <1>1, <1>3
  <2>4. b # <<>> => 1 \in 1..Len(b)
    BY <1>1
  <2> QED
    BY <2>1, <2>2, <2>3, <2>4
<1>5. ASSUME NEW k \in 0..4, Rest(b, k) PROVE Rest(u, k)
  BY <1>1, <1>2, <1>5, RestGrows
<1> HIDE DEF u
<1>6. wrote[s] = {} => Rest(u, 0)
  <2>1. 0 \in 0..4
    OBVIOUS
  <2> QED
    BY <1>1, <1>5, <2>1
<1>7. to \in {"open", "saved", "failed"} => \A i \in 1..Len(u) : u[i] # "done"
  <2> SUFFICES ASSUME to # "done", NEW i \in 1..Len(u) PROVE u[i] # "done"
    OBVIOUS
  <2>1. message # <<"done">>
    <3>1. <<"entry">>[1] # <<"done">>[1] /\ <<"group", "entry">>[1] # <<"done">>[1]
      OBVIOUS
    <3> QED
      BY <3>1
  <2>2. CASE i <= Len(b)
    <3>1. i \in 1..Len(b)
      BY <1>4, <2>2
    <3> QED
      BY <1>1, <1>4, <3>1
  <2>3. CASE ~(i <= Len(b))
    <3>1. i - Len(b) \in 1..Len(message)
      BY <1>3, <1>4, <2>3
    <3> QED
      BY <1>3, <1>4, <2>1, <2>3, <3>1
  <2> QED
    BY <2>2, <2>3
<1>8. to \in {"open", "saved", "failed", "done", "closed"}
  OBVIOUS
<1>9. Writer(s, u, to)
  BY <1>1, <1>4, <1>5, <1>6, <1>7, <1>8 DEF Writer, b
<1> QED
  BY <1>9 DEF u, b

LEMMA HeaderWriter ==
  ASSUME LogInv, NEW s \in Sessions, logPhase[s] = "new"
  PROVE  buffer[s] \o Log!Header = Log!Header /\ Writer(s, Log!Header, "open")
<1>1. buffer[s] = <<>> /\ wrote[s] = {} /\ ~Live(s)
  BY DEF LogInv, FileFits, LogTyped, SessionFits, Live
<1>2. /\ Log!Header \in Seq(LineKinds) /\ Len(Log!Header) = 4 /\ Log!Header # <<>>
      /\ \A i \in 1..4 : Log!Header[i] \in {"---", "url", "title"}
  BY HeaderIs
<1>3. <<>> \o Log!Header = Log!Header
  BY <1>2
<1>4. Rest(Log!Header, 0)
  BY <1>2 DEF Rest
<1>5. \A i \in 1..Len(Log!Header) : Log!Header[i] # "done"
  BY <1>2
<1> QED
  BY <1>1, <1>2, <1>3, <1>4, <1>5 DEF Writer

LEMMA LogStutters == LogInv /\ UNCHANGED logVars => LogInv'
<1> SUFFICES ASSUME LogInv, UNCHANGED logVars PROVE LogInv'
  OBVIOUS
<1>1. UNCHANGED <<parsed, tail, buffer, cut, torn, logPhase, wrote>>
  BY DEF logVars
<1>2. LogTyped' /\ (\A s \in Sessions : SessionFits(s)')
  BY <1>1 DEF LogInv, FileFits, LogTyped, SessionFits, Live
<1>3. FileFits'
  <2>1. \A s : Quiet(s) => Quiet(s)'
    BY <1>1 DEF Quiet, Live
  <2>2. Between => Between'
    BY <1>1, <2>1 DEF Between
  <2>3. \A c, k : Within(c, k) => Within(c, k)'
    BY <1>1, <2>1 DEF Within, Live
  <2>4. \A c : Crossed(c) => Crossed(c)'
    BY <1>1 DEF Crossed, Live
  <2>5. Doomed(parsed) => Doomed(parsed')
    BY <1>1
  <2> QED
    BY <2>2, <2>3, <2>4, <2>5 DEF LogInv, LogTyped, FileFits
<1> QED
  BY <1>2, <1>3 DEF LogInv, LogTyped, FileFits

LEMMA LogKept ==
  ASSUME LogInv, Log!LogNext
  PROVE  LogInv'
<1>1. ASSUME NEW s \in Sessions, Log!ChapterHeader(s) PROVE LogInv'
  <2>1. logPhase[s] = "new" /\ logPhase' = [logPhase EXCEPT ![s] = "open"]
        /\ Log!Flush(s, buffer[s] \o Log!Header)
    BY <1>1 DEF Log!ChapterHeader, Log!Writes
  <2>2. buffer[s] \o Log!Header = Log!Header /\ Writer(s, Log!Header, "open")
    BY <2>1, HeaderWriter
  <2> QED
    BY <2>1, <2>2, FlushKept
<1>2. ASSUME NEW s \in Sessions, Log!ChapterSaves(s) \/ Log!ChapterErrorGroup(s) \/ Log!ChapterDone(s)
      PROVE  LogInv'
  <2>1. PICK message, to :
          /\ \/ message \in {<<"entry">>, <<"group", "entry">>} /\ to \in {"saved", "failed"}
             \/ message = <<"done">> /\ to = "done"
          /\ logPhase[s] \in {"open", "saved", "failed"}
          /\ logPhase' = [logPhase EXCEPT ![s] = to]
          /\ Log!Flush(s, buffer[s] \o message)
    BY <1>2 DEF Log!ChapterSaves, Log!ChapterErrorGroup, Log!ChapterDone, Log!Writes
  <2>2. Writer(s, buffer[s] \o message, to)
    BY <2>1, MessageWriter
  <2> QED
    BY <2>1, <2>2, FlushKept
<1>3. ASSUME NEW s \in Sessions, Log!CloseChapter(s) PROVE LogInv'
  <2>1. Live(s) /\ logPhase' = [logPhase EXCEPT ![s] = "closed"]
    BY <1>3 DEF Log!CloseChapter, Live
  <2>2. CASE buffer[s] = <<>> /\ UNCHANGED <<parsed, tail, buffer, cut, torn, wrote>>
    <3>1. buffer' = [buffer EXCEPT ![s] = buffer[s]]
      BY <2>2 DEF LogInv, FileFits, LogTyped
    <3> QED
      BY <2>1, <2>2, <3>1, EndKept
  <2>3. CASE buffer[s] # <<>> /\ Log!Flush(s, buffer[s])
    <3>1. Writer(s, buffer[s], "closed")
      BY <2>1, <2>3 DEF Writer, LogInv, FileFits, LogTyped, SessionFits
    <3> QED
      BY <2>1, <2>3, <3>1, FlushKept
  <2> QED
    BY <1>3, <2>2, <2>3 DEF Log!CloseChapter
<1>4. ASSUME NEW s \in Sessions, Log!Crash(s) PROVE LogInv'
  <2>1. /\ Live(s) /\ logPhase' = [logPhase EXCEPT ![s] = "dead"]
        /\ buffer' = [buffer EXCEPT ![s] = <<>>] /\ UNCHANGED <<parsed, tail, cut, torn, wrote>>
    BY <1>4 DEF Log!Crash, Live
  <2> QED
    BY <2>1, EndKept
<1>5. ASSUME Log!LogDone PROVE LogInv'
  <2>1. UNCHANGED logVars
    BY <1>5 DEF Log!LogDone, Log!logVars, logVars
  <2> QED
    BY <2>1, LogStutters
<1> QED
  BY <1>1, <1>2, <1>3, <1>4, <1>5 DEF Log!LogNext

LEMMA AppendsSome ==
  ASSUME NEW X, NEW s \in Seq(X), NEW z \in X
  PROVE  Append(s, z) # <<>>
<1>1. Len(s) = Len(Append(s, z)) - 1 /\ Len(s) \in Nat
  BY AppendGives
<1>2. Len(<<>>) = 0
  OBVIOUS
<1> QED
  BY <1>1, <1>2

\* A file that ends in the middle of a session does not pass.
LEMMA MiddleFails ==
  ASSUME NEW p \in Parser, NEW k \in 0..3, p.header = HeaderUpTo(k), ~p.session,
         NEW kind \in {Log!Header[k + 1], "junk"}, NEW q, q = Log!Line(p, kind)
  PROVE  q.flagged \/ q.session \/ q.header # <<>>
<1>1. kind \in LineKinds /\ p.header \in Seq(LineKinds) /\ p.session = FALSE
  <2>1. Log!Header[k + 1] \in {"---", "url", "title"}
    BY HeaderIs
  <2> QED
    BY <2>1 DEF LineKinds, Parser
<1>2. CASE k = 0
  <2>1. p.header = <<>> /\ kind \in {"---", "junk"}
    BY <1>2, HeaderSteps, HeaderIs
  <2>2. CASE kind = "---"
    <3>1. Fields(q, <<"---">>, p.session, p.errors, p.flagged)
      BY <1>1, <2>1, <2>2, LineReads
    <3>2. <<"---">> # <<>>
      OBVIOUS
    <3> QED
      BY <3>1, <3>2 DEF Fields
  <2>3. CASE kind = "junk"
    <3>1. Fields(q, <<>>, p.session, p.errors, TRUE)
      BY <1>1, <2>1, <2>3, LineReads
    <3> QED
      BY <3>1 DEF Fields
  <2> QED
    BY <2>1, <2>2, <2>3
<1>3. CASE k # 0
  <2>1. p.header # <<>>
    BY <1>3, HeaderSteps
  <2>2. CASE kind # "---"
    <3>1. Fields(q, Append(p.header, kind), p.session, p.errors, p.flagged)
      BY <1>1, <2>1, <2>2, LineReads
    <3>2. Append(p.header, kind) # <<>>
      BY <1>1, AppendsSome
    <3> QED
      BY <3>1, <3>2 DEF Fields
  <2>3. CASE kind = "---"
    <3>1. k = 3
      BY <1>3, <2>3, HeaderIs
    <3>2. Tail(p.header) = <<"url", "title">>
      BY <3>1, HeaderSteps
    <3>3. Fields(q, <<>>, TRUE, p.errors, p.flagged \/ p.session)
      BY <1>1, <2>1, <2>3, <3>2, LineReads
    <3> QED
      BY <3>3 DEF Fields
  <2> QED
    BY <2>2, <2>3
<1> QED
  BY <1>2, <1>3

LEMMA PassedIsDone == LogInv => PassedMeansDone
<1> DEFINE q == IF tail = NoLine THEN parsed ELSE Log!Line(parsed, tail)
<1> SUFFICES ASSUME LogInv, ~q.flagged, ~q.session, q.header = <<>>, ~q.errors,
                    NEW s \in Sessions, wrote[s] # {}
             PROVE  "done" \in wrote[s] /\ "group" \notin wrote[s]
  BY DEF PassedMeansDone, Log!PassedMeansDone, Log!Verdict, NoLine
<1>1. parsed \in Parser /\ tail \in LineKinds \cup {NoLine}
  BY DEF LogInv, FileFits, LogTyped
<1>2. ~Doomed(parsed)
  <2>1. SUFFICES ASSUME Doomed(parsed) PROVE FALSE
    OBVIOUS
  <2>2. Doomed(q)
    BY <1>1, <2>1, DoomStays
  <2> HIDE DEF q
  <2> QED
    BY <2>2, DoomedIs
<1>3. ASSUME tail = NoLine PROVE q = parsed
  BY <1>3
<1>4. ASSUME tail # NoLine PROVE q = Log!Line(parsed, tail)
  BY <1>4
<1> HIDE DEF q
<1>5. CASE Between
  BY <1>3, <1>5 DEF Between, Quiet
<1>6. ASSUME NEW c \in Sessions, NEW k \in 0..4, Within(c, k)
      PROVE  "done" \in wrote[s] /\ "group" \notin wrote[s]
  <2>1. parsed.header = HeaderUpTo(k) /\ parsed.session = (k = 4)
    BY <1>6 DEF Within
  <2>2. CASE tail = NoLine /\ k > 0
    <3>1. q = parsed
      BY <1>3, <2>2
    <3>2. CASE k = 4
      BY <2>1, <3>1, <3>2
    <3>3. CASE k # 4
      BY <2>1, <2>2, <3>1, <3>3, HeaderSteps
    <3> QED
      BY <3>2, <3>3
  <2>3. CASE /\ tail \in IF k < 4 THEN {Log!Header[k + 1], "junk"} ELSE {"entry", "group", "done", "junk"}
             /\ tail = "done" => "done" \in wrote[c] /\ ("group" \in wrote[c] => parsed.errors)
    <3>1. tail # NoLine
      <4>1. k < 4 => Log!Header[k + 1] \in {"---", "url", "title"}
        BY HeaderIs
      <4> QED
        BY <2>3, <4>1 DEF NoLine
    <3>2. q = Log!Line(parsed, tail)
      BY <1>4, <3>1
    <3>3. CASE k < 4
      <4>1. k \in 0..3 /\ k # 4
        BY <3>3
      <4>3. ~parsed.session
        BY <2>1, <4>1
      <4>2. tail \in {Log!Header[k + 1], "junk"}
        BY <2>3, <3>3
      <4> QED
        BY <1>1, <2>1, <3>2, <4>1, <4>2, <4>3, MiddleFails
    <3>4. CASE k = 4
      <4>1. parsed.header = <<>> /\ parsed.session = TRUE /\ tail \in LineKinds
        BY <1>1, <2>1, <3>1, <3>4, HeaderSteps
      <4>2. tail \in {"entry", "group", "done", "junk"}
        BY <2>3, <3>4
      <4>3. tail = "done" /\ q.errors = parsed.errors
        <5>1. tail = "entry" => Fields(q, <<>>, parsed.session, parsed.errors, parsed.flagged \/ ~parsed.session)
          BY <1>1, <3>2, <4>1, LineReads
        <5>2. tail = "group" => Fields(q, <<>>, parsed.session, TRUE, parsed.flagged)
          BY <1>1, <3>2, <4>1, LineReads
        <5>3. tail = "junk" => Fields(q, <<>>, parsed.session, parsed.errors, TRUE)
          BY <1>1, <3>2, <4>1, LineReads
        <5>4. tail = "done" => Fields(q, <<>>, FALSE, parsed.errors, parsed.flagged \/ ~parsed.session)
          BY <1>1, <3>2, <4>1, LineReads
        <5> QED
          BY <4>1, <4>2, <5>1, <5>2, <5>3, <5>4 DEF Fields
      <4>4. ~parsed.errors
        BY <4>3
      <4>5. CASE s = c
        BY <2>3, <4>3, <4>4, <4>5
      <4>6. CASE s # c
        BY <1>6, <4>4, <4>6 DEF Within, Quiet
      <4> QED
        BY <4>5, <4>6
    <3> QED
      BY <3>3, <3>4
  <2> QED
    BY <1>6, <2>2, <2>3 DEF Within
<1>7. ASSUME NEW c \in Sessions, Crossed(c) PROVE FALSE
  <2>1. parsed.header = <<>> /\ tail \in {"---", "junk"}
    BY <1>7 DEF Crossed
  <2>2. tail # NoLine /\ tail \in LineKinds
    BY <2>1 DEF NoLine, LineKinds
  <2>3. q = Log!Line(parsed, tail)
    BY <1>4, <2>2
  <2>4. tail = "---" => Fields(q, <<"---">>, parsed.session, parsed.errors, parsed.flagged)
    BY <1>1, <2>1, <2>2, <2>3, LineReads
  <2>5. tail = "junk" => Fields(q, <<>>, parsed.session, parsed.errors, TRUE)
    BY <1>1, <2>1, <2>2, <2>3, LineReads
  <2>6. <<"---">> # <<>>
    OBVIOUS
  <2> QED
    BY <2>1, <2>4, <2>5, <2>6 DEF Fields
<1> QED
  BY <1>2, <1>5, <1>6, <1>7 DEF LogInv, FileFits, LogTyped

\* Whatever sessions append to one log, in whatever order, and wherever a write
\* is cut or a process dies: "verify logs" calls it passed only if every session
\* that has left a trace in it said "done" and reported no failure (ChapterLog,
\* ChapterFileSink and _LogParser).
THEOREM LogsPassedAreDone == StoresSpec => []PassedMeansDone
<1>1. StoresInit => LogInv
  <2> SUFFICES ASSUME Log!LogInit PROVE LogInv
    BY DEF StoresInit
  <2>1. /\ parsed = [header |-> <<>>, session |-> FALSE, recognized |-> FALSE, errors |-> FALSE, flagged |-> FALSE]
        /\ tail = NoLine /\ cut = {} /\ torn = FALSE
        /\ buffer = [s \in Sessions |-> <<>>]
        /\ logPhase = [s \in Sessions |-> "new"] /\ wrote = [s \in Sessions |-> {}]
    BY DEF Log!LogInit, NoLine
  <2>2. parsed \in Parser /\ parsed.header = <<>> /\ ~parsed.session
    <3>1. Fields(parsed, <<>>, FALSE, FALSE, FALSE) /\ parsed \in Parser
      <4>1. <<>> \in Seq(LineKinds)
        OBVIOUS
      <4>2. Made(parsed, <<>>, FALSE, FALSE, FALSE, FALSE)
        BY <2>1, <4>1 DEF Made
      <4> QED
        BY <4>2, ParserMade
    <3> QED
      BY <3>1 DEF Fields
  <2>3. buffer \in [Sessions -> Seq(LineKinds)]
    BY <2>1
  <2>4. \A s \in Sessions : SessionFits(s) /\ Quiet(s)
    BY <2>1 DEF SessionFits, Live, Quiet
  <2> QED
    BY <2>1, <2>2, <2>3, <2>4 DEF LogInv, FileFits, LogTyped, Between
<1>2. [StoresNext]_storeVars => Log!LogNext \/ UNCHANGED logVars
  BY DEF StoresNext, Moves, storeVars
<1>3. LogInv /\ UNCHANGED logVars => LogInv'
  BY LogStutters
<1>4. LogInv /\ [StoresNext]_storeVars => LogInv'
  BY <1>2, <1>3, LogKept
<1> QED
  BY <1>1, <1>4, PassedIsDone, PTL DEF StoresSpec
=============================================================================
