--------------------------- MODULE PluginInstall ---------------------------
(***************************************************************************)
(* Installing, trusting, revoking and removing one plugin                  *)
(* (plugins/management.py): its directory below the plugin root and its    *)
(* entry in the trust catalog (plugins/plugin_catalog.py), changed by      *)
(* several processes under the catalog lock (see InterProcessLock, whose   *)
(* lock a dead process gives up).                                          *)
(*                                                                         *)
(* A directory is the source it was copied from: a version and a content.  *)
(* An installation copies its source to a temporary directory of its own,  *)
(* to which it also moves what it replaces; a removal moves the plugin to  *)
(* a temporary directory.  An action is one rename or one replacement of   *)
(* catalog.json: it may raise an Exception, be interrupted (KeyboardInter- *)
(* rupt, which is none), or its process may die.                           *)
(* The source has the installed plugin's kind and publisher, and is        *)
(* verified in strict mode.                                                *)
(***************************************************************************)
CONSTANTS Procs, None,
          Sources   \* [version, content]: what can be installed

Commands == {"install", "uninstall", "trust", "revoke"}

ASSUME PluginAssumption ==
  /\ None \notin Procs /\ None \notin Commands /\ None \notin Sources
  /\ None \notin [source : Sources, revoked : BOOLEAN]

Dirs == Sources \cup {None}
Entries == [source : Sources, revoked : BOOLEAN] \cup {None}
Undoing == {"undo_target", "undo_backup"}
Steps == {"idle", "stage", "acquire", "backup", "place", "remove", "list", "cleanup"} \cup Undoing
Results == {"none", "ok", "failed", "broken"}

VARIABLES
  target,    \* the installed plugin's directory
  catalog,   \* its entry in catalog.json
  holder,    \* of the catalog lock
  step,      \* step[p]: where p's command is
  command,   \* command[p]: what p runs, given
  given,     \* given[p]: this source
  staged,    \* staged[p]: what p's temporary directory holds to be installed
  moved,     \* moved[p]: what it holds of what was installed
  result,    \* result[p]: how p's command ends
  before,    \* history: target and catalog when holder got the lock
  owned,     \* history: what was installed last and neither removed nor destroyed
  litter     \* history: the same, once in a temporary directory nobody cleans

disk == <<target, catalog>>
job == <<command, given>>
held == <<holder, before>>
vars == <<target, catalog, holder, step, command, given, staged, moved, result, before, owned, litter>>

Init ==
  /\ target = None
  /\ catalog = None
  /\ holder = None
  /\ step = [p \in Procs |-> "idle"]
  /\ command = [p \in Procs |-> None]
  /\ given = [p \in Procs |-> None]
  /\ staged = [p \in Procs |-> None]
  /\ moved = [p \in Procs |-> None]
  /\ result = [p \in Procs |-> "none"]
  /\ before = <<None, None>>
  /\ owned = None
  /\ litter = None

Goto(p, s) == step' = [step EXCEPT ![p] = s]
Move(p, s, t) == step[p] = s /\ Goto(p, t)

Release(p) ==
  /\ holder' = IF holder = p THEN None ELSE holder
  /\ before' = IF holder = p THEN <<None, None>> ELSE before

\* The command's outcome is known: the lock is released, only cleaning up is left.
Ends(p, how) ==
  /\ result' = [result EXCEPT ![p] = how]
  /\ Release(p)
  /\ Goto(p, "cleanup")

Forget(p) ==
  /\ Goto(p, "idle")
  /\ staged' = [staged EXCEPT ![p] = None]
  /\ moved' = [moved EXCEPT ![p] = None]
  /\ command' = [command EXCEPT ![p] = None]
  /\ given' = [given EXCEPT ![p] = None]
  /\ result' = [result EXCEPT ![p] = "none"]

\* p's temporary directory stays, with what p moved there.
Abandon(p) == litter' = IF moved[p] = owned THEN owned ELSE litter

----------------------------------------------------------------------------

Begin(p) ==
  /\ step[p] = "idle"
  /\ \E c \in Commands, s \in Sources :
       /\ command' = [command EXCEPT ![p] = c]
       /\ given' = [given EXCEPT ![p] = IF c \in {"install", "trust"} THEN s ELSE None]
       /\ Goto(p, IF c = "install" THEN "stage" ELSE "acquire")
  /\ UNCHANGED <<disk, holder, staged, moved, result, before, owned, litter>>

\* The source is copied; the copy is verified and its class is tried.
Stage(p) ==
  /\ Move(p, "stage", "acquire")
  /\ staged' = [staged EXCEPT ![p] = given[p]]
  /\ UNCHANGED <<disk, holder, job, moved, result, before, owned, litter>>

\* _validated_catalog_entry: the listed version with another content.
Contradicts(s) == catalog # None /\ catalog.source.version = s.version /\ catalog.source # s

\* That, or nothing is there to be changed.
Refused(p) ==
  CASE command[p] \in {"install", "trust"} -> Contradicts(given[p])
    [] command[p] = "revoke" -> catalog = None
    [] command[p] = "uninstall" -> target = None /\ catalog = None

FirstChange(p) ==
  CASE command[p] = "install" -> IF target = None THEN "place" ELSE "backup"
    [] command[p] = "uninstall" -> IF target = None THEN "list" ELSE "remove"
    [] OTHER -> "list"

\* Mutant: the catalog is read without its lock.
AcquireUnlocked(p) ==
  /\ step[p] = "acquire"
  /\ IF Refused(p)
       THEN Ends(p, "failed")
       ELSE holder' = p /\ before' = disk /\ Goto(p, FirstChange(p)) /\ UNCHANGED result
  /\ UNCHANGED <<disk, job, staged, moved, owned, litter>>

\* All a command reads it reads under the lock.
Acquire(p) ==
  /\ step[p] = "acquire"
  /\ holder = None
  /\ IF Refused(p)
       THEN Ends(p, "failed")
       ELSE holder' = p /\ before' = disk /\ Goto(p, FirstChange(p)) /\ UNCHANGED result
  /\ UNCHANGED <<disk, job, staged, moved, owned, litter>>

MoveAway(p) ==
  /\ moved' = [moved EXCEPT ![p] = target]
  /\ target' = None
  /\ UNCHANGED <<catalog, holder, job, staged, result, before, owned, litter>>

Backup(p) == Move(p, "backup", "place") /\ MoveAway(p)
Remove(p) == Move(p, "remove", "list") /\ MoveAway(p)

\* Mutant: the replaced plugin is deleted as soon as the new one is in place.
PlaceDropsBackup(p) ==
  /\ Move(p, "place", "list")
  /\ target' = staged[p]
  /\ staged' = [staged EXCEPT ![p] = None]
  /\ moved' = [moved EXCEPT ![p] = None]
  /\ UNCHANGED <<catalog, holder, job, result, before, owned, litter>>

Place(p) ==
  /\ Move(p, "place", "list")
  /\ target' = staged[p]
  /\ staged' = [staged EXCEPT ![p] = None]
  /\ UNCHANGED <<catalog, holder, job, moved, result, before, owned, litter>>

\* catalog.json is replaced: the command is done.
List(p) ==
  /\ step[p] = "list"
  /\ catalog' = CASE command[p] \in {"install", "trust"} -> [source |-> given[p], revoked |-> FALSE]
                  [] command[p] = "revoke" -> [catalog EXCEPT !.revoked = TRUE]
                  [] command[p] = "uninstall" -> None
  /\ owned' = CASE command[p] = "install" -> given[p]
                [] command[p] = "uninstall" -> None
                [] OTHER -> owned
  /\ Ends(p, "ok")
  /\ litter' = IF owned' = owned THEN litter ELSE None
  /\ UNCHANGED <<target, job, staged, moved>>

----------------------------------------------------------------------------

\* A removal without an entry writes nothing to catalog.json.
CanRaise(p) ==
  /\ step[p] \notin {"idle", "cleanup"} \cup Undoing
  /\ ~(step[p] = "list" /\ command[p] = "uninstall" /\ catalog = None)

\* Inside the try blocks under the lock.
Guarded(p) == holder = p /\ command[p] \in {"install", "uninstall"}

\* An Exception: the moves that were made under the lock are taken back.
Fails(p) ==
  /\ CanRaise(p)
  /\ IF Guarded(p)
       THEN Goto(p, IF command[p] = "install" THEN "undo_target" ELSE "undo_backup") /\ UNCHANGED <<result, held>>
       ELSE Ends(p, "failed")
  /\ UNCHANGED <<disk, job, staged, moved, owned, litter>>

\* Mutant: the stage is not looked at.
UndoTargetBlindly(p) ==
  /\ step[p] = "undo_target"
  /\ staged' = [staged EXCEPT ![p] = target]
  /\ target' = None
  /\ Goto(p, "undo_backup")
  /\ UNCHANGED <<catalog, holder, job, moved, result, before, owned, litter>>

\* What is at the target goes back to the stage.  If nothing has left the
\* stage yet, the rename fails on it and the old plugin stays where it is.
UndoTarget(p) ==
  /\ step[p] = "undo_target"
  /\ \/ /\ target # None /\ staged[p] # None
        /\ Ends(p, "failed")
        /\ UNCHANGED <<target, staged>>
     \/ /\ target = None \/ staged[p] = None
        /\ staged' = IF target = None THEN staged ELSE [staged EXCEPT ![p] = target]
        /\ target' = None
        /\ Goto(p, "undo_backup")
        /\ UNCHANGED <<result, held>>
  /\ UNCHANGED <<catalog, job, moved, owned, litter>>

UndoBackup(p) ==
  /\ step[p] = "undo_backup"
  /\ target' = IF moved[p] # None THEN moved[p] ELSE target
  /\ moved' = [moved EXCEPT ![p] = None]
  /\ Ends(p, "failed")
  /\ UNCHANGED <<catalog, job, staged, owned, litter>>

\* The last copy of what was installed is in p's temporary directory.
HasLast(p) == moved[p] = owned /\ owned \notin {target, litter}

\* No move is taken back: an interrupt, which except Exception does not see, or
\* an error while moves are taken back.  An installation deletes its temporary
\* directory nevertheless (finally), a removal leaves it.
BreaksOff(p) ==
  /\ step[p] \notin {"idle", "cleanup"}
  /\ Ends(p, "broken")
  /\ \/ /\ command[p] = "install"
        /\ owned' = IF HasLast(p) THEN None ELSE owned
        /\ UNCHANGED litter
     \/ command[p] # "install" /\ Abandon(p) /\ UNCHANGED owned
  /\ UNCHANGED <<disk, job, staged, moved>>

\* install_plugin's finally, uninstall_plugin's rmtree.
Cleanup(p) ==
  /\ step[p] = "cleanup"
  /\ Forget(p)
  /\ UNCHANGED <<disk, held, owned, litter>>

\* A dead process leaves its temporary directory, unless it was deleting it.
Dies(p) ==
  /\ step[p] # "idle"
  /\ IF step[p] = "cleanup" THEN UNCHANGED litter ELSE Abandon(p)
  /\ Release(p)
  /\ Forget(p)
  /\ UNCHANGED <<disk, owned>>

Next == \E p \in Procs :
  \/ Begin(p) \/ Stage(p) \/ Acquire(p) \/ Backup(p) \/ Place(p) \/ Remove(p) \/ List(p)
  \/ Fails(p) \/ UndoTarget(p) \/ UndoBackup(p) \/ BreaksOff(p) \/ Cleanup(p) \/ Dies(p)

Spec == Init /\ [][Next]_vars

----------------------------------------------------------------------------

\* Every variable has its type.
TypeOK ==
  /\ target \in Dirs /\ catalog \in Entries
  /\ holder \in Procs \cup {None}
  /\ step \in [Procs -> Steps]
  /\ command \in [Procs -> Commands \cup {None}]
  /\ given \in [Procs -> Dirs]
  /\ staged \in [Procs -> Dirs] /\ moved \in [Procs -> Dirs]
  /\ \A p \in Procs : moved[p] # None => command[p] \in {"install", "uninstall"}
  /\ result \in [Procs -> Results]
  /\ before \in Dirs \X Entries
  /\ owned \in Dirs /\ litter \in {owned, None}

\* What the holder of the lock has done when it reports an outcome.
Transaction(p) ==
  holder = p /\ result[p] = "none" /\ result'[p] # "none" =>
    /\ result'[p] = "failed" => disk' = before
    /\ result'[p] = "ok" =>
         /\ command[p] = "install" => target' = given[p] /\ catalog' = [source |-> given[p], revoked |-> FALSE]
         /\ command[p] = "uninstall" => disk' = <<None, None>>
         /\ command[p] \in {"trust", "revoke"} => target' = before[1]

\* Unless it breaks off, a command changes directory and catalog together
\* or neither, with others at work and dying (management.py: the commit of an
\* installation or removal and its rollback).
AllOrNothing == [][\A p \in Procs : Transaction(p)]_vars

\* An entry's content changes only with its version, whoever changes it
\* (_validated_catalog_entry decides on the entry that is replaced).
SameVersionSameContent ==
  [][catalog # None /\ catalog' # None /\ catalog.source.version = catalog'.source.version
       => catalog'.source = catalog.source]_catalog

\* What was installed is on disk until it is removed or an installation that
\* breaks off destroys it, if only in the temporary directory of a command that
\* runs or has died (management.py: backup and removed are renamed, not deleted).
InstalledIsKept ==
  owned # None => owned \in {target, litter} \cup {moved[p] : p \in Procs}

\* A plugin that an installation was to replace, but did not, is back in place
\* (docs/v3/reference/plugin-package.md: the directory is restored).
RestoresOnFailure ==
  [][\A p \in Procs : /\ holder = p /\ command[p] = "install" /\ before[1] # None
                     /\ result'[p] \in {"failed", "broken"}
                     => target' = before[1]]_vars

=============================================================================
