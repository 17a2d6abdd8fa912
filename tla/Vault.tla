------------------------------- MODULE Vault -------------------------------
(***************************************************************************)
(* The credential vault of one data root (credentials/vault.py): it is     *)
(* initialized, edited through the profile stores, restored from a backup  *)
(* and re-keyed by several processes, any of which may die or fail between *)
(* two durable steps.                                                      *)
(*                                                                         *)
(* A durable step is one atomic replacement of a file (vault.json,         *)
(* rotation.enc or a profile's encrypted file) or one call of the          *)
(* operating system's key store; each is an action.  All operations hold   *)
(* the vault lock (see InterProcessLock) from their first read to their    *)
(* last write; the lock of the profile's file is always taken inside it    *)
(* and left out.  A sealed file can be opened with the key that sealed it  *)
(* and no other.                                                           *)
(***************************************************************************)
EXTENDS Integers, FiniteSets

CONSTANTS Procs,
          Files,     \* pairs of a profile and a purpose
          Entries,   \* names of secrets or cookies inside a file
          Keys,      \* identities a master key may get, each used once
          BackedUp,    \* the backup: file -> its entries
          Commands,  \* what users run, a subset of AllCommands
          None

AllCommands == {"init", "edit", "rotate", "resume", "restore"}
States == {"initializing", "restoring", "ready"}
Phases == {"prepared", "rewrapping", "committed"}

\* What vault.json and rotation.enc may hold.
Metas == [state : States, key : Keys, marker : BOOLEAN]
Journals == [phase : Phases, old : Keys, new : Keys, files : SUBSET Files]

VaultAssumption ==
  /\ None \notin Procs \cup Keys \cup Metas \cup Journals
  /\ DOMAIN BackedUp \subseteq Files
  /\ \A f \in DOMAIN BackedUp : BackedUp[f] \subseteq Entries
  /\ Commands \subseteq AllCommands

Steps == {"idle", "load", "ensure", "put", "rotate", "newkey", "mark", "rewrap", "switch",
          "retire", "unlink", "stage", "unpack"}
\* Outcomes of a command; "damaged" stands for vault_corrupt, vault_key_missing
\* and vault_scope.
Outcomes == {"none", "ok", "missing", "pending", "rotation", "no_rotation", "destination",
             "damaged", "broken_off"}

VARIABLES
  meta,      \* vault.json: None or state, key_id and whether it has a marker
  journal,   \* rotation.enc: None or phase, old and new key, files
  files,     \* the encrypted files that exist: key_id and entries
  keyring,   \* master keys in the key store
  used,      \* history: key identities given out
  stored,    \* history: the entries each file must hold
  littered,  \* the data root holds more than security/vault.lock
  holder,    \* the process holding the vault lock
  step,      \* step[p]: where p's command is
  command,   \* command[p]: what p runs, or None
  edit,      \* edit[p]: file, entry and whether it is added or deleted, or None
  loaded,    \* loaded[p]: the entries p has read
  todo,      \* todo[p]: files p has still to rewrap or to restore
  outcome    \* how the last command ended; commands exclude each other

disk == <<meta, journal, files, stored>>
local == <<command, edit, loaded>>
mine == <<holder, step, command, edit, loaded, outcome>>
vars == <<meta, journal, files, keyring, used, stored, littered, holder, step, command, edit,
          loaded, todo, outcome>>

Edits == [file : Files, entry : Entries, add : BOOLEAN]

Init ==
  /\ meta = None
  /\ journal = None
  /\ files = [f \in {} |-> None]
  /\ keyring = {}
  /\ used = {}
  /\ stored = [f \in Files |-> {}]
  /\ littered = FALSE
  /\ holder = None
  /\ step = [p \in Procs |-> "idle"]
  /\ command = [p \in Procs |-> None]
  /\ edit = [p \in Procs |-> None]
  /\ loaded = [p \in Procs |-> {}]
  /\ todo = [p \in Procs |-> {}]
  /\ outcome = "none"

----------------------------------------------------------------------------
(* Reading the vault *)

Managed == DOMAIN files

\* The journal can be opened and fits vault.json.
JournalReadable ==
  /\ (IF journal.phase = "committed" THEN journal.new ELSE journal.old) \in keyring
  /\ meta.key \in {journal.old, journal.new}

\* _ready: what keeps the vault from being used, or "ready".
Ready ==
  IF meta = None THEN "missing"
  ELSE IF meta.state = "initializing" THEN "pending"
  ELSE IF meta.key \notin keyring \/ ~meta.marker THEN "damaged"
  ELSE IF meta.state # "ready" THEN "pending"
  ELSE IF journal = None THEN "ready"
  ELSE IF ~JournalReadable THEN "damaged"
  ELSE IF journal.phase # "committed" \/ meta.key # journal.new THEN "rotation"
  ELSE "ready"

\* open_envelope with the current key.
Opens(f) == files[f].key = meta.key

\* The command of p ends, the vault lock is released.
Ends(p, how) ==
  /\ step' = [step EXCEPT ![p] = "idle"]
  /\ command' = [command EXCEPT ![p] = None]
  /\ edit' = [edit EXCEPT ![p] = None]
  /\ loaded' = [loaded EXCEPT ![p] = {}]
  /\ todo' = [todo EXCEPT ![p] = {}]
  /\ outcome' = how
  /\ holder' = None

\* It goes on at s with the files in S to do.
GoesOn(p, s, S) ==
  /\ step' = [step EXCEPT ![p] = s]
  /\ todo' = [todo EXCEPT ![p] = S]
  /\ UNCHANGED <<outcome, holder, local>>

Goto(p, s) == GoesOn(p, s, todo[p])
Stay(p) == Goto(p, step[p])

\* uuid4: no identity is given out twice; which fresh one it is does not matter.
NewKeyId(k) ==
  /\ k \in Keys \ used
  /\ k = CHOOSE fresh \in Keys \ used : TRUE
  /\ used' = used \cup {k}

----------------------------------------------------------------------------
(* Commands *)

FirstStep(c) ==
  CASE c = "init" -> "ensure" [] c = "edit" -> "load" [] c = "restore" -> "stage"
    [] OTHER -> "rotate"

\* Mutant: the lock is not taken.
BeginUnlocked(p) ==
  /\ step[p] = "idle"
  /\ holder' = p
  /\ \E c \in Commands :
       /\ command' = [command EXCEPT ![p] = c]
       /\ \E e \in IF c = "edit" THEN Edits ELSE {None} : edit' = [edit EXCEPT ![p] = e]
       /\ step' = [step EXCEPT ![p] = FirstStep(c)]
       /\ littered' = (littered \/ c = "edit")
  /\ outcome' = "none"
  /\ UNCHANGED <<disk, keyring, used, loaded, todo>>

\* locked(): an edit also makes the directory of its profile.
Begin(p) ==
  /\ step[p] = "idle"
  /\ holder = None
  /\ holder' = p
  /\ \E c \in Commands :
       /\ command' = [command EXCEPT ![p] = c]
       /\ \E e \in IF c = "edit" THEN Edits ELSE {None} : edit' = [edit EXCEPT ![p] = e]
       /\ step' = [step EXCEPT ![p] = FirstStep(c)]
       /\ littered' = (littered \/ c = "edit")
  /\ outcome' = "none"
  /\ UNCHANGED <<disk, keyring, used, loaded, todo>>

\* The process dies, or the key store or the file system fails, between two
\* steps: memory and lock are gone, what is durable stays.  A death while the
\* first vault.json is staged leaves its temporary file in the data root.
BreakOff(p) ==
  /\ step[p] # "idle"
  /\ Ends(p, "broken_off")
  /\ littered' \in {littered, littered \/ (meta = None /\ step[p] \in {"ensure", "unpack"})}
  /\ UNCHANGED <<disk, keyring, used>>

----------------------------------------------------------------------------
(* Initialization, on its own or on behalf of the first edit *)

AfterEnsure(p) ==
  IF command[p] = "init" THEN Ends(p, "ok") ELSE Goto(p, "put")

\* The identity of the vault is recorded before there is a key.
EnsureMeta(p) ==
  /\ step[p] = "ensure"
  /\ meta = None
  /\ IF Managed # {} \/ journal # None
       THEN Ends(p, "damaged") /\ UNCHANGED <<meta, used>>
       ELSE /\ \E k \in Keys : NewKeyId(k) /\ meta' = [state |-> "initializing", key |-> k, marker |-> FALSE]
            /\ Goto(p, "ensure")
  /\ UNCHANGED <<journal, files, stored, keyring, littered>>

Initializing(p) == step[p] = "ensure" /\ meta # None /\ meta.state = "initializing"

EnsureKey(p) ==
  /\ Initializing(p)
  /\ meta.key \notin keyring
  /\ IF Managed # {}
       THEN Ends(p, "damaged") /\ UNCHANGED keyring
       ELSE keyring' = keyring \cup {meta.key} /\ Stay(p)
  /\ UNCHANGED <<disk, used, littered>>

EnsurePublished(p) ==
  /\ Initializing(p)
  /\ meta.key \in keyring
  /\ IF Managed # {}
       THEN Ends(p, "damaged") /\ UNCHANGED meta
       ELSE meta' = [meta EXCEPT !.state = "ready", !.marker = TRUE] /\ AfterEnsure(p)
  /\ UNCHANGED <<journal, files, stored, keyring, used, littered>>

EnsureReady(p) ==
  /\ step[p] = "ensure"
  /\ meta # None /\ meta.state # "initializing"
  /\ IF Ready = "ready" THEN AfterEnsure(p) ELSE Ends(p, Ready)
  /\ UNCHANGED <<disk, keyring, used, littered>>

----------------------------------------------------------------------------
(* Edits: a secret or a cookie is set or deleted *)

Applied(e, S) == IF e.add THEN S \cup {e.entry} ELSE S \ {e.entry}

\* read_locked: an absent file is an empty one; deleting what is not there
\* writes nothing.
Load(p) ==
  LET f == edit[p].file
      S == IF f \in Managed THEN files[f].entries ELSE {} IN
  /\ step[p] = "load"
  /\ IF (f \in Managed \/ meta # None) /\ Ready # "ready" THEN Ends(p, Ready)
     ELSE IF f \in Managed /\ ~Opens(f) THEN Ends(p, "damaged")
     ELSE IF ~edit[p].add /\ edit[p].entry \notin S THEN Ends(p, "ok")
     ELSE /\ loaded' = [loaded EXCEPT ![p] = S]
          /\ step' = [step EXCEPT ![p] = "ensure"]
          /\ UNCHANGED <<holder, command, edit, todo, outcome>>
  /\ UNCHANGED <<disk, keyring, used, littered>>

\* write_locked: the previous content is opened again, then replaced.
Put(p) ==
  LET e == edit[p]
      f == e.file IN
  /\ step[p] = "put"
  /\ IF f \in Managed /\ ~Opens(f)
       THEN Ends(p, "damaged") /\ UNCHANGED <<files, stored>>
       ELSE /\ files' = [g \in Managed \cup {f} |->
                  IF g = f THEN [key |-> meta.key, entries |-> Applied(e, loaded[p])] ELSE files[g]]
            /\ stored' = [stored EXCEPT ![f] = Applied(e, @)]
            /\ Ends(p, "ok")
  /\ UNCHANGED <<meta, journal, keyring, used, littered>>

----------------------------------------------------------------------------
(* Rotation of the master key *)

\* rotate_key up to the journal: it is written before there is a new key.
Rotate(p) ==
  LET resume == command[p] = "resume" IN
  /\ step[p] = "rotate"
  /\ \/ /\ \/ meta = None /\ Ends(p, "missing")
           \/ /\ meta # None
              /\ meta.key \notin keyring \/ ~meta.marker
              /\ Ends(p, "damaged")
        /\ UNCHANGED <<journal, used>>
     \/ /\ meta # None /\ meta.key \in keyring /\ meta.marker /\ journal # None
        /\ IF ~resume THEN Ends(p, "rotation")
           ELSE IF ~JournalReadable THEN Ends(p, "damaged")
           ELSE Goto(p, "newkey")
        /\ UNCHANGED <<journal, used>>
     \/ /\ meta # None /\ meta.key \in keyring /\ meta.marker /\ journal = None
        /\ IF meta.state # "ready" THEN Ends(p, "pending") /\ UNCHANGED <<journal, used>>
           ELSE IF resume THEN Ends(p, "no_rotation") /\ UNCHANGED <<journal, used>>
           ELSE IF \E f \in Managed : ~Opens(f) THEN Ends(p, "damaged") /\ UNCHANGED <<journal, used>>
           ELSE /\ \E k \in Keys :
                     /\ NewKeyId(k)
                     /\ journal' = [phase |-> "prepared", old |-> meta.key, new |-> k, files |-> Managed]
                /\ Goto(p, "newkey")
  /\ UNCHANGED <<meta, files, stored, keyring, littered>>

NewKey(p) ==
  /\ step[p] = "newkey"
  /\ IF journal.new \in keyring THEN Goto(p, "mark") /\ UNCHANGED keyring
     ELSE IF journal.phase # "prepared" THEN Ends(p, "damaged") /\ UNCHANGED keyring
     ELSE /\ keyring' = keyring \cup {journal.new}
          /\ Goto(p, "mark")
  /\ UNCHANGED <<disk, used, littered>>

Mark(p) ==
  /\ step[p] = "mark"
  /\ IF journal.phase = "committed" THEN Goto(p, "switch") /\ UNCHANGED journal
     ELSE IF Managed # journal.files THEN Ends(p, "damaged") /\ UNCHANGED journal
     ELSE /\ journal' = [journal EXCEPT !.phase = "rewrapping"]
          /\ GoesOn(p, "rewrap", journal.files)
  /\ UNCHANGED <<meta, files, stored, keyring, used, littered>>

\* Mutant: a resumed rotation refuses what it has already rewrapped.
RewrapOnce(p) ==
  /\ step[p] = "rewrap"
  /\ \E f \in todo[p] :
       IF files[f].key # journal.old \/ files[f].key \notin keyring
         THEN Ends(p, "damaged") /\ UNCHANGED files
         ELSE /\ files' = [files EXCEPT ![f].key = journal.new]
              /\ GoesOn(p, step[p], todo[p] \ {f})
  /\ UNCHANGED <<meta, journal, stored, keyring, used, littered>>

\* A file that a broken off rotation has already rewrapped is left alone.
Rewrap(p) ==
  /\ step[p] = "rewrap"
  /\ \E f \in todo[p] :
       IF files[f].key \notin {journal.old, journal.new} \cap keyring
         THEN Ends(p, "damaged") /\ UNCHANGED files
         ELSE /\ files' = [files EXCEPT ![f].key = journal.new]
              /\ GoesOn(p, step[p], todo[p] \ {f})
  /\ UNCHANGED <<meta, journal, stored, keyring, used, littered>>

Commit(p) ==
  /\ step[p] = "rewrap"
  /\ todo[p] = {}
  /\ journal' = [journal EXCEPT !.phase = "committed"]
  /\ Goto(p, "switch")
  /\ UNCHANGED <<meta, files, stored, keyring, used, littered>>

\* Every file is opened with the new key before vault.json names it.
Switch(p) ==
  /\ step[p] = "switch"
  /\ IF ~(journal.files \subseteq Managed) \/ \E f \in Managed : files[f].key # journal.new
       THEN Ends(p, "damaged") /\ UNCHANGED meta
       ELSE /\ meta' = [meta EXCEPT !.key = journal.new]
            /\ Goto(p, "retire")
  /\ UNCHANGED <<journal, files, stored, keyring, used, littered>>

Retire(p) ==
  /\ step[p] = "retire"
  /\ keyring' = keyring \ {journal.old}
  /\ Goto(p, "unlink")
  /\ UNCHANGED <<disk, used, littered>>

Unlink(p) ==
  /\ step[p] = "unlink"
  /\ journal' = None
  /\ Ends(p, "ok")
  /\ UNCHANGED <<meta, files, stored, keyring, used, littered>>

----------------------------------------------------------------------------
(* Restoring a backup into an empty data root, or going on with it *)

\* restore: an absent vault.json requires an empty root.
Stage(p) ==
  /\ step[p] = "stage"
  /\ IF (meta = None /\ (littered \/ Managed # {} \/ journal # None)) \/ (meta # None /\ meta.state # "restoring")
       THEN Ends(p, "destination")
       ELSE GoesOn(p, "unpack", DOMAIN BackedUp)
  /\ UNCHANGED <<disk, keyring, used, littered>>

UnpackMeta(p) ==
  /\ step[p] = "unpack"
  /\ meta = None
  /\ \E k \in Keys : NewKeyId(k) /\ meta' = [state |-> "restoring", key |-> k, marker |-> FALSE]
  /\ UNCHANGED <<journal, files, stored, keyring, littered, todo, mine>>

UnpackKey(p) ==
  /\ step[p] = "unpack"
  /\ meta # None /\ meta.key \notin keyring
  /\ IF Managed # {} \/ meta.marker
       THEN Ends(p, "damaged") /\ UNCHANGED keyring
       ELSE keyring' = keyring \cup {meta.key} /\ Stay(p)
  /\ UNCHANGED <<disk, used, littered>>

UnpackMarker(p) ==
  /\ step[p] = "unpack"
  /\ meta # None /\ meta.key \in keyring /\ ~meta.marker
  /\ meta' = [meta EXCEPT !.marker = TRUE]
  /\ UNCHANGED <<journal, files, stored, keyring, used, littered, todo, mine>>

Unpacking(p) == step[p] = "unpack" /\ meta # None /\ meta.key \in keyring /\ meta.marker

UnpackFile(p) ==
  /\ Unpacking(p)
  /\ IF ~(Managed \subseteq DOMAIN BackedUp) THEN Ends(p, "damaged") /\ UNCHANGED <<files, stored>>
     ELSE \E f \in todo[p] :
            /\ files' = [g \in Managed \cup {f} |->
                 IF g = f THEN [key |-> meta.key, entries |-> BackedUp[f]] ELSE files[g]]
            /\ stored' = [stored EXCEPT ![f] = BackedUp[f]]
            /\ GoesOn(p, step[p], todo[p] \ {f})
  /\ UNCHANGED <<meta, journal, keyring, used, littered>>

UnpackEnds(p) ==
  /\ Unpacking(p)
  /\ todo[p] = {}
  /\ meta' = [meta EXCEPT !.state = "ready"]
  /\ Ends(p, "ok")
  /\ UNCHANGED <<journal, files, stored, keyring, used, littered>>

----------------------------------------------------------------------------

Step(p) ==
  \/ EnsureMeta(p) \/ EnsureKey(p) \/ EnsurePublished(p) \/ EnsureReady(p)
  \/ Load(p) \/ Put(p)
  \/ Rotate(p) \/ NewKey(p) \/ Mark(p) \/ Rewrap(p) \/ Commit(p)
  \/ Switch(p) \/ Retire(p) \/ Unlink(p)
  \/ Stage(p) \/ UnpackMeta(p) \/ UnpackKey(p) \/ UnpackMarker(p) \/ UnpackFile(p) \/ UnpackEnds(p)

Next == \E p \in Procs : Begin(p) \/ Step(p) \/ BreakOff(p)

Spec == Init /\ [][Next]_vars

----------------------------------------------------------------------------

\* Every variable has its type.
TypeOK ==
  /\ meta \in Metas \cup {None}
  /\ journal \in Journals \cup {None}
  /\ Managed \subseteq Files
  /\ \A f \in Managed : files[f] \in [key : Keys, entries : SUBSET Entries]
  /\ keyring \subseteq used /\ used \subseteq Keys
  /\ stored \in [Files -> SUBSET Entries]
  /\ littered \in BOOLEAN
  /\ holder \in Procs \cup {None}
  /\ step \in [Procs -> Steps]
  /\ command \in [Procs -> AllCommands \cup {None}]
  /\ edit \in [Procs -> Edits \cup {None}]
  /\ loaded \in [Procs -> SUBSET Entries]
  /\ todo \in [Procs -> SUBSET Files]
  /\ outcome \in Outcomes

\* Every file can be opened with a key that still exists and holds exactly
\* what was stored in it: no rotation, restore, concurrent edit or failure at
\* any step loses a secret or a cookie.
NothingLost ==
  /\ \A f \in Managed : files[f].key \in keyring /\ files[f].entries = stored[f]
  /\ \A f \in Files \ Managed : stored[f] = {}

\* The key store holds no key that nothing refers to: one per vault, two only
\* while the journal of a rotation is there (docs/v3/reference/credential-vault.md).
KeysAccountedFor ==
  \A k \in keyring :
    \/ meta # None /\ k = meta.key
    \/ journal # None /\ k \in {journal.old, journal.new}

\* A vault that was once ready is never found damaged, so a command that was
\* broken off can always be run again or resumed.
NeverDamaged ==
  [][outcome' = "damaged" => meta # None /\ ~meta.marker]_vars

\* A restore that was broken off can be run again: a root is refused only when
\* the vault in it is in use.
RestoreCanBeRepeated ==
  [][outcome' = "destination" => meta # None]_vars

=============================================================================
