-------------------------- MODULE ProjectExtension --------------------------
(***************************************************************************)
(* "image-downloader-dev extend --apply" (devtools/generation, catalog): a   *)
(* generated plugin gets further features while its author edits it.  What   *)
(* was generated earlier is told from what the author wrote by the markers   *)
(* in the source and by generation.json, the state; each file is compared    *)
(* with what was read of it and then replaced, and a failure puts back those *)
(* that were replaced, each by writing into it: it is empty for a while, and  *)
(* stays so if that is cut off.  A second extension may run at the same time, *)
(* or after one that was killed.                                             *)
(*                                                                         *)
(* The text of a block, of a generated file and of the state is determined   *)
(* by the selected features.  The settings of a feature keep their defaults, *)
(* so the URLs that oauth, csrf and short-lived need are not configured.     *)
(* Three kinds of files are one each here: fixture stands for the auxiliary  *)
(* files, defaults for the two generated modules, config for the files that  *)
(* are merged (plugin.yaml, plugin-metadata.json, manifest.json).  Of what the *)
(* author wrote each file has the numbers of the edits it is the result of.    *)
(*                                                                         *)
(* Config and spec are loaded and dumped again: the values of settings stay,   *)
(* but not what is a "remark" here (a comment, a key that the tool does not     *)
(* know, a default that was taken out), and the spec gets the default names of *)
(* the secrets of each selected way to authenticate.                           *)
(***************************************************************************)
EXTENDS Naturals, FiniteSets, Sequences, SequencesExt

CONSTANTS
  Extenders,  \* processes that run "extend"
  Additions,  \* what an extension may be asked to add
  Originals,  \* selections with which the plugin may have been generated
  Kind,       \* "site_plugin" or "image_processor_plugin"
  EditedHooks,\* blocks of the source that the author may edit
  EditedSettings, \* places of config and spec that the author may edit
  MaxEdits,   \* bound: how often the author edits a file
  Overlap,    \* whether one may start while another runs
  None        \* nothing read, no result

VARIABLES
  disk,       \* disk[f]: the content of the file
  updates,    \* updates[e]: the features that e is to add
  step,       \* step[e]
  original,   \* original[e]: the spec as read
  baseline,   \* baseline[e]: the state as read
  snapshots,  \* snapshots[e]: the files as read
  changes,    \* changes[e]: what is to be written, of the files that change
  applied,    \* applied[e]: the files that e has replaced
  restoring,  \* restoring[e]: the file that e has emptied to put it back, or None
  edits,      \* history: what the author has edited: [file, at, exposed, backup]
  met,        \* whether two of them have overlapped
  result      \* result[e]: None, "conflicts", "applied", "failed", "died"

extensionVars == <<disk, updates, step, original, baseline, snapshots, changes, applied,
                  restoring, edits, met, result>>
-----------------------------------------------------------------------------
(* The catalog.                                                            *)

Both == {"transform", "metadata", "output-values", "history", "cleanup", "network"}
SiteOnly == {"host", "configured-host", "html", "json", "pagination", "chapters", "api-key", "bearer",
             "oauth", "csrf", "cookies", "origins", "request", "short-lived", "save-options",
             "updates", "additional-files", "empty-policy"}
Catalog == Both \cup SiteOnly
Auth == {"api-key", "bearer", "oauth", "csrf"}
Extraction == {"html", "json"}

FileHooks == {"additional_file_hook_points", "additional_files", "additional_file_received",
              "additional_file_saved"}

HooksOf(f) ==
  CASE f \in Auth -> {"auth_flow"}
    [] f = "configured-host" -> {"matches_with_config"}
    [] f = "short-lived" -> {"recover_image_request"}
    [] f = "updates" -> {"check_updates"}
    [] f = "additional-files" -> FileHooks
    [] f = "output-values" -> {"output_format_values"}
    [] f = "cleanup" -> {"cleanup_after_use"}
    [] OTHER -> {}

Selectable(names) ==
  /\ names \subseteq Catalog
  /\ Cardinality(Auth \cap names) <= 1
  /\ ~Extraction \subseteq names
  /\ Kind = "site_plugin" \/ names \subseteq Both

\* select_features, of names that can be selected.
SelectFeatures(names) ==
  names \cup (IF Kind # "site_plugin" THEN {}
              ELSE {"host"} \cup (IF names \cap Extraction = {} THEN {"html"} ELSE {}))
-----------------------------------------------------------------------------
(* What is generated.                                                      *)

SiteHooks == {"validate_config", "matches", "inspect", "create_image_request",
              "recover_image_request", "auth_flow", "transform_image"}

Hooks == SiteHooks \cup {"_dev_support", "transform"} \cup UNION {HooksOf(f) : f \in Catalog}

\* The names of secrets that render_project puts into the spec.
SecretsOf(f) ==
  CASE f = "api-key" -> {"api_token"}
    [] f = "bearer" -> {"access_token"}
    [] f = "oauth" -> {"access_token", "refresh_token"}
    [] f = "csrf" -> {"username", "password"}
    [] OTHER -> {}

\* What a dump may bring back to the default, and where an edit can be made.
Redone == {"remark"} \cup UNION {SecretsOf(f) : f \in Auth}
Places(f) ==
  CASE f = "source" -> EditedHooks \cup {"rest"}
    [] f = "config" -> EditedSettings \cap {"setting", "remark"}
    [] f = "spec" -> EditedSettings
    [] OTHER -> {"rest"}

\* What can be generated, and the bounds.
ExtensionAssumption ==
  /\ EditedSettings \subseteq {"setting"} \cup Redone
  /\ None \notin Extenders \cup {"source", "fixture", "defaults", "config", "spec", "state"}
  /\ EditedHooks \subseteq Hooks /\ MaxEdits \in Nat /\ Kind \in {"site_plugin", "image_processor_plugin"}
  /\ \A F \in Originals : Selectable(F)

Absent == <<"absent", {}>> \* no such block or file
NoSpec == [there |-> FALSE, features |-> {}, edited |-> {}]
Own(D) == <<"own", D>>       \* a method of that name without markers
Edited(D) == <<"edited", D>> \* text of the author, between the markers or as the file

IsOwn(b) == b[1] = "own"
IsEdited(b) == b[1] = "edited"

\* pending_features: hooks for which a setting is missing.
PendingHooks(F) ==
  (IF F \cap {"oauth", "csrf"} # {} THEN {"auth_flow"} ELSE {})
    \cup (IF "short-lived" \in F THEN {"create_image_request"} ELSE {})
    \cup (IF {"chapters", "html"} \subseteq F THEN {"inspect"} ELSE {})

GeneratedHooks(F) ==
  {"_dev_support"} \cup (IF Kind = "site_plugin" THEN SiteHooks ELSE {"validate_config", "transform"})
    \cup UNION {HooksOf(f) : f \in F}

\* blocks
Block(h, F) ==
  IF h \notin GeneratedHooks(F) THEN Absent
  ELSE CASE h = "_dev_support" -> <<"support", F>>
         [] h \in PendingHooks(F) -> <<"pending", {}>>
         [] \/ h = "recover_image_request" /\ "short-lived" \notin F
            \/ h = "auth_flow" /\ F \cap Auth = {}
            \/ h = "transform_image" /\ F \cap {"transform", "history"} = {} -> <<"trivial", {}>>
         [] OTHER -> <<"call", {}>>

\* import_block
ImportBlock(F) == <<"imports", GeneratedHooks(F)>>

Generated(F) == <<"generated", F>>

\* render_project and create_project
Project(F) ==
  [source |-> [blocks |-> [h \in Hooks |-> Block(h, F)], imports |-> ImportBlock(F), rest |-> {}],
   fixture |-> Generated(F), defaults |-> Generated(F),
   config |-> [of |-> F, edited |-> {}], spec |-> [there |-> TRUE, features |-> F, edited |-> {}],
   state |-> Generated(F)]

\* A plugin that was written by hand.
Unmanaged ==
  [source |-> [blocks |-> [h \in Hooks |-> IF h \in SiteHooks THEN Own({}) ELSE Absent],
               imports |-> Absent, rest |-> {}],
   fixture |-> Absent, defaults |-> Absent, config |-> [of |-> {}, edited |-> {}],
   spec |-> NoSpec, state |-> Absent]

\* Mutant: the state is written first.
FilesStateFirst == <<"state", "fixture", "source", "defaults", "config", "spec">>

\* The order in which the files are written.
Files == <<"fixture", "source", "defaults", "config", "spec", "state">>
-----------------------------------------------------------------------------
(* What an extension makes of it.                                          *)

\* changed_hooks
ChangedHooks(U) ==
  UNION {HooksOf(f) : f \in U}
    \cup (IF U \cap {"html", "json", "pagination", "chapters", "empty-policy", "save-options", "metadata"} # {}
          THEN {"inspect"} ELSE {})
    \cup (IF "host" \in U THEN {"matches"} ELSE {})
    \cup (IF U \cap {"request", "short-lived", "metadata"} # {} THEN {"create_image_request"} ELSE {})
    \cup (IF U \cap {"transform", "history"} # {}
          THEN {IF Kind = "image_processor_plugin" THEN "transform" ELSE "transform_image"} ELSE {})

\* extend_project: a choice of the update displaces that of its family.
Merged(F, U) ==
  LET Displaced == UNION {family \in {Extraction, Auth} : family \cap U # {}}
  IN  (F \ Displaced) \cup U

\* Of a file that was not read there is no old block.
OldBlock(h, base) == IF base = Absent THEN Absent ELSE Block(h, base[2])

IsMarked(b) == b # Absent /\ ~IsOwn(b)

\* _replace_blocks, of one name that is generated.
BlockConflicts(h, b, base, F, U) ==
  IF IsMarked(b) THEN b # Block(h, F) /\ Block(h, F) # OldBlock(h, base) /\ b # OldBlock(h, base)
  ELSE IsOwn(b) /\ h \notin (SiteHooks \cup {"transform"}) \ ChangedHooks(U)

\* Mutant: every block with markers is generated again.
ReplacedBlockAlways(h, b, base, F) ==
  IF h \in GeneratedHooks(F) /\ ~IsOwn(b) THEN Block(h, F) ELSE b

ReplacedBlock(h, b, base, F) ==
  IF h \notin GeneratedHooks(F) \/ IsOwn(b) \/ (IsMarked(b) /\ b # OldBlock(h, base)) THEN b
  ELSE Block(h, F)

\* merge_imports
ImportsConflict(i, base, F) ==
  i # Absent /\ i # ImportBlock(F) /\ (base = Absent \/ i # ImportBlock(base[2]))

\* A file that is generated as a whole: auxiliary_changes and the modules.
WholeConflicts(content, base, F) ==
  content # Absent /\ content \notin {Generated(F)} \cup (IF base = Absent THEN {} ELSE {Generated(base[2])})

\* The auxiliary files are left alone where there is no state.
FixtureConflicts(content, base, F) == base # Absent /\ WholeConflicts(content, base, F)

\* extend_project after its reads.  The modules and the settings are read again
\* for it (defaults, config).
Conflicts(snap, base, F, U, defaults) ==
  \/ \E h \in GeneratedHooks(F) : BlockConflicts(h, snap.source.blocks[h], base, F, U)
  \/ ImportsConflict(snap.source.imports, base, F)
  \/ FixtureConflicts(snap.fixture, base, F)
  \/ WholeConflicts(defaults, base, F)

\* What a dump leaves of the edits of config or spec.
Dumped(edited, names) == {p \in edited : p[2] # "remark" /\ p[2] \notin names}

Candidates(snap, spec, base, F, config) ==
  [source |-> [blocks |-> [h \in Hooks |-> ReplacedBlock(h, snap.source.blocks[h], base, F)],
               imports |-> ImportBlock(F), rest |-> snap.source.rest],
   fixture |-> IF base = Absent THEN snap.fixture ELSE Generated(F),
   defaults |-> Generated(F),
   config |-> [of |-> F \cup config.of, edited |-> Dumped(config.edited, {})],
   spec |-> [there |-> TRUE, features |-> F,
             edited |-> Dumped(spec.edited, UNION {SecretsOf(f) : f \in F})],
   state |-> Generated(F)]
\* The content c of the file f has the edit i, which was made at one place of it.
Keeps(f, at, i, c) ==
  CASE f = "source" /\ at # "rest" -> (IsOwn(c.blocks[at]) \/ IsEdited(c.blocks[at])) /\ i \in c.blocks[at][2]
    [] f = "source" /\ at = "rest" -> i \in c.rest
    [] f \in {"fixture", "defaults"} -> IsEdited(c) /\ i \in c[2]
    [] f \in {"config", "spec"} -> <<i, at>> \in c.edited
-----------------------------------------------------------------------------
ExtensionInit ==
  /\ disk \in {Project(SelectFeatures(F)) : F \in Originals} \cup {Unmanaged}
  /\ updates \in [Extenders -> Additions]
  /\ step = [e \in Extenders |-> "start"]
  /\ original = [e \in Extenders |-> None]
  /\ baseline = [e \in Extenders |-> None]
  /\ snapshots = [e \in Extenders |-> None]
  /\ changes = [e \in Extenders |-> <<>>]
  /\ applied = [e \in Extenders |-> <<>>]
  /\ restoring = [e \in Extenders |-> None]
  /\ edits = <<>>
  /\ met = FALSE
  /\ result = [e \in Extenders |-> None]

Goto(e, s) == step' = [step EXCEPT ![e] = s]
Ends(e, r) == Goto(e, "ended") /\ result' = [result EXCEPT ![e] = r]

\* The files e has yet to write, by their place in the order, and the next of them.
Remaining(e) == {n \in DOMAIN Files : Files[n] \in DOMAIN changes[e] \ Range(applied[e])}
FileAt(places) == Files[CHOOSE n \in places : \A m \in places : n <= m]
NextFile(e) == FileAt(Remaining(e))

\* An edit of the file f now may be overwritten: it was compared and is about to
\* be replaced, it may be put back, or it was read too early.  (Merge adds those
\* that the dump of their file may undo.)
Exposed(f) ==
  \E e \in Extenders :
    \/ step[e] = "write" /\ f = NextFile(e)
    \/ step[e] \in {"compare", "write", "rollback"} /\ f \in Range(applied[e]) \cup {restoring[e]}
    \/ f = "spec" /\ step[e] \in {"baseline", "snapshot"}

\* One is at work, or it has died while it put a file back.
Working(e) == step[e] \notin {"start", "ended"}
Interrupted(e) == step[e] = "ended" /\ restoring[e] # None

\* What a file can be after the edit i of it at one place.
AfterEdit(f, at, i) ==
  LET c == disk[f]
  IN  CASE f = "source" /\ at = "rest" -> {[c EXCEPT !.rest = @ \cup {i}]}
        [] f = "source" /\ at # "rest" ->
             IF IsOwn(c.blocks[at]) \/ IsEdited(c.blocks[at]) THEN {}
             ELSE {[c EXCEPT !.blocks[at] = b] :
                     b \in {Own({i})} \cup (IF c.blocks[at] = Absent THEN {} ELSE {Edited({i})})}
        [] f \in {"fixture", "defaults"} -> {Edited({i} \cup (IF IsEdited(c) THEN c[2] ELSE {}))}
        [] f \in {"config", "spec"} -> {[c EXCEPT !.edited = @ \cup {<<i, at>>}]}

\* The author edits a file.
Edit ==
  /\ Len(edits) < MaxEdits
  /\ \E f \in {"source", "fixture", "defaults", "config", "spec"} : \E at \in Places(f) :
       /\ f \in {"fixture", "defaults"} => disk[f] # Absent
       /\ f = "spec" => disk.spec.there
       /\ edits' = Append(edits, [file |-> f, at |-> at, exposed |-> Exposed(f), backup |-> None])
       /\ \E c \in AfterEdit(f, at, Len(edits) + 1) : disk' = [disk EXCEPT ![f] = c]
  /\ UNCHANGED <<updates, step, original, baseline, snapshots, changes, applied, restoring, met, result>>

MayStart == Overlap \/ \A d \in Extenders : ~Working(d)

\* resolve_target, and plugin-dev.yaml is read.
ReadSpec(e) ==
  /\ step[e] = "start"
  /\ MayStart
  /\ original' = [original EXCEPT ![e] = disk.spec]
  /\ Goto(e, "baseline")
  /\ met' = (met \/ \E d \in Extenders : Working(d) \/ Interrupted(d))
  /\ UNCHANGED <<disk, updates, baseline, snapshots, changes, applied, restoring, edits, result>>

\* An empty file; the state, and a whole file that is generated, are no project's.
Emptied(f, c) ==
  CASE f = "source" -> [c EXCEPT !.blocks = [h \in Hooks |-> Absent], !.imports = Absent, !.rest = {}]
    [] f = "config" -> [c EXCEPT !.of = {}, !.edited = {}]
    [] f = "spec" -> [c EXCEPT !.features = {}, !.edited = {}]
    [] OTHER -> <<"empty", {}>>

\* A file that one has died over may have no class, or not be readable.
Stumble(e) ==
  /\ step[e] \in {"start", "merge"} /\ (step[e] = "start" => MayStart)
  /\ \E d \in Extenders : restoring[d] \in {"source", "config", "spec"}
  /\ Ends(e, "failed")
  /\ UNCHANGED <<disk, updates, original, baseline, snapshots, changes, applied, restoring, edits, met>>

Selected(e) == Merged(original[e].features, updates[e])

\* normalize_spec, and the state is read: an empty one is no document.
ReadBaseline(e) ==
  /\ step[e] = "baseline"
  /\ IF Selectable(Selected(e)) /\ disk.state[1] # "empty"
     THEN /\ baseline' = [baseline EXCEPT ![e] = disk.state]
          /\ Goto(e, "snapshot")
          /\ UNCHANGED result
     ELSE Ends(e, "failed") /\ UNCHANGED baseline
  /\ UNCHANGED <<disk, updates, original, snapshots, changes, applied, restoring, edits, met>>

Snapshot(e) ==
  /\ step[e] = "snapshot"
  /\ snapshots' = [snapshots EXCEPT ![e] = disk]
  /\ Goto(e, "merge")
  /\ UNCHANGED <<disk, updates, original, baseline, changes, applied, restoring, edits, met, result>>

\* The edit i is one that a dump does not keep.
Forgotten(i, read, wanted) ==
  LET d == edits[i]
  IN  d.at \in Redone /\ Keeps(d.file, d.at, i, read[d.file]) /\ ~Keeps(d.file, d.at, i, wanted[d.file])

\* What is to be written, and what stands against it.
Merge(e) ==
  /\ step[e] = "merge"
  /\ LET F == SelectFeatures(Selected(e))
         wanted == Candidates(snapshots[e], original[e], baseline[e], F, disk.config)
     IN  IF Conflicts(snapshots[e], baseline[e], F, updates[e], disk.defaults)
         THEN Ends(e, "conflicts") /\ UNCHANGED <<changes, edits>>
         ELSE /\ changes' = [changes EXCEPT ![e] =
                   [f \in {g \in Range(Files) : wanted[g] # snapshots[e][g]} |-> wanted[f]]]
              /\ edits' = [i \in DOMAIN edits |->
                   [edits[i] EXCEPT !.exposed = @ \/ Forgotten(i, snapshots[e], wanted)]]
              /\ Goto(e, "check")
              /\ UNCHANGED result
  /\ UNCHANGED <<disk, updates, original, baseline, snapshots, applied, restoring, met>>

\* apply_changes begins: what changed since it was read is not touched.  The
\* files that are to be replaced are copied to a directory of their own.
Check(e) ==
  /\ step[e] = "check"
  /\ IF DOMAIN changes[e] = {} THEN Ends(e, "applied")
     ELSE IF \A f \in DOMAIN changes[e] : disk[f] = snapshots[e][f]
     THEN Goto(e, "compare") /\ UNCHANGED result
     ELSE Ends(e, "failed")
  /\ UNCHANGED <<disk, updates, original, baseline, snapshots, changes, applied, restoring, edits, met>>

\* Each file is compared once more.
Compare(e) ==
  /\ step[e] = "compare"
  /\ IF Remaining(e) = {} THEN Ends(e, "applied")
     ELSE /\ Goto(e, IF disk[NextFile(e)] = snapshots[e][NextFile(e)] THEN "write" ELSE "rollback")
          /\ UNCHANGED result
  /\ UNCHANGED <<disk, updates, original, baseline, snapshots, changes, applied, restoring, edits, met>>

Write(e) ==
  /\ step[e] = "write"
  /\ disk' = [disk EXCEPT ![NextFile(e)] = changes[e][NextFile(e)]]
  /\ applied' = [applied EXCEPT ![e] = Append(@, NextFile(e))]
  /\ Goto(e, "compare")
  /\ UNCHANGED <<updates, original, baseline, snapshots, changes, restoring, edits, met, result>>

\* The disk is full, or the author interrupts it.
WriteFails(e) ==
  /\ step[e] = "write"
  /\ Goto(e, "rollback")
  /\ UNCHANGED <<disk, updates, original, baseline, snapshots, changes, applied, restoring, edits, met, result>>

\* There was no such file.
Missing(f, c) == IF f = "spec" THEN ~c.there ELSE f \in {"fixture", "defaults", "state"} /\ c = Absent

\* What was replaced is put back, the last first: a file that was not there is
\* removed, another one is emptied.  From then on its edits are in the backup.
Undo(e) ==
  /\ step[e] = "rollback" /\ restoring[e] = None
  /\ IF applied[e] = <<>> THEN Ends(e, "failed") /\ UNCHANGED <<disk, applied, restoring, edits>>
     ELSE LET f == Last(applied[e])
          IN  /\ applied' = [applied EXCEPT ![e] = Front(@)]
              /\ IF Missing(f, snapshots[e][f])
                 THEN disk' = [disk EXCEPT ![f] = snapshots[e][f]] /\ UNCHANGED <<restoring, edits>>
                 ELSE /\ disk' = [disk EXCEPT ![f] = Emptied(f, @)]
                      /\ restoring' = [restoring EXCEPT ![e] = f]
                      /\ edits' = [i \in DOMAIN edits |-> [edits[i] EXCEPT !.backup =
                           IF edits[i].file = f /\ @ = None THEN e ELSE @]]
              /\ UNCHANGED <<step, result>>
  /\ UNCHANGED <<updates, original, baseline, snapshots, changes, met>>

\* And what it was is written into it.  With that its edits are on the disk again,
\* unless another one is at work that may have seen the file empty.
PutBack(e) ==
  /\ step[e] = "rollback" /\ restoring[e] # None
  /\ disk' = [disk EXCEPT ![restoring[e]] = snapshots[e][restoring[e]]]
  /\ restoring' = [restoring EXCEPT ![e] = None]
  /\ edits' = [i \in DOMAIN edits |-> [edits[i] EXCEPT !.backup =
       IF edits[i].file = restoring[e] /\ @ = e /\ \A d \in Extenders \ {e} : ~Working(d)
       THEN None ELSE @]]
  /\ UNCHANGED <<updates, step, original, baseline, snapshots, changes, applied, met, result>>

\* The process is killed, or a file cannot be put back: it stays empty then.
Die(e) ==
  /\ step[e] \in {"compare", "write", "rollback"}
  /\ Ends(e, "died")
  /\ UNCHANGED <<disk, updates, original, baseline, snapshots, changes, applied, restoring, edits, met>>

ExtensionNext ==
  \/ Edit
  \/ \E e \in Extenders :
       \/ ReadSpec(e) \/ Stumble(e) \/ ReadBaseline(e) \/ Snapshot(e) \/ Merge(e) \/ Check(e)
       \/ Compare(e) \/ Write(e) \/ WriteFails(e) \/ Undo(e) \/ PutBack(e) \/ Die(e)

ExtensionSpec == ExtensionInit /\ [][ExtensionNext]_extensionVars
-----------------------------------------------------------------------------
\* What the author writes outlives every extension, whatever it selects, also one
\* that fails, is killed or meets another: it is in the file, or in the backup of
\* one that was killed while it put that file back or was seen at it by another.
\* Only what was written to a file between its last comparison and its
\* replacement, to one that is put back later, or to the spec before the
\* snapshots may be lost, and what a dump of config or spec does not keep.
EditsSurvive ==
  \A i \in DOMAIN edits :
    LET d == edits[i]
    IN  \/ d.exposed
        \/ d.backup # None /\ Keeps(d.file, d.at, i, snapshots[d.backup][d.file])
        \/ Keeps(d.file, d.at, i, disk[d.file])

\* The project, with the file that one emptied and did not write put back from its
\* backup.
Whole ==
  IF \A e \in Extenders : restoring[e] = None THEN disk
  ELSE LET e == CHOOSE d \in Extenders : restoring[d] # None
       IN  [disk EXCEPT ![restoring[e]] = snapshots[e][restoring[e]]]

\* What an extension of a plugin that was generated leaves behind, also when it
\* fails or is killed at any point, can be completed by the same extension, once
\* the file that was emptied last is put back from the backup if one was killed
\* over it: it finds no conflict, and the project is then the one that was to be
\* generated.
RerunCompletes ==
  \A e \in Extenders :
    LET F == SelectFeatures(Merged(Whole.spec.features, updates[e]))
        again == Candidates(Whole, Whole.spec, Whole.state, F, Whole.config)
    IN  /\ Whole.state # Absent /\ \A h \in Hooks : ~IsOwn(Whole.source.blocks[h])
        /\ edits = <<>> /\ ~met
        /\ \A d \in Extenders :
             step[d] = "start" \/ (step[d] = "ended" /\ updates[d] = updates[e])
        /\ Selectable(Merged(Whole.spec.features, updates[e]))
        => /\ ~Conflicts(Whole, Whole.state, F, updates[e], Whole.defaults)
           /\ again = [Project(F) EXCEPT !.config.of = again.config.of]
=============================================================================
