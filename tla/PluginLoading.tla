--------------------------- MODULE PluginLoading ---------------------------
(***************************************************************************)
(* How one service finds, verifies and imports plugins (plugins/lifecycle,  *)
(* plugin_verification, plugin_manifest, source_loader, runtime) while      *)
(* their directories and the catalog are changed by other processes: an     *)
(* installation, an author who edits a file, a command of "plugin trust".   *)
(*                                                                         *)
(* A plugin is a directory with a manifest and files.  The contents of the  *)
(* files, taken together, are one value, as is what a manifest declares of  *)
(* them.  Importing reads two of the files, one after the other, and a      *)
(* plugin may import more of them at any later time.                        *)
(***************************************************************************)
EXTENDS FiniteSets, Naturals

CONSTANTS
  Plugins,    \* directories below the plugin root
  Packages,   \* what may be in one: [content, declares, signed, whole]
  Entries,    \* what the catalog may say of one: [pins, declares, content, revoked]
  Modes,      \* the verification modes of this instance
  Enabled,    \* plugins that are to be imported by prepare()
  Chain,      \* processors the configuration names
  MaxChanges, \* bound: how often a directory or the catalog changes
  Missing     \* no package, entry, manifest, catalog, record or class

LoadingAssumption ==
  /\ IsFiniteSet(Plugins) /\ Enabled \subseteq Plugins /\ Chain \subseteq Plugins
  /\ Modes \subseteq {"strict", "warn", "bypass-all", "bypass-catalog", "bypass-signature"}
  /\ MaxChanges \in Nat
  /\ Missing \notin Packages /\ Missing \notin Entries /\ Missing \notin Plugins /\ Missing # "any"
  /\ \A d \in Packages : d.content \notin {Missing, "any"}

VARIABLES
  disk,       \* disk[p]: the package in the directory
  entries,    \* entries[p]: the entry of p in catalog.json
  changes,    \* how often they were changed
  mode,       \* effective_verification_mode()
  phase,      \* "discover", "verify", "prepare", "ready", "failed", "closed"
  pending,    \* plugins the loop of this phase has not come to
  manifests,  \* manifests[p]: the manifest read by discovery
  catalog,    \* the catalog as read, or Missing
  records,    \* records[p]: the contents its code must have, "any", or Missing
  cache,      \* plugins whose class the loader holds
  modules,    \* plugins with modules in sys.modules
  importing,  \* the plugin that is being imported
  code        \* code[p]: the contents its code was compiled from

loadingVars == <<disk, entries, changes, mode, phase, pending, manifests, catalog, records,
                 cache, modules, importing, code>>

\* _relaxed_manifest_mode: a manifest that lacks fields can be read.
Relaxed == mode \in {"bypass-all", "bypass-signature"}

\* _legacy_catalog_pin_matches: the entry names the signed manifest.
SignedPinMatches(p) == catalog[p].pins = "manifest" /\ catalog[p].declares = manifests[p].declares

\* verify_signature and _verified_plugin_tree, on the files as they are now.
SignatureHolds(p) == manifests[p].signed
TreeHolds(p) == disk[p] # Missing /\ disk[p].content = manifests[p].declares

IsTrusted(p) == catalog # Missing /\ catalog[p] # Missing /\ ~catalog[p].revoked

\* _verify_manifest_with_tree: the contents the code of p must have.
Verified(p) ==
  CASE mode = "bypass-all" -> "any"
    [] mode = "bypass-catalog" ->
         IF TreeHolds(p) /\ SignatureHolds(p) THEN manifests[p].declares ELSE Missing
    [] mode = "bypass-signature" ->
         IF /\ IsTrusted(p) /\ disk[p] # Missing
            /\ \/ /\ catalog[p].pins = "content"
                  /\ catalog[p].declares = manifests[p].declares
                  /\ catalog[p].content = disk[p].content
               \/ SignedPinMatches(p) /\ TreeHolds(p)
         THEN disk[p].content ELSE Missing
    [] OTHER ->
         IF IsTrusted(p) /\ TreeHolds(p) /\ SignedPinMatches(p) /\ SignatureHolds(p)
         THEN manifests[p].declares ELSE Missing

\* In mode "warn" a plugin that fails is kept when its files are as declared.
Accepted(p) ==
  IF Verified(p) = Missing /\ mode = "warn" /\ TreeHolds(p) THEN manifests[p].declares
  ELSE Verified(p)

LoadingInit ==
  /\ disk \in [Plugins -> Packages \cup {Missing}]
  /\ entries \in [Plugins -> Entries \cup {Missing}]
  /\ changes = 0
  /\ mode \in Modes
  /\ phase = "discover"
  /\ pending = {p \in Plugins : disk[p] # Missing}
  /\ manifests = [p \in Plugins |-> Missing]
  /\ catalog = Missing
  /\ records = [p \in Plugins |-> Missing]
  /\ cache = {}
  /\ modules = {}
  /\ importing = Missing
  /\ code = [p \in Plugins |-> {}]

service == <<mode, phase, pending, manifests, catalog, records, cache, modules, importing, code>>

\* Another process installs, removes or edits a plugin, or changes the catalog.
Change ==
  /\ changes < MaxChanges
  /\ changes' = changes + 1
  /\ \E p \in Plugins :
       \/ /\ \E d \in (Packages \cup {Missing}) \ {disk[p]} : disk' = [disk EXCEPT ![p] = d]
          /\ UNCHANGED entries
       \/ /\ \E e \in (Entries \cup {Missing}) \ {entries[p]} : entries' = [entries EXCEPT ![p] = e]
          /\ UNCHANGED disk
  /\ UNCHANGED service

\* PluginDiscovery.discover: a manifest that cannot be read is only reported.
Discover(p) ==
  /\ phase = "discover"
  /\ p \in pending
  /\ pending' = pending \ {p}
  /\ manifests' = IF disk[p] # Missing /\ (disk[p].whole \/ Relaxed)
                  THEN [manifests EXCEPT ![p] = [declares |-> disk[p].declares, signed |-> disk[p].signed]]
                  ELSE manifests
  /\ UNCHANGED <<disk, entries, changes, mode, phase, catalog, records, cache, modules, importing, code>>

Candidates == {p \in Plugins : manifests[p] # Missing}

\* PluginManifestVerifier._load_catalog: a catalog that is damaged (or, in the
\* mode "strict", fails the service) counts as none.
LoadCatalog ==
  /\ phase = "discover"
  /\ pending = {}
  /\ \/ /\ phase' = "verify"
        /\ catalog' \in IF mode \in {"bypass-all", "bypass-catalog"} THEN {Missing} ELSE {entries}
     \/ /\ mode \notin {"bypass-all", "bypass-catalog"}
        /\ phase' = IF mode = "strict" THEN "failed" ELSE "verify"
        /\ UNCHANGED catalog
  /\ pending' = Candidates
  /\ UNCHANGED <<disk, entries, changes, mode, manifests, records, cache, modules, importing, code>>

\* One candidate of PluginManifestVerifier.verify.
Verify(p) ==
  /\ phase = "verify"
  /\ p \in pending
  /\ pending' = pending \ {p}
  /\ records' = [records EXCEPT ![p] = Accepted(p)]
  /\ UNCHANGED <<disk, entries, changes, mode, phase, manifests, catalog, cache, modules, importing, code>>

InRegistry == {p \in Plugins : records[p] # Missing}

\* PluginRuntime.prepare begins with validate_settings.
BeginPrepare ==
  /\ phase = "verify"
  /\ pending = {}
  /\ phase' = IF Chain \subseteq InRegistry THEN "prepare" ELSE "failed"
  /\ pending' = InRegistry \cap Enabled
  /\ UNCHANGED <<disk, entries, changes, mode, manifests, catalog, records, cache, modules, importing, code>>

\* Mutant: what the verifier has accepted is forgotten by the import.
ReadsAny(p) == disk[p] # Missing

\* _SourceContext.read_source: the bytes that are compiled were accepted.
Reads(p) == disk[p] # Missing /\ records[p] \in {"any", disk[p].content}

Compiled(p) == [code EXCEPT ![p] = @ \cup {disk[p].content}]

\* Mutant: the modules of a failed import stay in sys.modules.
FailImportLeaving(p) ==
  /\ importing' = Missing
  /\ cache' = cache \ {p}
  /\ UNCHANGED modules

\* _import_class fails: _remove_namespace, and unload() in prepare().
FailImport(p) ==
  /\ importing' = Missing
  /\ cache' = cache \ {p}
  /\ modules' = modules \ {p}

\* prepare() forgets a plugin that cannot be imported; elsewhere the error is
\* that of the operation.
Forgotten(p) == IF phase = "prepare" THEN [records EXCEPT ![p] = Missing] ELSE records

\* typed_instance of a class that is not in the cache, in prepare() or, for
\* plugins that are disabled as well, in validate_all() or doctor_validate():
\* the namespace is installed and the entry file read.
BeginImport(p) ==
  /\ importing = Missing
  /\ \/ phase = "prepare" /\ p \in pending
     \/ phase = "ready" /\ p \in InRegistry
  /\ p \notin cache
  /\ pending' = pending \ {p}
  /\ IF Reads(p)
     THEN /\ importing' = p
          /\ modules' = modules \cup {p}
          /\ code' = Compiled(p)
          /\ UNCHANGED <<cache, records>>
     ELSE FailImport(p) /\ records' = Forgotten(p) /\ UNCHANGED code
  /\ UNCHANGED <<disk, entries, changes, mode, phase, manifests, catalog>>

\* The entry has imported a module of its own, and its class is cached.
EndImport ==
  /\ importing # Missing
  /\ Reads(importing)
  /\ code' = Compiled(importing)
  /\ cache' = cache \cup {importing}
  /\ importing' = Missing
  /\ UNCHANGED <<disk, entries, changes, mode, phase, pending, manifests, catalog, records, modules>>

\* The module cannot be read, the code raises, or the class breaks the contract.
ImportFails ==
  /\ importing # Missing
  /\ FailImport(importing)
  /\ records' = Forgotten(importing)
  /\ UNCHANGED <<disk, entries, changes, mode, phase, pending, manifests, catalog, code>>

\* An interrupt: in prepare() it ends the construction of the service.
ImportInterrupted ==
  /\ importing # Missing
  /\ FailImport(importing)
  /\ phase' = IF phase = "prepare" THEN "failed" ELSE phase
  /\ UNCHANGED <<disk, entries, changes, mode, pending, manifests, catalog, records, code>>

\* After the end of prepare(): the service is ready.
EndPrepare ==
  /\ phase = "prepare"
  /\ pending = {} /\ importing = Missing
  /\ phase' = "ready"
  /\ UNCHANGED <<disk, entries, changes, mode, pending, manifests, catalog, records, cache, modules,
                 importing, code>>

\* A plugin imports another of its modules while it is used.
ImportMore(p) ==
  /\ phase = "ready"
  /\ p \in cache
  /\ Reads(p)
  /\ code' = Compiled(p)
  /\ UNCHANGED <<disk, entries, changes, mode, phase, pending, manifests, catalog, records, cache, modules,
                 importing>>

\* PluginRuntime.close, at the end of the service or by the guard of its construction.
Close ==
  /\ phase \in {"ready", "failed"}
  /\ importing = Missing
  /\ phase' = "closed"
  /\ cache' = {}
  /\ modules' = modules \ cache
  /\ UNCHANGED <<disk, entries, changes, mode, pending, manifests, catalog, records, importing, code>>

LoadingNext ==
  \/ Change \/ LoadCatalog \/ BeginPrepare \/ EndImport \/ ImportFails \/ ImportInterrupted
  \/ EndPrepare \/ Close
  \/ \E p \in Plugins : Discover(p) \/ Verify(p) \/ BeginImport(p) \/ ImportMore(p)

LoadingSpec == LoadingInit /\ [][LoadingNext]_loadingVars
-----------------------------------------------------------------------------
\* Whatever changes between the steps: unless verification is bypassed, all the
\* code a plugin has ever run is of one version of its files, the one its
\* manifest declares or its pin names; and in the mode "strict" only of a
\* plugin the catalog trusted (_SourceContext, PluginRecord._source_hashes).
CodeWasAccepted ==
  mode # "bypass-all" =>
    \A p \in Plugins : code[p] # {} =>
      /\ Cardinality(code[p]) = 1
      /\ \/ code[p] = {manifests[p].declares}
         \/ mode = "bypass-signature" /\ code[p] = {catalog[p].content}
      /\ mode = "strict" => IsTrusted(p) /\ SignedPinMatches(p) /\ SignatureHolds(p)

\* sys.modules, which is global to the process, holds modules of plugins whose
\* class the loader has or is about to have, none of a plugin it has dropped,
\* and none after the close (PluginClassLoader._remove_namespace).
ModulesAreOwned ==
  /\ modules \subseteq cache \cup {importing}
  /\ phase = "ready" => modules \subseteq InRegistry
  /\ phase = "closed" => modules = {}
=============================================================================
