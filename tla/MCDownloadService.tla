-------------------------- MODULE MCDownloadService --------------------------
(* One task runs a workflow, another closes the service at any time.  Four   *)
(* images, two at a time, share one thread: two images remain when the first *)
(* fails, and one waits for the thread of the other.  This abstracts what    *)
(* the other modules of the service are about: how it loads its plugins, the *)
(* operations a command opens, what becomes of one image, the files a plugin *)
(* asks for, and what the user is told.  They share no state, so in a        *)
(* behaviour only one of them moves.                                         *)
EXTENDS DownloadService

CONSTANTS t1, t2,
          Processors, Urls, Retries,                                 \* operation
          p1, p2, Missing, Plugins, Packages, Known, Modes,          \* loading
          Enabled, Chain, MaxChanges,
          ImageProcessors, Bytes, FormatOf, Encoded, Types, Wanted,  \* pipeline
          Validations, Mismatches, NoExtension,
          MaxFiles, MaxChapters,                                     \* files
          NoteUrls, PageImages, Attempts, MaxCommands, Methods       \* notes

VARIABLES
  mover,  \* the one that moves in this behaviour
  command, doing, selection, site, chain, cleanups, primary, firstError, feed, urls, rounds,
  disk, entries, changes, mode, phase, pending, manifests, catalog, accepted, cache, modules,
  importing, code,
  wanted, validation, mismatch, worker, at, transformed, current, changed, position,
  filesDoing, declared, specs, named, fileAt, kept, chapters, chapter, outcomes, heard, written,
  temporary,
  commands, kind, point, url, attempts, results, open, unreported, deferred, collected, message,
  sending, told

Operation == INSTANCE SiteOperation
Loading == INSTANCE PluginLoading WITH Entries <- Known, records <- accepted
Pipeline == INSTANCE ArtifactPipeline WITH Processors <- ImageProcessors, step <- at
Additional == INSTANCE AdditionalFiles WITH
  doing <- filesDoing, point <- declared, at <- fileAt, pending <- kept, results <- outcomes,
  disk <- written
Notes == INSTANCE Notifications WITH
  Urls <- NoteUrls, Images <- PageImages, MaxAttempts <- Attempts, records <- collected

siteVars == <<command, doing, selection, site, chain, cleanups, primary, firstError, feed,
              urls, rounds>>
loadingVars == <<disk, entries, changes, mode, phase, pending, manifests, catalog, accepted, cache,
                 modules, importing, code>>
pipelineVars == <<wanted, validation, mismatch, worker, at, transformed, current, changed, position>>
fileVars == <<filesDoing, declared, specs, named, fileAt, kept, chapters, chapter, outcomes, heard,
              written, temporary>>
noteVars == <<commands, kind, point, url, attempts, results, open, unreported, deferred, collected,
              message, sending, told>>
allVars == <<mover, vars, siteVars, loadingVars, pipelineVars, fileVars, noteVars>>

ASSUME PartsAssumption ==
  /\ Operation!OperationAssumption
  /\ Loading!LoadingAssumption
  /\ Pipeline!PipelineAssumption
  /\ Additional!FilesAssumption
  /\ Notes!NotificationAssumption

Movers == {"service", "operation", "loading", "pipeline", "files", "notes"}

\* Two versions of a plugin, and the second with the manifest of the first;
\* entries that pin a manifest, or the files without one, or are revoked.
Package(c, d, s) == [content |-> c, declares |-> d, signed |-> s, whole |-> s]
MCPackages == {Package("v1", "v1", TRUE), Package("v2", "v2", TRUE), Package("v2", "v1", FALSE)}
Entry(k, d, c, r) == [pins |-> k, declares |-> d, content |-> c, revoked |-> r]
MCEntries == {Entry("manifest", "v1", "v1", FALSE), Entry("content", "v1", "v2", FALSE),
              Entry("manifest", "v2", "v2", TRUE)}

\* Some input of those that do not move is enough.  The second plugin is in
\* order at first.
AllInit ==
  /\ mover \in Movers
  /\ Init
  /\ Operation!SiteInit
  /\ mover # "operation" => command = "workflow"
  /\ Loading!LoadingInit
  /\ disk[p2] = Package("v1", "v1", TRUE) /\ entries[p2] = Entry("manifest", "v1", "v1", FALSE)
  /\ mover # "loading" => mode = "strict" /\ disk[p1] = Missing /\ entries[p1] = Missing
  /\ Pipeline!PipelineInit
  /\ mover # "pipeline" => /\ wanted = "ORIGINAL" /\ validation = "both" /\ mismatch = "error"
                           /\ current.data = "junk" /\ current.type = "text"
  /\ Additional!FilesInit
  /\ Notes!NoteInit
  /\ mover # "notes" => url = "u"

\* Nothing but x moves.
Moves(x) ==
  /\ mover = x
  /\ UNCHANGED mover
  /\ x # "service" => UNCHANGED vars
  /\ x # "operation" => UNCHANGED siteVars
  /\ x # "loading" => UNCHANGED loadingVars
  /\ x # "pipeline" => UNCHANGED pipelineVars
  /\ x # "files" => UNCHANGED fileVars
  /\ x # "notes" => UNCHANGED noteVars

\* A plugin, an image or an operation that has come to its end.
Rests ==
  /\ \/ mover = "loading" /\ phase = "closed"
     \/ mover = "pipeline" /\ at \in {"done", "failed"}
     \/ mover = "files" /\ filesDoing \in {"ended", "stopped"}
     \/ mover = "notes" /\ point = "idle"
  /\ UNCHANGED allVars

AllNext ==
  \/ Moves("service") /\ Next
  \/ Moves("operation") /\ Operation!SiteNext
  \/ Moves("loading") /\ Loading!LoadingNext
  \/ Moves("pipeline") /\ Pipeline!PipelineNext
  \/ Moves("files") /\ Additional!FilesNext
  \/ Moves("notes") /\ Notes!NoteNext
  \/ Rests

\* Nothing that is fair can happen in a service that does not move: nobody has
\* called it.
AllSpec == AllInit /\ [][AllNext]_allVars /\ Fairness

\* See SiteOperation, PluginLoading, ArtifactPipeline, AdditionalFiles and
\* Notifications.  What stays as it was created is not looked at in every state
\* again.
OneOwner == Operation!OneOwner
LoadedAsAccepted == mover = "loading" => Loading!CodeWasAccepted /\ Loading!ModulesAreOwned
SavedIsChecked == mover = "pipeline" => Pipeline!SavedIsChecked
FilesAreSettled == mover = "files" => Additional!FilesAreSettled
ToldOnce == mover = "notes" => Notes!ToldOnce

\* Contents of either format and of none, and what the encoder makes.
MCFormatOf == [b \in {"j1", "p1", "j", "p", "junk"} |->
  CASE b \in {"j1", "j"} -> "jpeg" [] b \in {"p1", "p"} -> "png" [] OTHER -> "none"]
MCEncoded == [f \in {"jpeg", "png"} |-> IF f = "jpeg" THEN "j" ELSE "p"]
=============================================================================
