-------------------------- MODULE ArtifactPipeline --------------------------
(***************************************************************************)
(* What becomes of one fetched image before it is saved                     *)
(* (media/artifact_pipeline.py, media/image_processor.py): the transform of *)
(* the site, a check of the input, an encoding into the format that is      *)
(* wanted or none at all, the chain of processors, and a last check or      *)
(* encoding that is left out when the processors changed nothing.           *)
(*                                                                         *)
(* Bytes are objects: a copy of one is another one, as for "is" in the      *)
(* code.  Plugins may return any artifact they can make.                    *)
(***************************************************************************)
EXTENDS Naturals

CONSTANTS
  Bytes,        \* contents plugins may return
  FormatOf,     \* FormatOf[b]: what Pillow finds in b; "none", or "empty"
  Encoded,      \* Encoded[f]: what the encoder makes for format f
  Types,        \* content types plugins and servers may declare
  Processors,   \* how many processors are enabled
  Wanted,       \* formats that may be wanted
  Validations,  \* settings of media.input_validation
  Mismatches,   \* settings of media.content_type_mismatch
  NoExtension

PipelineAssumption ==
  /\ Processors \in Nat
  /\ \A f \in DOMAIN Encoded : FormatOf[Encoded[f]] = f
  /\ Wanted \subseteq DOMAIN Encoded \cup {"ORIGINAL"}

VARIABLES
  wanted,       \* the format the force option, the plugin or the settings name
  validation,   \* media.input_validation
  mismatch,     \* media.content_type_mismatch
  worker,       \* the process with Pillow: "alive", "broken" or "closed"
  step,         \* "transform", "validate", "normalize", "chain", "done", "failed"
  transformed,  \* the artifact of the site's transform
  current,      \* the artifact at hand
  changed,      \* processor_changed
  position      \* how many processors have run

pipelineVars == <<wanted, validation, mismatch, worker, step, transformed, current, changed, position>>

Formats == {"jpeg", "png"}
Extensions == {".jpeg", ".png", ".exotic", NoExtension}
Artifacts == [data : Bytes, type : Types, extension : Extensions]

Extension(f) == IF f = "jpeg" THEN ".jpeg" ELSE ".png"

\* _validate_input: what the settings accept as the data of an image.
IsImageType(type) == type \in Formats
TypeMustFit(a) == IsImageType(a.type) /\ mismatch = "error"

\* The check asks the worker only when the data are to be decoded.
NeedsWorker(a) == validation \in {"decode", "both"} \/ TypeMustFit(a)

IsValid(a) ==
  /\ FormatOf[a.data] # "empty"
  /\ validation \in {"content_type", "both"} => IsImageType(a.type) \/ a.type = "unspecified"
  /\ NeedsWorker(a) => FormatOf[a.data] \in Formats
  /\ TypeMustFit(a) => FormatOf[a.data] = a.type

IsOriginal == wanted = "ORIGINAL"

PipelineInit ==
  /\ wanted \in Wanted
  /\ validation \in Validations
  /\ mismatch \in Mismatches
  /\ worker = "alive"
  /\ step = "transform"
  /\ \E a \in Artifacts : a.extension = NoExtension /\ transformed = a /\ current = a
  /\ changed = FALSE
  /\ position = 0

settings == <<wanted, validation, mismatch>>

\* An exception of any kind: the image has failed in the stage "process".
Fails ==
  /\ step \notin {"done", "failed"}
  /\ step' = "failed"
  /\ UNCHANGED <<settings, worker, transformed, current, changed, position>>

\* invoker.transform_image.
SiteTransforms ==
  /\ step = "transform"
  /\ \E a \in Artifacts : transformed' = a /\ current' = a
  /\ step' = "validate"
  /\ UNCHANGED <<settings, worker, changed, position>>

AfterValidation == IF IsOriginal THEN "chain" ELSE "normalize"

\* The check of the input; a dead or closed worker is an error.
Validates ==
  /\ step = "validate"
  /\ IsValid(current)
  /\ NeedsWorker(current) => worker = "alive"
  /\ step' = AfterValidation
  /\ UNCHANGED <<settings, worker, transformed, current, changed, position>>

\* core.process: what can be decoded is encoded in the wanted format.
Normalized(a) == [a EXCEPT !.data = Encoded[wanted], !.extension = Extension(wanted)]

Normalizes ==
  /\ step = "normalize"
  /\ FormatOf[current.data] \in Formats
  /\ worker = "alive"
  /\ current' = Normalized(current)
  /\ step' = IF position = Processors /\ changed THEN "done" ELSE "chain"
  /\ UNCHANGED <<settings, worker, transformed, changed, position>>

\* Mutant: a processor that has only renamed its artifact has changed nothing.
SameInputData(a, b) == a.data = b.data /\ a.type = b.type

\* _same_processing_input.  The source URL is not a part of artifacts here.
SameInput(a, b) == a.data = b.data /\ a.type = b.type /\ a.extension = b.extension

\* One processor of the chain.
Processes ==
  /\ step = "chain"
  /\ position < Processors
  /\ \E a \in [data : Bytes \cup {current.data}, type : Types, extension : Extensions \cup {current.extension}] :
       /\ current' = a
       /\ changed' = (changed \/ ~SameInput(a, current))
  /\ position' = position + 1
  /\ UNCHANGED <<settings, worker, step, transformed>>

\* An original is checked again if the chain replaced its data or type.
ChecksAgain == current.data # transformed.data \/ current.type # transformed.type

\* _original_extension: the name the artifact asks for, the one of its type, or ".bin".
OriginalExtension(a) ==
  CASE a.extension # NoExtension -> a.extension
    [] a.extension = NoExtension /\ IsImageType(a.type) -> Extension(a.type)
    [] OTHER -> ".bin"

\* The end of the chain for an image that is to be kept as it is.
PreservesOriginal ==
  /\ step = "chain" /\ position = Processors
  /\ IsOriginal
  /\ ChecksAgain => IsValid(current) /\ (NeedsWorker(current) => worker = "alive")
  /\ current' = [current EXCEPT !.extension = OriginalExtension(current)]
  /\ step' = "done"
  /\ UNCHANGED <<settings, worker, transformed, changed, position>>

\* The end for one that is encoded: once more, if the processors changed it.
EndsChain ==
  /\ step = "chain" /\ position = Processors
  /\ ~IsOriginal
  /\ step' = IF changed THEN "normalize" ELSE "done"
  /\ UNCHANGED <<settings, worker, transformed, current, changed, position>>

\* The worker dies with a job, of this image or of another, and is never
\* replaced; or the service has closed it.
WorkerStops ==
  /\ worker = "alive"
  /\ worker' \in {"broken", "closed"}
  /\ UNCHANGED <<settings, step, transformed, current, changed, position>>

PipelineNext ==
  \/ SiteTransforms \/ Validates \/ Normalizes \/ Processes \/ PreservesOriginal \/ EndsChain
  \/ Fails \/ WorkerStops

PipelineSpec == PipelineInit /\ [][PipelineNext]_pipelineVars
-----------------------------------------------------------------------------
\* Whatever the plugins return and in whatever order they change it: an image
\* that gets as far as being saved is in the wanted format and named for it, or,
\* kept as it is, passes the check its settings ask for (ArtifactPipeline.process,
\* which leaves out the last check or encoding when it believes it unnecessary).
SavedIsChecked ==
  step = "done" =>
    IF IsOriginal THEN IsValid(current)
    ELSE FormatOf[current.data] = wanted /\ current.extension = Extension(wanted)
=============================================================================
