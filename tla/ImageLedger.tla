---------------------------- MODULE ImageLedger ----------------------------
(***************************************************************************)
(* What a workflow remembers of one URL's images between its attempts      *)
(* (ImageLedger, application/workflow_retry.py).  An attempt inspects the  *)
(* page again; images of the new manifest that are unmistakably images of  *)
(* the old one, unchanged and not worth another try keep their outcome and *)
(* are not processed again (image_executor.py).  Images are processed      *)
(* concurrently, and an attempt may end between any two steps of theirs.   *)
(*                                                                         *)
(* A manifest is a sequence of chapters [key, images], an image a record   *)
(* [key, content]: the key is what an identity is made of (image_id, else  *)
(* the locator), the content all that equality compares besides.           *)
(***************************************************************************)
EXTENDS Integers, Sequences, FiniteSets

CONSTANTS Manifests,  \* what the site plugin may return
          Plugins,    \* the plugins that may be selected for the URL
          Attempts,   \* bound: attempts of the URL in one run
          MaxFiles,   \* bound: additional files of images that are remembered
          None

VARIABLES
  attempt,    \* attempt_number
  phase,      \* "between" attempts, "inspecting", or "processing" its images
  manifest,   \* the manifest of the latest attempt that got one, or None
  plugin,     \* the plugin that returned it
  outcomes,   \* outcomes[pos]: [image, kind] of the images that have one
  retained,   \* positions that keep the outcome of an earlier attempt
  attempted,  \* positions this attempt has started
  additional, \* files of images: [of, identity, attempt, at]
  saves,      \* history: how often each image of a chapter was saved
  finished    \* history: images done, unmistakable ever since

vars == <<attempt, phase, manifest, plugin, outcomes, retained, attempted, additional,
          saves, finished>>

Positions(m) == UNION {{c} \X DOMAIN m[c].images : c \in DOMAIN m}
ImageAt(m, pos) == m[pos[1]].images[pos[2]]
Identity(m, pos) == <<m[pos[1]].key, ImageAt(m, pos).key>>

\* An image together with the chapter it belongs to.
Copy(m, pos) == <<m[pos[1]].key, ImageAt(m, pos)>>
AllCopies == UNION {{Copy(m, pos) : pos \in Positions(m)} : m \in Manifests}

LedgerAssumption ==
  /\ Attempts \in Nat /\ MaxFiles \in Nat
  /\ None \notin Plugins /\ None \notin Manifests
  /\ \A m \in Manifests : \A pos \in Positions(m) : Identity(m, pos) # None

\* Mutant: identities that occur twice identify too.
AllIdentified(m) == Positions(m)

\* _identities: chapters and images whose keys occur once.
Identified(m) ==
  {pos \in Positions(m) :
     /\ \A c \in DOMAIN m : m[c].key = m[pos[1]].key => c = pos[1]
     /\ \A i \in DOMAIN m[pos[1]].images :
          m[pos[1]].images[i].key = ImageAt(m, pos).key => i = pos[2]}

Init ==
  /\ attempt = 0
  /\ phase = "between"
  /\ manifest = None /\ plugin = None
  /\ outcomes = [pos \in {} |-> None]
  /\ retained = {} /\ attempted = {} /\ additional = {}
  /\ saves = [x \in AllCopies |-> 0]
  /\ finished = {}

\* Mutant: an attempt that fails before its manifest forgets the outcomes.
StartAttemptAfresh ==
  /\ phase = "between" /\ attempt < Attempts
  /\ phase' = "inspecting"
  /\ attempt' = attempt + 1
  /\ retained' = {} /\ attempted' = {}
  /\ outcomes' = [pos \in {} |-> None]
  /\ UNCHANGED <<manifest, plugin, additional, saves, finished>>

\* start_attempt()
StartAttempt ==
  /\ phase = "between" /\ attempt < Attempts
  /\ phase' = "inspecting"
  /\ attempt' = attempt + 1
  /\ retained' = DOMAIN outcomes
  /\ attempted' = {}
  /\ UNCHANGED <<manifest, plugin, outcomes, additional, saves, finished>>

\* can_retain: the same image, and not a failure worth retrying ("failed";
\* "rejected" is a failure that is not).
CanRetain(outcome, image) == outcome.image = image /\ outcome.kind # "failed"

\* The old position whose outcome pos of manifest m may keep, if any.
Origins(m, p, pos) ==
  IF manifest = None \/ p # plugin \/ pos \notin Identified(m) THEN {}
  ELSE {q \in Identified(manifest) \cap DOMAIN outcomes :
          /\ Identity(manifest, q) = Identity(m, pos)
          /\ CanRetain(outcomes[q], ImageAt(m, pos))}

\* What begin() does with the files of images: those of this attempt stay,
\* those of retained images move with them.
FilesMoving(m, kept) ==
  {f \in additional : f.attempt = attempt}
  \cup {[f EXCEPT !.at = CHOOSE pos \in kept : Identity(m, pos) = f.identity] :
          f \in {g \in additional : /\ g.attempt # attempt
                                    /\ \E pos \in kept : g.identity = Identity(m, pos)}}

\* begin(): the plugin p returned m.
Begin(m, p) ==
  LET kept == {pos \in Positions(m) : Origins(m, p, pos) # {}} IN
  /\ phase = "inspecting"
  /\ phase' = "processing"
  /\ manifest' = m /\ plugin' = p
  /\ outcomes' = [pos \in kept |-> outcomes[CHOOSE q \in Origins(m, p, pos) : TRUE]]
  /\ retained' = kept
  /\ attempted' = {}
  /\ additional' = FilesMoving(m, kept)
  /\ finished' = IF p # plugin THEN {}
                 ELSE finished \cap {Copy(m, pos) : pos \in Identified(m)}
  /\ UNCHANGED <<attempt, saves>>

\* execute(): a retained image is reported as it is, another one is started.
StartImage(pos) ==
  /\ phase = "processing"
  /\ pos \in Positions(manifest) \ (retained \cup attempted)
  /\ attempted' = attempted \cup {pos}
  /\ UNCHANGED <<attempt, phase, manifest, plugin, outcomes, retained, additional, saves, finished>>

InWork(pos) == phase = "processing" /\ pos \in attempted \ DOMAIN outcomes

Record(pos, kind) ==
  outcomes' = [q \in DOMAIN outcomes \cup {pos} |->
                 IF q = pos THEN [image |-> ImageAt(manifest, pos), kind |-> kind] ELSE outcomes[q]]

\* The file is committed (or exists and is kept) and remembered before anything
\* else can happen.
SaveImage(pos) ==
  LET copy == Copy(manifest, pos) IN
  /\ InWork(pos)
  /\ Record(pos, "done")
  /\ saves' = [saves EXCEPT ![copy] = @ + 1]
  /\ finished' = IF pos \in Identified(manifest) THEN finished \cup {copy} ELSE finished
  /\ UNCHANGED <<attempt, phase, manifest, plugin, retained, attempted, additional>>

\* _report_failure; an error in releasing the directory lock comes after the
\* file was remembered as saved.
FailImage(pos) ==
  /\ phase = "processing" /\ pos \in attempted
  /\ pos \in DOMAIN outcomes => outcomes[pos].kind = "done"
  /\ \E kind \in {"failed", "rejected"} : Record(pos, kind)
  /\ finished' = IF pos \in Identified(manifest) THEN finished \ {Copy(manifest, pos)} ELSE finished
  /\ UNCHANGED <<attempt, phase, manifest, plugin, retained, attempted, additional, saves>>

\* record_additional for a hook of an image that is being processed.
RecordFile(pos) ==
  /\ phase = "processing"
  /\ pos \in attempted
  /\ Cardinality(additional) < MaxFiles
  /\ additional' = additional \cup
       {[of |-> ImageAt(manifest, pos), attempt |-> attempt, at |-> pos,
         identity |-> IF pos \in Identified(manifest) THEN Identity(manifest, pos) ELSE None]}
  /\ UNCHANGED <<attempt, phase, manifest, plugin, outcomes, retained, attempted, saves, finished>>

\* The attempt ends: all images are settled, a failure or a cancellation stops
\* it, or it fails before it has a manifest.
EndAttempt ==
  /\ phase # "between"
  /\ phase' = "between"
  /\ UNCHANGED <<attempt, manifest, plugin, outcomes, retained, attempted, additional, saves, finished>>

Next ==
  \/ StartAttempt \/ EndAttempt
  \/ \E m \in Manifests, p \in Plugins : Begin(m, p)
  \/ manifest # None /\ \E pos \in Positions(manifest) :
       StartImage(pos) \/ SaveImage(pos) \/ FailImage(pos) \/ RecordFile(pos)

Spec == Init /\ [][Next]_vars

----------------------------------------------------------------------------

\* The result that is published after each attempt, whatever it retained or
\* failed in, is about the images of its manifest, one by one; a chapter's
\* image is said to be done no more often than exactly that image was saved or
\* found saved; and each additional file of an image names the image it is of.
ReportsAreTrue ==
  /\ \A pos \in DOMAIN outcomes : pos \in Positions(manifest) /\ outcomes[pos].image = ImageAt(manifest, pos)
  /\ \A x \in AllCopies :
       Cardinality({pos \in DOMAIN outcomes : outcomes[pos].kind = "done" /\ Copy(manifest, pos) = x}) <= saves[x]
  /\ \A f \in additional : f.at \in Positions(manifest) /\ ImageAt(manifest, f.at) = f.of

\* An image that was done is not processed again in the same run for as long as
\* each manifest has it unmistakably and unchanged and the same plugin is
\* selected, however the attempts in between ended.
NotDoneTwice ==
  [][\A pos \in attempted' \ attempted : Copy(manifest, pos) \notin finished]_vars
=============================================================================
