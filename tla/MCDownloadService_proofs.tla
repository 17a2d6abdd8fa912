----------------------- MODULE MCDownloadService_proofs -----------------------
(***************************************************************************)
(* What the components beside the service itself keep true: for any        *)
(* plugins, catalogs and modes the code that runs is the code that was     *)
(* accepted; for any formats, plugins and number of processors what is     *)
(* saved was checked; for any number of files, chapters and failures the   *)
(* files a plugin asks for are settled; for any URLs, images, attempts and *)
(* methods a failed image is told once; and every instance of a plugin has *)
(* one owner.  Each is proved of the instance that moves in                *)
(* MCDownloadService, whose constants stay what they are.                  *)
(***************************************************************************)
EXTENDS MCDownloadService, FiniteSetTheorems, SequenceTheorems, TLAPS

\* The component that does not move stays as it is.
LEMMA OneMoves ==
  [AllNext]_allVars =>
    /\ [Loading!LoadingNext]_loadingVars
    /\ [Pipeline!PipelineNext]_pipelineVars
    /\ [Notes!NoteNext]_noteVars
BY DEF AllNext, Moves, Rests, allVars, loadingVars, pipelineVars, noteVars

-----------------------------------------------------------------------------
(***************************************************************************)
(* One image between fetch and save (ArtifactPipeline).                    *)
(***************************************************************************)

\* What plugins return and what the encoder makes.
Contents == Bytes \cup {Encoded[f] : f \in DOMAIN Encoded}

PipelineTyped ==
  /\ wanted \in Wanted
  /\ position \in 0..ImageProcessors
  /\ changed \in BOOLEAN
  /\ current \in [data : Contents, type : Types, extension : Pipeline!Extensions \cup {".bin"}]

\* An artifact as the encoder leaves it.
IsEncoded(a) == FormatOf[a.data] = wanted /\ a.extension = Pipeline!Extension(wanted)

\* The inductive invariant: the site's own artifact is at hand until its check,
\* it has passed it when the chain of an original runs, and the chain of any
\* other image runs on what was encoded until a processor changes it.
PipelineInv ==
  /\ PipelineTyped
  /\ at = "validate" => current = transformed
  /\ at = "chain" /\ Pipeline!IsOriginal => Pipeline!IsValid(transformed)
  /\ at = "normalize" => ~Pipeline!IsOriginal
  /\ at = "chain" /\ ~Pipeline!IsOriginal /\ ~changed => IsEncoded(current)
  /\ Pipeline!SavedIsChecked

\* The check looks at the data and the declared type of an artifact only.
LEMMA SameCheck ==
  ASSUME NEW a, NEW b, a.data = b.data, a.type = b.type
  PROVE  Pipeline!IsValid(a) <=> Pipeline!IsValid(b)
BY DEF Pipeline!IsValid, Pipeline!IsImageType, Pipeline!NeedsWorker, Pipeline!TypeMustFit

LEMMA PipelineKept == PipelineInv /\ [Pipeline!PipelineNext]_pipelineVars => PipelineInv'
<1> SUFFICES ASSUME PipelineInv, [Pipeline!PipelineNext]_pipelineVars PROVE PipelineInv'
  OBVIOUS
<1> USE PartsAssumption DEF Pipeline!PipelineAssumption, Pipeline!settings, Pipeline!IsOriginal
<1>1. CASE UNCHANGED pipelineVars
  BY <1>1 DEF PipelineInv, pipelineVars, PipelineTyped, IsEncoded, Pipeline!SavedIsChecked,
    Pipeline!IsValid, Pipeline!NeedsWorker, Pipeline!TypeMustFit
<1>2. CASE Pipeline!SiteTransforms
  BY <1>2 DEF PipelineInv, PipelineTyped, Contents, Pipeline!SiteTransforms, Pipeline!Artifacts,
    Pipeline!SavedIsChecked
<1>3. CASE Pipeline!Validates
  BY <1>3 DEF PipelineInv, PipelineTyped, Pipeline!Validates, Pipeline!AfterValidation,
    Pipeline!SavedIsChecked, IsEncoded,
    Pipeline!IsValid, Pipeline!NeedsWorker, Pipeline!TypeMustFit
<1>4. CASE Pipeline!Normalizes
  <2>1. wanted \in DOMAIN Encoded
    BY <1>4 DEF PipelineInv, PipelineTyped, Pipeline!Normalizes
  <2>2. PipelineTyped' /\ IsEncoded(current')
    BY <1>4, <2>1 DEF PipelineInv, PipelineTyped, IsEncoded, Contents, Pipeline!Normalizes,
      Pipeline!Normalized, Pipeline!Extension, Pipeline!Extensions
  <2> QED
    BY <1>4, <2>2 DEF PipelineInv, IsEncoded, Pipeline!Normalizes, Pipeline!SavedIsChecked
<1>5. CASE Pipeline!Processes
  <2>1. PipelineTyped'
    BY <1>5 DEF PipelineInv, PipelineTyped, Contents, Pipeline!Processes
  <2>2. ~changed' => ~changed /\ current'.data = current.data /\ current'.extension = current.extension
    BY <1>5 DEF PipelineInv, PipelineTyped, Pipeline!Processes, Pipeline!SameInput
  <2>3. Pipeline!IsValid(transformed) => Pipeline!IsValid(transformed)'
    BY <1>5 DEF Pipeline!Processes, Pipeline!IsValid, Pipeline!NeedsWorker, Pipeline!TypeMustFit
  <2> QED
    BY <1>5, <2>1, <2>2, <2>3 DEF PipelineInv, IsEncoded, Pipeline!Processes, Pipeline!SavedIsChecked
<1>6. CASE Pipeline!PreservesOriginal
  <2>1. PipelineTyped'
    BY <1>6 DEF PipelineInv, PipelineTyped, Pipeline!PreservesOriginal, Pipeline!OriginalExtension,
      Pipeline!Extension, Pipeline!Extensions
  <2>2. Pipeline!IsValid(current)
    BY <1>6, SameCheck DEF PipelineInv, Pipeline!PreservesOriginal, Pipeline!ChecksAgain
  <2>3. current'.data = current.data /\ current'.type = current.type
    BY <1>6 DEF PipelineInv, PipelineTyped, Pipeline!PreservesOriginal
  <2>4. Pipeline!IsValid(current)'
    BY <1>6, <2>2, <2>3 DEF Pipeline!PreservesOriginal, Pipeline!IsValid, Pipeline!NeedsWorker,
      Pipeline!TypeMustFit, Pipeline!IsImageType
  <2> QED
    BY <1>6, <2>1, <2>4 DEF PipelineInv, Pipeline!PreservesOriginal, Pipeline!SavedIsChecked
<1>7. CASE Pipeline!EndsChain
  BY <1>7 DEF PipelineInv, PipelineTyped, IsEncoded, Pipeline!EndsChain, Pipeline!SavedIsChecked
<1>8. CASE Pipeline!Fails
  BY <1>8 DEF PipelineInv, PipelineTyped, Pipeline!Fails, Pipeline!SavedIsChecked
<1>9. CASE Pipeline!WorkerStops
  BY <1>9 DEF PipelineInv, PipelineTyped, IsEncoded, Pipeline!WorkerStops, Pipeline!SavedIsChecked,
    Pipeline!IsValid, Pipeline!NeedsWorker, Pipeline!TypeMustFit
<1> QED
  BY <1>1, <1>2, <1>3, <1>4, <1>5, <1>6, <1>7, <1>8, <1>9 DEF Pipeline!PipelineNext

\* Whatever plugins return, in whatever order any number of processors change
\* it, and whenever the worker stops: an image that is saved passed the check
\* for what is saved, or was encoded after its last change (ArtifactPipeline.process).
THEOREM SavedAsChecked == AllSpec => []SavedIsChecked
<1>1. AllInit => PipelineInv
  <2>1. Pipeline!PipelineInit => PipelineTyped
    <3> SUFFICES ASSUME Pipeline!PipelineInit PROVE PipelineTyped
      OBVIOUS
    <3>1. current \in Pipeline!Artifacts
      BY DEF Pipeline!PipelineInit
    <3>2. current \in [data : Contents, type : Types, extension : Pipeline!Extensions \cup {".bin"}]
      BY <3>1 DEF Pipeline!Artifacts, Contents
    <3>3. position \in 0..ImageProcessors
      BY PartsAssumption DEF Pipeline!PipelineInit, Pipeline!PipelineAssumption
    <3> QED
      BY <3>2, <3>3 DEF Pipeline!PipelineInit, PipelineTyped
  <2>2. Pipeline!PipelineInit /\ PipelineTyped => PipelineInv
    BY DEF Pipeline!PipelineInit, PipelineInv, Pipeline!SavedIsChecked
  <2> QED
    BY <2>1, <2>2 DEF AllInit
<1>2. PipelineInv /\ [AllNext]_allVars => PipelineInv'
  BY PipelineKept, OneMoves
<1>3. PipelineInv => SavedIsChecked
  BY DEF PipelineInv, SavedIsChecked
<1> QED
  BY <1>1, <1>2, <1>3, PTL DEF AllSpec

-----------------------------------------------------------------------------
(***************************************************************************)
(* The plugins of a service (PluginLoading).                               *)
(***************************************************************************)

LoadingTyped ==
  /\ disk \in [Plugins -> Packages \cup {Missing}]
  /\ DOMAIN manifests = Plugins /\ DOMAIN accepted = Plugins /\ DOMAIN code = Plugins
  /\ pending \subseteq Plugins /\ cache \subseteq Plugins /\ modules \subseteq Plugins
  /\ importing \in Plugins \cup {Missing}

\* What the verifier may hold the code of p to.
MayRun(p, c) ==
  /\ c # "any"
  /\ \/ c = manifests[p].declares
     \/ mode = "bypass-signature" /\ c = catalog[p].content
  /\ mode = "strict" =>
       Loading!IsTrusted(p) /\ Loading!SignedPinMatches(p) /\ Loading!SignatureHolds(p)

\* What was accepted may run; what has run may, and was what is accepted still.
CodeAccepted ==
  mode # "bypass-all" => \A p \in Plugins :
    /\ accepted[p] # Missing => MayRun(p, accepted[p])
    /\ code[p] # {} => \E c : code[p] = {c} /\ MayRun(p, c) /\ (accepted[p] # Missing => c = accepted[p])

\* Nothing is accepted before the catalog is read, and no code runs before
\* everything is verified.
LoadingOrder ==
  /\ phase = "discover" => \A p \in Plugins : accepted[p] = Missing
  /\ phase \in {"discover", "verify"} => cache = {} /\ modules = {} /\ \A p \in Plugins : code[p] = {}
  /\ importing # Missing => phase \in {"prepare", "ready"}

\* Modules belong to plugins that are accepted, and that have a class or are
\* about to have one.
ModulesHeld ==
  /\ modules \subseteq cache \cup {importing}
  /\ phase # "closed" => modules \subseteq Loading!InRegistry
  /\ phase = "closed" => modules = {}

\* The inductive invariant.
LoadingInv == LoadingTyped /\ CodeAccepted /\ LoadingOrder /\ ModulesHeld

\* The verifier accepts what is on the disk when it looks.
LEMMA AcceptedMayRun ==
  ASSUME LoadingTyped, NEW p \in Plugins, mode # "bypass-all", Loading!Accepted(p) # Missing
  PROVE  MayRun(p, Loading!Accepted(p))
<1> USE PartsAssumption DEF Loading!LoadingAssumption, LoadingTyped, Loading!TreeHolds
<1>1. CASE Loading!Verified(p) = Missing
  BY <1>1 DEF Loading!Accepted, MayRun
<1>2. CASE Loading!Verified(p) # Missing
  <2>1. Loading!Accepted(p) = Loading!Verified(p)
    BY <1>2 DEF Loading!Accepted
  <2>2. CASE mode = "bypass-catalog"
    BY <1>2, <2>1, <2>2 DEF Loading!Verified, MayRun
  <2>3. CASE mode = "bypass-signature"
    BY <1>2, <2>1, <2>3 DEF Loading!Verified, MayRun
  <2>4. CASE mode \notin {"bypass-catalog", "bypass-signature"}
    BY <1>2, <2>1, <2>4 DEF Loading!Verified, MayRun
  <2> QED
    BY <2>2, <2>3, <2>4
<1> QED
  BY <1>1, <1>2

\* What is compiled is accepted at that moment.
LEMMA CompiledIsAccepted ==
  ASSUME LoadingInv, NEW p \in Plugins, Loading!Reads(p), code' = Loading!Compiled(p),
         UNCHANGED <<mode, manifests, catalog>>,
         \A q \in Plugins : accepted'[q] \in {accepted[q], Missing}
  PROVE  CodeAccepted' /\ accepted[p] # Missing
<1> USE PartsAssumption DEF Loading!LoadingAssumption, LoadingInv, LoadingTyped
<1>1. accepted[p] # Missing
  BY DEF Loading!Reads
<1>2. \A q \in Plugins : \A c : MayRun(q, c)' <=> MayRun(q, c)
  BY DEF MayRun, Loading!IsTrusted, Loading!SignedPinMatches, Loading!SignatureHolds
<1>3. ASSUME mode # "bypass-all"
      PROVE  MayRun(p, accepted[p]) /\ code'[p] = {accepted[p]} /\ \A q \in Plugins \ {p} : code'[q] = code[q]
  BY <1>1, <1>3 DEF CodeAccepted, MayRun, Loading!Reads, Loading!Compiled
<1>4. ASSUME mode' # "bypass-all", NEW q \in Plugins
      PROVE  /\ accepted'[q] # Missing => MayRun(q, accepted'[q])
             /\ code'[q] # {} => \E c : code'[q] = {c} /\ MayRun(q, c) /\ (accepted'[q] # Missing => c = accepted'[q])
  BY <1>3, <1>4 DEF CodeAccepted
<1> QED
  BY <1>1, <1>2, <1>4 DEF CodeAccepted

\* What is accepted may only be forgotten, and no code runs.
LEMMA AcceptedStays ==
  ASSUME CodeAccepted, UNCHANGED <<mode, manifests, catalog, code>>,
         \A q \in Plugins : accepted'[q] \in {accepted[q], Missing}
  PROVE  CodeAccepted'
<1>1. \A q \in Plugins : \A c : MayRun(q, c)' <=> MayRun(q, c)
  BY DEF MayRun, Loading!IsTrusted, Loading!SignedPinMatches, Loading!SignatureHolds
<1> QED
  BY <1>1 DEF CodeAccepted

\* Before anything is verified there is nothing to keep.
LEMMA NothingAccepted ==
  ASSUME \A p \in Plugins : accepted[p] = Missing /\ code[p] = {}
  PROVE  CodeAccepted
BY DEF CodeAccepted

LEMMA LoadingKept == LoadingInv /\ [Loading!LoadingNext]_loadingVars => LoadingInv'
<1> SUFFICES ASSUME LoadingInv, [Loading!LoadingNext]_loadingVars PROVE LoadingInv'
  OBVIOUS
<1> USE PartsAssumption DEF Loading!LoadingAssumption, LoadingInv
<1>1. CASE UNCHANGED loadingVars
  BY <1>1, AcceptedStays DEF loadingVars, LoadingTyped, LoadingOrder, ModulesHeld, Loading!InRegistry
<1>2. CASE Loading!Change
  <2>1. CodeAccepted'
    BY <1>2, AcceptedStays DEF Loading!Change, Loading!service
  <2>2. disk' \in [Plugins -> Packages \cup {Missing}]
    BY <1>2 DEF Loading!Change, LoadingTyped
  <2> QED
    BY <1>2, <2>1, <2>2 DEF Loading!Change, Loading!service, LoadingTyped, LoadingOrder, ModulesHeld,
      Loading!InRegistry
<1>3. ASSUME NEW p \in Plugins, Loading!Discover(p) PROVE LoadingInv'
  <2>1. CodeAccepted'
    BY <1>3, NothingAccepted DEF Loading!Discover, LoadingOrder, CodeAccepted
  <2>2. LoadingTyped'
    BY <1>3 DEF Loading!Discover, LoadingTyped
  <2> QED
    BY <1>3, <2>1, <2>2 DEF Loading!Discover, LoadingOrder, ModulesHeld, Loading!InRegistry
<1>4. CASE Loading!LoadCatalog
  <2>1. CodeAccepted'
    BY <1>4 DEF Loading!LoadCatalog, LoadingOrder, CodeAccepted
  <2> QED
    BY <1>4, <2>1 DEF Loading!LoadCatalog, LoadingTyped, LoadingOrder, ModulesHeld, Loading!InRegistry,
      Loading!Candidates
<1>5. ASSUME NEW p \in Plugins, Loading!Verify(p) PROVE LoadingInv'
  <2>1. mode # "bypass-all" /\ Loading!Accepted(p) # Missing => MayRun(p, Loading!Accepted(p))
    BY AcceptedMayRun
  <2>2. \A q \in Plugins : \A c : MayRun(q, c)' <=> MayRun(q, c)
    BY <1>5 DEF Loading!Verify, MayRun, Loading!IsTrusted, Loading!SignedPinMatches, Loading!SignatureHolds
  <2>3. \A q \in Plugins : accepted'[q] = IF q = p THEN Loading!Accepted(p) ELSE accepted[q]
    BY <1>5 DEF Loading!Verify, LoadingTyped
  <2>4. CodeAccepted'
    BY <1>5, <2>1, <2>2, <2>3 DEF Loading!Verify, LoadingOrder, CodeAccepted
  <2> QED
    BY <1>5, <2>4 DEF Loading!Verify, LoadingTyped, LoadingOrder, ModulesHeld
<1>6. CASE Loading!BeginPrepare
  <2>1. CodeAccepted'
    BY <1>6, AcceptedStays DEF Loading!BeginPrepare
  <2> QED
    BY <1>6, <2>1 DEF Loading!BeginPrepare, LoadingTyped, LoadingOrder, ModulesHeld, Loading!InRegistry
<1>7. ASSUME NEW p \in Plugins, Loading!BeginImport(p), Loading!Reads(p) PROVE LoadingInv'
  <2>1. CodeAccepted' /\ accepted[p] # Missing
    BY <1>7, CompiledIsAccepted DEF Loading!BeginImport
  <2>2. LoadingTyped'
    BY <1>7 DEF Loading!BeginImport, LoadingTyped, Loading!Compiled
  <2>3. LoadingOrder'
    BY <1>7 DEF Loading!BeginImport, LoadingOrder
  <2>4. ModulesHeld'
    BY <1>7, <2>1 DEF Loading!BeginImport, ModulesHeld, Loading!InRegistry
  <2> QED
    BY <2>1, <2>2, <2>3, <2>4
<1>8. ASSUME NEW p \in Plugins, Loading!BeginImport(p), ~Loading!Reads(p) PROVE LoadingInv'
  <2>1. \A q \in Plugins : accepted'[q] \in {accepted[q], Missing} /\ (q # p => accepted'[q] = accepted[q])
    BY <1>8 DEF Loading!BeginImport, Loading!Forgotten, LoadingTyped
  <2>2. CodeAccepted'
    BY <1>8, <2>1, AcceptedStays DEF Loading!BeginImport
  <2>3. LoadingTyped'
    BY <1>8 DEF Loading!BeginImport, Loading!FailImport, LoadingTyped, Loading!Forgotten
  <2>4. LoadingOrder'
    BY <1>8 DEF Loading!BeginImport, Loading!FailImport, LoadingOrder
  <2>5. ModulesHeld'
    BY <1>8, <2>1 DEF Loading!BeginImport, Loading!FailImport, ModulesHeld, Loading!InRegistry, LoadingTyped
  <2> QED
    BY <2>2, <2>3, <2>4, <2>5
<1>9. CASE Loading!EndImport
  <2>1. importing \in Plugins
    BY <1>9 DEF Loading!EndImport, LoadingTyped
  <2>2. CodeAccepted' /\ accepted[importing] # Missing
    BY <1>9, <2>1, CompiledIsAccepted DEF Loading!EndImport
  <2>3. LoadingTyped'
    BY <1>9, <2>1 DEF Loading!EndImport, LoadingTyped, Loading!Compiled
  <2>4. LoadingOrder'
    BY <1>9 DEF Loading!EndImport, LoadingOrder
  <2>5. ModulesHeld'
    BY <1>9 DEF Loading!EndImport, ModulesHeld, Loading!InRegistry
  <2> QED
    BY <2>2, <2>3, <2>4, <2>5
<1>10. CASE Loading!ImportFails \/ Loading!ImportInterrupted
  <2>1. importing \in Plugins
    BY <1>10 DEF Loading!ImportFails, Loading!ImportInterrupted, LoadingTyped
  <2>2. \A q \in Plugins : accepted'[q] \in {accepted[q], Missing} /\ (q # importing => accepted'[q] = accepted[q])
    BY <1>10, <2>1 DEF Loading!ImportFails, Loading!ImportInterrupted, Loading!Forgotten, LoadingTyped
  <2>3. CodeAccepted'
    BY <1>10, <2>2, AcceptedStays DEF Loading!ImportFails, Loading!ImportInterrupted
  <2>4. LoadingTyped'
    BY <1>10 DEF Loading!ImportFails, Loading!ImportInterrupted, Loading!FailImport, LoadingTyped, Loading!Forgotten
  <2>5. LoadingOrder'
    BY <1>10 DEF Loading!ImportFails, Loading!ImportInterrupted, Loading!FailImport, LoadingOrder
  <2>6. ModulesHeld'
    BY <1>10, <2>1, <2>2 DEF Loading!ImportFails, Loading!ImportInterrupted, Loading!FailImport, ModulesHeld,
      Loading!InRegistry, LoadingTyped, LoadingOrder
  <2> QED
    BY <2>3, <2>4, <2>5, <2>6
<1>11. CASE Loading!EndPrepare
  <2>1. CodeAccepted'
    BY <1>11, AcceptedStays DEF Loading!EndPrepare
  <2> QED
    BY <1>11, <2>1 DEF Loading!EndPrepare, LoadingTyped, LoadingOrder, ModulesHeld, Loading!InRegistry
<1>12. ASSUME NEW p \in Plugins, Loading!ImportMore(p) PROVE LoadingInv'
  <2>1. CodeAccepted'
    BY <1>12, CompiledIsAccepted DEF Loading!ImportMore
  <2> QED
    BY <1>12, <2>1 DEF Loading!ImportMore, Loading!Compiled, LoadingTyped, LoadingOrder, ModulesHeld,
      Loading!InRegistry
<1>13. CASE Loading!Close
  <2>1. CodeAccepted'
    BY <1>13, AcceptedStays DEF Loading!Close
  <2> QED
    BY <1>13, <2>1 DEF Loading!Close, LoadingTyped, LoadingOrder, ModulesHeld, Loading!InRegistry
<1> QED
  BY <1>1, <1>2, <1>3, <1>4, <1>5, <1>6, <1>7, <1>8, <1>9, <1>10, <1>11, <1>12, <1>13
  DEF Loading!LoadingNext

\* Whatever other processes change between the steps, in whatever order plugins
\* are imported and whatever fails: all the code a plugin has run is of one
\* version of its files, which its manifest or its pin names, and in the mode
\* "strict" of a plugin the catalog trusted; and no module is left of a plugin
\* that was dropped or closed (_SourceContext, PluginClassLoader).
THEOREM LoadsWhatItAccepted == AllSpec => []LoadedAsAccepted
<1>1. AllInit => LoadingInv
  <2>1. Loading!LoadingInit => LoadingInv
    BY PartsAssumption, NothingAccepted
    DEF Loading!LoadingInit, LoadingInv, LoadingTyped, LoadingOrder, ModulesHeld, Loading!InRegistry
  <2> QED
    BY <2>1 DEF AllInit
<1>2. LoadingInv /\ [AllNext]_allVars => LoadingInv'
  BY LoadingKept, OneMoves
<1>3. LoadingInv => LoadedAsAccepted
  <2> SUFFICES ASSUME LoadingInv PROVE Loading!CodeWasAccepted /\ Loading!ModulesAreOwned
    BY DEF LoadedAsAccepted
  <2>1. \A c : Loading!Cardinality({c}) = 1
    BY FS_Singleton DEF Cardinality, Loading!Cardinality
  <2>2. Loading!CodeWasAccepted
    BY <2>1 DEF LoadingInv, CodeAccepted, MayRun, Loading!CodeWasAccepted
  <2>3. Loading!ModulesAreOwned
    BY DEF LoadingInv, ModulesHeld, Loading!ModulesAreOwned
  <2> QED
    BY <2>2, <2>3
<1> QED
  BY <1>1, <1>2, <1>3, PTL DEF AllSpec

-----------------------------------------------------------------------------
(***************************************************************************)
(* What the user is told (Notifications).                                  *)
(***************************************************************************)

\* No element more than once.
IsPlain(bag) == bag = Notes!SetToBag(DOMAIN bag)

LEMMA PlainBags ==
  /\ \A S : IsPlain(Notes!SetToBag(S)) /\ DOMAIN Notes!SetToBag(S) = S
  /\ Notes!EmptyBag = Notes!SetToBag({})
  /\ \A S, T : S \cap T = {} =>
       Notes!(+)(Notes!SetToBag(S), Notes!SetToBag(T)) = Notes!SetToBag(S \cup T)
BY DEF IsPlain, Notes!(+), Notes!SetToBag, Notes!EmptyBag

\* Two disjoint plain bags taken together.
LEMMA PlainUnion ==
  ASSUME NEW A, NEW B, IsPlain(A), IsPlain(B), DOMAIN A \cap DOMAIN B = {}
  PROVE  IsPlain(Notes!(+)(A, B)) /\ DOMAIN Notes!(+)(A, B) = DOMAIN A \cup DOMAIN B
<1>1. Notes!(+)(A, B) = Notes!SetToBag(DOMAIN A \cup DOMAIN B)
  BY PlainBags DEF IsPlain
<1> QED
  BY <1>1, PlainBags

NotesTyped ==
  /\ commands \in Nat
  /\ kind \in {"download", "workflow"}
  /\ url \in NoteUrls
  /\ attempts \in [NoteUrls -> Nat]
  /\ DOMAIN results = NoteUrls /\ \A u \in NoteUrls : DOMAIN results[u] = PageImages
  /\ open \subseteq PageImages
  /\ DOMAIN told = Methods

Attempting == point \in {"attempt", "images"}
InCommand == point # "idle"

\* Told of the command that is running.
ToldNow == {f \in UNION {DOMAIN told[m] : m \in Methods} : f.command = commands}

\* A failure the ledger has.
IsKnown(f) == f.image \in Notes!FailedImages(f.url)

\* Each failure is collected once, in the only attempt of a download, and
\* nothing is kept outside of it.
Collected ==
  /\ IsPlain(collected)
  /\ ~(point = "images" /\ ~deferred) => collected = Notes!EmptyBag
  /\ \A f \in DOMAIN collected : f.command = commands /\ f.url = url /\ f.image \notin open /\ IsKnown(f)

\* What is sent is known, and was not told by those that are to send it.
Summary ==
  point = "sending" =>
    /\ IsPlain(message)
    /\ \A f \in DOMAIN message : f.command = commands /\ f.url = url /\ IsKnown(f)
    /\ sending \subseteq Methods
    /\ \A m \in sending : DOMAIN message \cap DOMAIN told[m] = {}
    /\ kind = "workflow" => url \notin unreported

Told ==
  \A m \in Methods :
    /\ IsPlain(told[m])
    /\ \A f \in DOMAIN told[m] : f.command \in 0..commands
    /\ \A f \in DOMAIN told[m] : f.command = commands =>
         IsKnown(f) /\ f.url \in NoteUrls /\ (kind = "workflow" => f.url \notin unreported)

\* No attempt follows what was told: a download has had its attempt, and a
\* workflow reports when its attempts are over.
Final ==
  /\ Attempting => ToldNow = {} /\ (kind = "workflow" <=> deferred)
  /\ kind = "download" /\ (ToldNow # {} \/ Attempting \/ point = "sending") =>
       \E u \in NoteUrls : attempts[u] > 0
  /\ kind = "workflow" /\ unreported # NoteUrls => \A u \in NoteUrls : attempts[u] = Attempts
  /\ unreported \subseteq NoteUrls

\* The inductive invariant.
NotesInv == NotesTyped /\ Collected /\ Summary /\ Told /\ Final

\* What ends an attempt or reports a URL sends what was collected.
LEMMA FlushSends ==
  ASSUME NotesTyped, Told, NEW bag, IsPlain(bag), Notes!Flush(bag, "between"), UNCHANGED <<told, commands, results>>,
         \A f \in DOMAIN bag : f.command = commands /\ f.url = url' /\ IsKnown(f),
         \A m \in Methods : DOMAIN bag \cap DOMAIN told[m] = {},
         kind' = "workflow" => url' \notin unreported'
  PROVE  Collected' /\ Summary' /\ point' \in {"between", "sending"}
<1> USE DEF Notes!Flush
<1>1. \A f : IsKnown(f)' <=> IsKnown(f)
  BY DEF IsKnown, Notes!FailedImages
<1>2. collected' = Notes!EmptyBag /\ IsPlain(collected') /\ DOMAIN collected' = {}
  BY PlainBags
<1>3. Collected'
  BY <1>2 DEF Collected, IsPlain
<1>4. point' = "sending" => message' = bag /\ sending' \subseteq Methods
  OBVIOUS
<1>5. Summary'
  BY <1>1, <1>4 DEF Summary, IsPlain
<1> QED
  BY <1>3, <1>5

LEMMA NotesKept == NotesInv /\ [Notes!NoteNext]_noteVars => NotesInv'
<1> SUFFICES ASSUME NotesInv, [Notes!NoteNext]_noteVars PROVE NotesInv'
  OBVIOUS
<1> USE PartsAssumption DEF Notes!NotificationAssumption, NotesInv
<1>0. CASE UNCHANGED noteVars
  <2>1. \A f : IsKnown(f)' <=> IsKnown(f)
    BY <1>0 DEF noteVars, IsKnown, Notes!FailedImages
  <2>2. Collected' /\ Summary' /\ Told'
    BY <1>0, <2>1 DEF noteVars, Collected, Summary, Told, IsPlain
  <2> QED
    BY <1>0, <2>2 DEF noteVars, NotesTyped, Final, Attempting, ToldNow
<1>1. CASE Notes!Begin
  <2>1. commands' = commands + 1 /\ collected = Notes!EmptyBag /\ DOMAIN collected = {}
    BY <1>1, PlainBags DEF Notes!Begin, Collected
  <2>2. ToldNow' = {}
    BY <1>1, <2>1 DEF Notes!Begin, NotesTyped, Told, ToldNow
  <2>3. NotesTyped'
    BY <1>1 DEF Notes!Begin, NotesTyped
  <2>4. Collected' /\ Summary'
    BY <1>1, <2>1, PlainBags DEF Notes!Begin, Collected, Summary, IsPlain
  <2>5. Told'
    BY <1>1, <2>1 DEF Notes!Begin, Told, NotesTyped, IsPlain
  <2>6. Final'
    BY <1>1, <2>2 DEF Notes!Begin, Final, Attempting
  <2> QED
    BY <2>3, <2>4, <2>5, <2>6
<1>2. ASSUME NEW u \in NoteUrls, Notes!BeginAttempt(u) PROVE NotesInv'
  <2>1. ToldNow = {}
    BY <1>2 DEF Notes!BeginAttempt, Notes!MayAttempt, Final, NotesTyped, ToldNow, Told
  <2>2. ToldNow' = {}
    BY <1>2, <2>1 DEF Notes!BeginAttempt, ToldNow
  <2>3. NotesTyped'
    BY <1>2 DEF Notes!BeginAttempt, NotesTyped
  <2>4. collected' = Notes!EmptyBag /\ DOMAIN collected' = {}
    BY <1>2, PlainBags DEF Notes!BeginAttempt, Collected
  <2>5. Collected' /\ Summary'
    BY <1>2, <2>4, PlainBags DEF Notes!BeginAttempt, Collected, Summary, IsPlain
  <2>6. \A f : IsKnown(f)' <=> IsKnown(f)
    BY <1>2 DEF Notes!BeginAttempt, IsKnown, Notes!FailedImages
  <2>7. Told'
    BY <1>2, <2>6 DEF Notes!BeginAttempt, Told, IsPlain
  <2>8. attempts'[u] > 0 /\ kind' = kind /\ unreported' = unreported /\ point' = "attempt"
        /\ deferred' = (kind = "workflow")
    BY <1>2 DEF Notes!BeginAttempt, NotesTyped
  <2>9. kind = "workflow" => unreported = NoteUrls
    BY <1>2 DEF Notes!BeginAttempt, Notes!MayAttempt, Final, NotesTyped
  <2>10. Final'
    BY <2>2, <2>8, <2>9 DEF Final, Attempting
  <2> QED
    BY <2>3, <2>5, <2>7, <2>10
<1>3. CASE Notes!Inspect
  <2>1. ToldNow = {} /\ ToldNow' = {}
    BY <1>3 DEF Notes!Inspect, Final, Attempting, ToldNow
  <2>2. NotesTyped'
    BY <1>3 DEF Notes!Inspect, NotesTyped
  <2>3. collected' = Notes!EmptyBag /\ DOMAIN collected' = {}
    BY <1>3, PlainBags DEF Notes!Inspect, Collected
  <2>4. Collected' /\ Summary'
    BY <1>3, <2>3, PlainBags DEF Notes!Inspect, Collected, Summary, IsPlain
  <2>5. Told'
    BY <1>3, <2>1 DEF Notes!Inspect, Told, ToldNow, IsPlain
  <2>6. Final'
    BY <1>3, <2>1 DEF Notes!Inspect, Final, Attempting
  <2> QED
    BY <2>2, <2>4, <2>5, <2>6
<1>4. ASSUME NEW i \in PageImages, Notes!ImageSettles(i) PROVE NotesInv'
  <2>1. ToldNow = {} /\ ToldNow' = {}
    BY <1>4 DEF Notes!ImageSettles, Final, Attempting, ToldNow
  <2>2. NotesTyped'
    BY <1>4 DEF Notes!ImageSettles, NotesTyped
  <2>3. Told'
    BY <1>4, <2>1 DEF Notes!ImageSettles, Told, ToldNow, IsPlain
  <2>4. Final' /\ Summary'
    BY <1>4, <2>1 DEF Notes!ImageSettles, Final, Attempting, Summary
  <2>5. PICK o \in {"saved"} \cup Notes!Failures :
          /\ results' = [results EXCEPT ![url][i] = o]
          /\ IF o \in Notes!Failures THEN Notes!Collect(url, i) ELSE UNCHANGED collected
    BY <1>4 DEF Notes!ImageSettles
  <2>6. \A f : f.url = url /\ f.image \notin open /\ IsKnown(f) => f.image \notin open' /\ IsKnown(f)'
    <3> SUFFICES ASSUME NEW f, f.url = url, f.image \notin open, IsKnown(f)
                 PROVE  f.image \notin open' /\ IsKnown(f)'
      OBVIOUS
    <3>1. f.image # i /\ f.image \in PageImages /\ open' \subseteq open /\ url' = url
      BY <1>4 DEF Notes!ImageSettles, IsKnown, Notes!FailedImages
    <3>2. results'[url][f.image] = results[url][f.image]
      BY <2>5, <3>1 DEF NotesTyped
    <3> QED
      BY <3>1, <3>2 DEF IsKnown, Notes!FailedImages
  <2> UNCHANGED <<commands, url, point, deferred>>
    BY <1>4 DEF Notes!ImageSettles
  <2>7. ASSUME UNCHANGED collected PROVE Collected'
    <3>1. IsPlain(collected)' /\ (~(point = "images" /\ ~deferred) => collected = Notes!EmptyBag)'
      BY <2>7 DEF Collected, IsPlain
    <3>2. \A f \in DOMAIN collected' : f.command = commands' /\ f.url = url' /\ f.image \notin open' /\ IsKnown(f)'
      BY <2>6, <2>7 DEF Collected, IsKnown, Notes!FailedImages
    <3> QED
      BY <3>1, <3>2 DEF Collected, IsKnown, Notes!FailedImages
  <2>8. ASSUME o \in Notes!Failures, ~deferred PROVE Collected'
    <3> PICK f : f = Notes!Failure(url, i)
      OBVIOUS
    <3> PICK B : B = Notes!SetToBag({f})
      OBVIOUS
    <3>1. f.command = commands /\ f.url = url /\ f.image = i
      BY DEF Notes!Failure
    <3>2. i \in open /\ i \notin open' /\ point' = "images"
      BY <1>4 DEF Notes!ImageSettles
    <3>3. IsPlain(B) /\ DOMAIN B = {f}
      BY PlainBags
    <3>4. collected' = Notes!(+)(collected, B)
      BY <2>5, <2>8 DEF Notes!Collect
    <3>5. f \notin DOMAIN collected
      BY <3>1, <3>2 DEF Collected
    <3>6. IsPlain(collected)
      BY DEF Collected
    <3>7. IsPlain(Notes!(+)(collected, B)) /\ DOMAIN Notes!(+)(collected, B) = DOMAIN collected \cup {f}
      <4>1. DOMAIN collected \cap DOMAIN B = {}
        BY <3>3, <3>5
      <4> QED
        BY <3>3, <3>6, <4>1, PlainUnion
    <3>8. results'[url][i] = o
      BY <2>5 DEF NotesTyped
    <3>9. IsKnown(f)'
      BY <2>8, <3>1, <3>8 DEF IsKnown, Notes!FailedImages
    <3>10. IsPlain(collected)' /\ (~(point = "images" /\ ~deferred) => collected = Notes!EmptyBag)'
      BY <2>8, <3>2, <3>4, <3>7 DEF IsPlain
    <3>11. \A g \in DOMAIN collected' : g.command = commands' /\ g.url = url' /\ g.image \notin open' /\ IsKnown(g)'
      BY <2>6, <3>1, <3>2, <3>4, <3>7, <3>9 DEF Collected, IsKnown, Notes!FailedImages
    <3> QED
      BY <3>10, <3>11 DEF Collected, IsKnown, Notes!FailedImages
  <2>9. Collected'
    BY <2>5, <2>7, <2>8 DEF Notes!Collect
  <2> QED
    BY <2>2, <2>3, <2>4, <2>9
<1>5. CASE Notes!EndAttempt
  <2>1. ToldNow = {} /\ commands' = commands /\ UNCHANGED told
    BY <1>5 DEF Notes!EndAttempt, Final, Attempting
  <2>2. ToldNow' = {}
    BY <2>1 DEF ToldNow
  <2>3. \A m \in Methods : DOMAIN collected \cap DOMAIN told[m] = {}
    BY <2>1 DEF ToldNow, Collected
  <2>4. kind = "workflow" => collected = Notes!EmptyBag
    BY <1>5 DEF Notes!EndAttempt, Final, Attempting, Collected
  <2>5. ASSUME kind = "workflow" PROVE Collected' /\ Summary'
    <3>1. point' = "between" /\ collected' = Notes!EmptyBag
      BY <1>5, <2>4, <2>5 DEF Notes!EndAttempt, Notes!Flush
    <3>2. IsPlain(collected)' /\ DOMAIN collected' = {}
      BY <3>1, PlainBags DEF IsPlain
    <3>3. Collected'
      BY <3>1, <3>2 DEF Collected
    <3> QED
      BY <3>1, <3>3 DEF Summary
  <2>6. ASSUME kind = "download" PROVE Collected' /\ Summary'
    <3>1. Notes!Flush(collected, "between") /\ UNCHANGED <<told, commands, results, url, kind>>
      BY <1>5 DEF Notes!EndAttempt
    <3>2. IsPlain(collected) /\ \A f \in DOMAIN collected : f.command = commands /\ f.url = url' /\ IsKnown(f)
      BY <3>1 DEF Collected
    <3> QED
      BY <2>3, <2>6, <3>1, <3>2, FlushSends
  <2>7. point' \in {"between", "sending"} /\ Collected' /\ Summary'
    BY <1>5, <2>5, <2>6 DEF NotesTyped, Notes!EndAttempt, Notes!Flush
  <2>8. NotesTyped'
    BY <1>5 DEF Notes!EndAttempt, NotesTyped
  <2>9. \A f : IsKnown(f)' <=> IsKnown(f)
    BY <1>5 DEF Notes!EndAttempt, IsKnown, Notes!FailedImages
  <2>10. Told'
    BY <1>5, <2>9 DEF Notes!EndAttempt, Told, IsPlain
  <2>11. Final'
    BY <1>5, <2>2, <2>7 DEF Notes!EndAttempt, Final, Attempting
  <2> QED
    BY <2>7, <2>8, <2>10, <2>11
<1>6. ASSUME NEW m \in Methods, Notes!Deliver(m) PROVE NotesInv'
  <2>1. point = "sending" /\ m \in sending /\ point' \in {"sending", "between"} /\ sending' = sending \ {m}
    BY <1>6 DEF Notes!Deliver
  <2>2. UNCHANGED <<commands, kind, url, attempts, results, open, unreported, deferred, collected, message>>
    BY <1>6 DEF Notes!Deliver
  <2>3. \A f : IsKnown(f)' <=> IsKnown(f)
    BY <2>2 DEF IsKnown, Notes!FailedImages
  <2>4. told' = told \/ told' = [told EXCEPT ![m] = Notes!(+)(@, message)]
    BY <1>6 DEF Notes!Deliver
  <2>5. IsPlain(Notes!(+)(told[m], message)) /\ DOMAIN Notes!(+)(told[m], message) = DOMAIN told[m] \cup DOMAIN message
    BY <2>1, PlainUnion DEF Summary, Told
  <2>6. \A k \in Methods : k # m => told'[k] = told[k]
    BY <2>4 DEF NotesTyped
  <2>7. IsPlain(told'[m]) /\ DOMAIN told'[m] \in {DOMAIN told[m], DOMAIN told[m] \cup DOMAIN message}
    BY <2>4, <2>5 DEF NotesTyped, Told
  <2>8. NotesTyped'
    BY <2>2, <2>4 DEF NotesTyped
  <2>9. Collected'
    BY <2>1, <2>2, <2>3 DEF Collected, IsPlain
  <2>10. Summary'
    <3>1. IsPlain(message)' <=> IsPlain(message)
      BY <2>2 DEF IsPlain
    <3>2. \A k \in Methods : k \in sending' => k # m /\ k \in sending
      BY <2>1
    <3>3. \A k \in sending' : DOMAIN message' \cap DOMAIN told'[k] = {}
      BY <2>1, <2>2, <2>6, <3>2 DEF Summary
    <3> QED
      BY <2>1, <2>2, <2>3, <3>1, <3>3 DEF Summary
  <2>11. \A f \in DOMAIN message : f.command = commands /\ f.url = url /\ IsKnown(f) /\ (kind = "workflow" => url \notin unreported)
    BY <2>1 DEF Summary
  <2>12. Told'
    <3> SUFFICES ASSUME NEW k \in Methods
                 PROVE  /\ IsPlain(told'[k])
                        /\ \A f \in DOMAIN told'[k] : f.command \in 0..commands
                        /\ \A f \in DOMAIN told'[k] : f.command = commands =>
                             IsKnown(f) /\ f.url \in NoteUrls /\ (kind = "workflow" => f.url \notin unreported)
      BY <2>2, <2>3 DEF Told, IsPlain
    <3>1. CASE k # m
      BY <3>1, <2>6 DEF Told
    <3>2. CASE k = m
      BY <3>2, <2>7, <2>11 DEF Told, NotesTyped
    <3> QED
      BY <3>1, <3>2
  <2>13. Final'
    BY <2>1, <2>2 DEF Final, Attempting
  <2> QED
    BY <2>8, <2>9, <2>10, <2>12, <2>13
<1>7. ASSUME NEW u \in NoteUrls, Notes!ReportItem(u) PROVE NotesInv'
  <2> DEFINE T == {Notes!Failure(u, i) : i \in Notes!FailedImages(u)}
             B == Notes!(+)(collected, Notes!SetToBag(T))
  <2>1. point = "between" /\ kind = "workflow" /\ kind' = kind /\ u \in unreported /\ url' = u /\ unreported' = unreported \ {u}
    BY <1>7 DEF Notes!ReportItem
  <2>2. collected = Notes!EmptyBag /\ IsPlain(collected) /\ DOMAIN collected = {}
    BY <2>1, PlainBags DEF Collected
  <2>3. IsPlain(B) /\ DOMAIN B = T
    BY <2>2, PlainBags, PlainUnion
  <2>4. \A f \in T : f.command = commands /\ f.url = u /\ IsKnown(f)
    BY DEF Notes!Failure, IsKnown
  <2>5. \A m \in Methods : T \cap DOMAIN told[m] = {}
    BY <2>1, <2>4 DEF Told
  <2>6. Notes!Flush(B, "between") /\ UNCHANGED <<told, commands, results>>
    BY <1>7 DEF Notes!ReportItem
  <2> HIDE DEF B, T
  <2>7. Collected' /\ Summary' /\ point' \in {"between", "sending"}
    BY <2>1, <2>3, <2>4, <2>5, <2>6, FlushSends
  <2>8. NotesTyped'
    BY <1>7 DEF Notes!ReportItem, NotesTyped
  <2>9. \A f : IsKnown(f)' <=> IsKnown(f)
    BY <2>6 DEF IsKnown, Notes!FailedImages
  <2>10. Told'
    BY <2>1, <2>6, <2>9 DEF Told, IsPlain
  <2>11. Final'
    BY <1>7, <2>1, <2>7 DEF Notes!ReportItem, Final, Attempting
  <2> QED
    BY <2>7, <2>8, <2>10, <2>11
<1>8. CASE Notes!CancelDelivery
  <2>1. collected' = Notes!EmptyBag /\ DOMAIN collected' = {}
    BY <1>8, PlainBags DEF Notes!CancelDelivery, Collected
  <2>2. Collected' /\ Summary'
    BY <1>8, <2>1, PlainBags DEF Notes!CancelDelivery, Collected, Summary, IsPlain
  <2>3. \A f : IsKnown(f)' <=> IsKnown(f)
    BY <1>8 DEF Notes!CancelDelivery, IsKnown, Notes!FailedImages
  <2>4. Told'
    BY <1>8, <2>3 DEF Notes!CancelDelivery, Told, IsPlain
  <2>5. NotesTyped'
    BY <1>8 DEF Notes!CancelDelivery, NotesTyped
  <2>6. Final'
    BY <1>8 DEF Notes!CancelDelivery, Final, Attempting, NotesTyped
  <2> QED
    BY <2>2, <2>4, <2>5, <2>6
<1>9. CASE Notes!End
  <2>1. collected' = Notes!EmptyBag /\ DOMAIN collected' = {}
    BY <1>9, PlainBags DEF Notes!End, Collected
  <2>2. Collected' /\ Summary'
    BY <1>9, <2>1, PlainBags DEF Notes!End, Collected, Summary, IsPlain
  <2>3. \A f : IsKnown(f)' <=> IsKnown(f)
    BY <1>9 DEF Notes!End, IsKnown, Notes!FailedImages
  <2>4. Told'
    BY <1>9, <2>3 DEF Notes!End, Told, IsPlain
  <2>5. NotesTyped' /\ Final'
    BY <1>9 DEF Notes!End, NotesTyped, Final, Attempting, ToldNow
  <2> QED
    BY <2>2, <2>4, <2>5
<1> QED
  BY <1>0, <1>1, <1>2, <1>3, <1>4, <1>5, <1>6, <1>7, <1>8, <1>9 DEF Notes!NoteNext

\* Over any number of downloads and workflows, attempts and methods, whichever
\* deliveries fail or are cancelled: each failed image is told at most once by a
\* method, only when no attempt can save it any more, in a summary of its own
\* command and URL (notifications.py: _records, defer_download, workflow_item).
THEOREM ToldOnceOnly == AllSpec => []ToldOnce
<1>1. AllInit => NotesInv
  <2> SUFFICES ASSUME Notes!NoteInit PROVE NotesInv
    BY DEF AllInit
  <2>1. IsPlain(Notes!EmptyBag) /\ DOMAIN Notes!EmptyBag = {}
    BY PlainBags
  <2>2. Collected /\ Told
    BY <2>1 DEF Notes!NoteInit, Collected, Told
  <2>3. NotesTyped /\ Summary
    BY DEF Notes!NoteInit, NotesTyped, Summary
  <2>4. ToldNow = {}
    BY <2>1 DEF Notes!NoteInit, ToldNow
  <2>5. Final
    BY <2>4 DEF Notes!NoteInit, Final, Attempting
  <2> QED
    BY <2>2, <2>3, <2>5 DEF NotesInv
<1>2. NotesInv /\ [AllNext]_allVars => NotesInv'
  BY NotesKept, OneMoves
<1>3. NotesInv => ToldOnce
  <2> SUFFICES ASSUME NotesInv PROVE Notes!ToldOnce
    BY DEF ToldOnce
  <2>1. \A m \in Methods : \A f \in DOMAIN told[m] :
          told[m][f] = 1 /\ (f.command = commands => f.image \in Notes!FailedImages(f.url))
    BY DEF NotesInv, Told, IsPlain, IsKnown, Notes!SetToBag
  <2>2. point = "sending" => \A f \in DOMAIN message : f.command = commands /\ f.url = url
    BY DEF NotesInv, Summary
  <2>3. point = "idle" => collected = Notes!EmptyBag
    BY DEF NotesInv, Collected
  <2> QED
    BY <2>1, <2>2, <2>3 DEF Notes!ToldOnce, Notes!BagToSet
<1> QED
  BY <1>1, <1>2, <1>3, PTL DEF AllSpec

-----------------------------------------------------------------------------
(***************************************************************************)
(* The files a plugin asks for (AdditionalFiles).                          *)
(***************************************************************************)

LEMMA FilesMove == [AllNext]_allVars => [Additional!FilesNext]_fileVars
BY DEF AllNext, Moves, Rests, allVars, fileVars

LEMMA SameCount == \A S : Additional!Cardinality(S) = Cardinality(S)
BY DEF Cardinality, Additional!Cardinality

Outcomes == [file : Nat, chapter : Nat, phase : {"receive", "save", "read"},
             status : {"received", "failed", "saved", "skipped", "no_target", "completed"}]
Messages == [file : Nat, chapter : Nat, about : {"received", "saved"},
             status : {"received", "failed", "saved", "skipped"}]

\* A set of places in a list, and what an element behind them all adds.
LEMMA NextPlace ==
  ASSUME NEW S \in SUBSET Nat, IsFiniteSet(S), NEW k \in Nat, \A i \in S : i < k
  PROVE  /\ IsFiniteSet(S \cup {k}) /\ Cardinality(S \cup {k}) = Cardinality(S) + 1
         /\ Additional!Place(k, S \cup {k}) = Cardinality(S) + 1
         /\ \A i \in S : Additional!Place(i, S \cup {k}) = Additional!Place(i, S)
         /\ \A i \in S : Additional!Place(i, S) \in Nat /\ Additional!Place(i, S) <= Cardinality(S)
         /\ Cardinality(S) \in Nat
<1>1. k \notin S
  OBVIOUS
<1>2. IsFiniteSet(S \cup {k}) /\ Cardinality(S \cup {k}) = Cardinality(S) + 1 /\ Cardinality(S) \in Nat
  BY <1>1, FS_AddElement, FS_CardinalityType
<1>3. {j \in S \cup {k} : j <= k} = S \cup {k}
  <2>1. \A j \in S \cup {k} : j <= k
    OBVIOUS
  <2> QED
    BY ONLY <2>1
<1>4. \A i \in S : {j \in S \cup {k} : j <= i} = {j \in S : j <= i}
  OBVIOUS
<1>5. ASSUME NEW i \in S PROVE Additional!Place(i, S) \in Nat /\ Additional!Place(i, S) <= Cardinality(S)
  <2>1. {j \in S : j <= i} \subseteq S
    OBVIOUS
  <2>2. Cardinality({j \in S : j <= i}) \in Nat /\ Cardinality({j \in S : j <= i}) <= Cardinality(S)
    BY <2>1, FS_Subset, FS_CardinalityType
  <2> QED
    BY <2>2, SameCount DEF Additional!Place
<1>6. Additional!Place(k, S \cup {k}) = Cardinality(S) + 1
  BY <1>2, <1>3, SameCount DEF Additional!Place
<1>7. \A i \in S : Additional!Place(i, S \cup {k}) = Additional!Place(i, S)
  BY <1>4 DEF Additional!Place
<1> QED
  BY <1>2, <1>5, <1>6, <1>7

\* What the plugin has heard, in the order of what was tried.
HeardIn(h) == {i \in DOMAIN h : h[i].about = "saved"}
TriedIn(r) == {i \in DOMAIN r : r[i].phase = "save" /\ r[i].status # "no_target"}
Matches(h, r) ==
  \A i \in HeardIn(h), j \in TriedIn(r) :
    Additional!Place(i, HeardIn(h)) = Additional!Place(j, TriedIn(r)) =>
      Additional!Pair(h[i]) = Additional!Pair(r[j])
InOrder(h, r) == Cardinality(HeardIn(h)) = Cardinality(TriedIn(r)) /\ Matches(h, r)

\* It will hear of one more.
OneUntold(h, r) == Cardinality(TriedIn(r)) = Cardinality(HeardIn(h)) + 1 /\ Matches(h, r)

LEMMA OrderIs ==
  Additional!ToldInOrder <=>
    \/ InOrder(heard, outcomes)
    \/ OneUntold(heard, outcomes) /\ (fileAt \in {"read", "report"} \/ filesDoing = "stopped")
<1>1. /\ Additional!HeardOf = HeardIn(heard) /\ Additional!Tried = TriedIn(outcomes)
      /\ Additional!Cardinality(HeardIn(heard)) = Cardinality(HeardIn(heard))
      /\ Additional!Cardinality(TriedIn(outcomes)) = Cardinality(TriedIn(outcomes))
  BY SameCount DEF Additional!HeardOf, Additional!Tried, HeardIn, TriedIn
<1>2. Matches(heard, outcomes) <=>
        \A i \in Additional!HeardOf, j \in Additional!Tried :
          Additional!Place(i, Additional!HeardOf) = Additional!Place(j, Additional!Tried) =>
            Additional!Pair(heard[i]) = Additional!Pair(outcomes[j])
  BY <1>1 DEF Matches
<1> QED
  BY <1>1, <1>2 DEF Additional!ToldInOrder, InOrder, OneUntold

\* Lists that differ in nothing that is told or tried.
LEMMA SameOrder ==
  ASSUME NEW h, NEW r, NEW g, NEW q, InOrder(h, r),
         HeardIn(g) = HeardIn(h), TriedIn(q) = TriedIn(r),
         \A i \in HeardIn(h) : g[i] = h[i], \A i \in TriedIn(r) : q[i] = r[i]
  PROVE  InOrder(g, q)
BY DEF InOrder, Matches

\* Lists in which one more save was tried and told.
LEMMA NextInOrder ==
  ASSUME NEW h, NEW r, NEW g, NEW q, InOrder(h, r), NEW k \in Nat, NEW l \in Nat,
         HeardIn(h) \in SUBSET Nat, IsFiniteSet(HeardIn(h)), \A i \in HeardIn(h) : i < k,
         TriedIn(r) \in SUBSET Nat, IsFiniteSet(TriedIn(r)), \A i \in TriedIn(r) : i < l,
         HeardIn(g) = HeardIn(h) \cup {k}, TriedIn(q) = TriedIn(r) \cup {l},
         \A i \in HeardIn(h) : g[i] = h[i], \A i \in TriedIn(r) : q[i] = r[i],
         Additional!Pair(g[k]) = Additional!Pair(q[l])
  PROVE  InOrder(g, q)
<1> DEFINE H == HeardIn(h)
           T == TriedIn(r)
<1>1. H \in SUBSET Nat /\ IsFiniteSet(H) /\ (\A i \in H : i < k) /\ k \in Nat
  OBVIOUS
<1>2. T \in SUBSET Nat /\ IsFiniteSet(T) /\ (\A i \in T : i < l) /\ l \in Nat
  OBVIOUS
<1>3. /\ Cardinality(H \cup {k}) = Cardinality(H) + 1 /\ Cardinality(H) \in Nat
      /\ Additional!Place(k, H \cup {k}) = Cardinality(H) + 1
      /\ \A i \in H : Additional!Place(i, H \cup {k}) = Additional!Place(i, H)
      /\ \A i \in H : Additional!Place(i, H) \in Nat /\ Additional!Place(i, H) <= Cardinality(H)
  BY ONLY <1>1, NextPlace
<1>4. /\ Cardinality(T \cup {l}) = Cardinality(T) + 1 /\ Cardinality(T) \in Nat
      /\ Additional!Place(l, T \cup {l}) = Cardinality(T) + 1
      /\ \A i \in T : Additional!Place(i, T \cup {l}) = Additional!Place(i, T)
      /\ \A i \in T : Additional!Place(i, T) \in Nat /\ Additional!Place(i, T) <= Cardinality(T)
  BY ONLY <1>2, NextPlace
<1>5. Cardinality(H) = Cardinality(T)
  BY DEF InOrder
<1>6. ASSUME NEW i \in H \cup {k}, NEW j \in T \cup {l},
             Additional!Place(i, H \cup {k}) = Additional!Place(j, T \cup {l})
      PROVE  Additional!Pair(g[i]) = Additional!Pair(q[j])
  <2>1. CASE i = k /\ j = l
    BY <2>1
  <2>2. CASE i \in H /\ j \in T
    <3>1. Additional!Place(i, H) = Additional!Place(j, T)
      BY <1>3, <1>4, <1>6, <2>2
    <3>2. Additional!Pair(h[i]) = Additional!Pair(r[j])
      BY <2>2, <3>1 DEF InOrder, Matches
    <3> QED
      BY <2>2, <3>2
  <2>3. ASSUME i \in H, j = l PROVE FALSE
    <3>1. Additional!Place(i, H \cup {k}) <= Cardinality(H) /\ Additional!Place(j, T \cup {l}) = Cardinality(T) + 1
      BY <1>3, <1>4, <2>3
    <3> QED
      BY ONLY <1>3, <1>5, <1>6, <3>1
  <2>4. ASSUME i = k, j \in T PROVE FALSE
    <3>1. Additional!Place(j, T \cup {l}) <= Cardinality(T) /\ Additional!Place(i, H \cup {k}) = Cardinality(H) + 1
      BY <1>3, <1>4, <2>4
    <3> QED
      BY ONLY <1>4, <1>5, <1>6, <3>1
  <2> QED
    BY <2>1, <2>2, <2>3, <2>4
<1>7. Cardinality(H \cup {k}) = Cardinality(T \cup {l})
  BY <1>3, <1>4, <1>5
<1> QED
  BY <1>6, <1>7 DEF InOrder, Matches

\* What a message adds.
LEMMA HeardNext ==
  ASSUME NEW h \in Seq(Messages), NEW m \in Messages
  PROVE  /\ Append(h, m) \in Seq(Messages) /\ Len(Append(h, m)) = Len(h) + 1 /\ Append(h, m)[Len(h) + 1] = m
         /\ \A i \in 1..Len(h) : Append(h, m)[i] = h[i]
         /\ HeardIn(Append(h, m)) = IF m.about = "saved" THEN HeardIn(h) \cup {Len(h) + 1} ELSE HeardIn(h)
         /\ HeardIn(h) \in SUBSET Nat /\ IsFiniteSet(HeardIn(h)) /\ \A i \in HeardIn(h) : i < Len(h) + 1 /\ i \in 1..Len(h)
<1>0. DOMAIN h = 1..Len(h) /\ Len(h) \in Nat
  OBVIOUS
<1>1. HeardIn(h) \subseteq 1..Len(h) /\ IsFiniteSet(1..Len(h))
  <2>1. IsFiniteSet(1..Len(h))
    BY <1>0, FS_Interval
  <2>2. HeardIn(h) \subseteq DOMAIN h
    BY DEF HeardIn
  <2> QED
    BY <1>0, <2>1, <2>2
<1>2. IsFiniteSet(HeardIn(h))
  BY <1>1, FS_Subset
<1>3. Append(h, m) \in Seq(Messages) /\ Len(Append(h, m)) = Len(h) + 1 /\ Append(h, m)[Len(h) + 1] = m
         /\ \A i \in 1..Len(h) : Append(h, m)[i] = h[i]
  OBVIOUS
<1>4. HeardIn(Append(h, m)) = IF m.about = "saved" THEN HeardIn(h) \cup {Len(h) + 1} ELSE HeardIn(h)
  <2>1. DOMAIN Append(h, m) = 1..(Len(h) + 1) /\ DOMAIN h = 1..Len(h)
    OBVIOUS
  <2> QED
    BY <1>3, <2>1 DEF HeardIn
<1> QED
  BY <1>1, <1>2, <1>3, <1>4

\* Without the last message the last save that was tried is not told.
LEMMA OneIsComing ==
  ASSUME NEW h \in Seq(Messages), NEW m \in Messages, m.about = "saved", NEW r, InOrder(Append(h, m), r)
  PROVE  OneUntold(h, r)
<1> DEFINE g == Append(h, m)
           H == HeardIn(h)
           k == Len(h) + 1
<1>1. /\ HeardIn(g) = H \cup {k} /\ H \in SUBSET Nat /\ IsFiniteSet(H) /\ k \in Nat
      /\ \A i \in H : i < k /\ g[i] = h[i]
  BY HeardNext
<1> HIDE DEF g, H, k
<1>2. /\ Cardinality(H \cup {k}) = Cardinality(H) + 1
      /\ \A i \in H : Additional!Place(i, H \cup {k}) = Additional!Place(i, H)
  BY ONLY <1>1, NextPlace
<1>3. Cardinality(TriedIn(r)) = Cardinality(H) + 1
  BY <1>1, <1>2 DEF InOrder, g
<1>4. Matches(g, r)
  BY DEF InOrder, g
<1>5. ASSUME NEW i \in H, NEW j \in TriedIn(r), Additional!Place(i, H) = Additional!Place(j, TriedIn(r))
      PROVE  Additional!Pair(h[i]) = Additional!Pair(r[j])
  <2>1. Additional!Place(i, HeardIn(g)) = Additional!Place(j, TriedIn(r)) /\ i \in HeardIn(g)
    BY <1>1, <1>2, <1>5
  <2>2. Additional!Pair(g[i]) = Additional!Pair(r[j])
    BY <1>4, <2>1 DEF Matches
  <2> QED
    BY <1>1, <2>2
<1> QED
  BY <1>3, <1>5 DEF OneUntold, Matches, H

\* One outcome more.
Added(r, o, q) == o \in Outcomes /\ q = Append(r, o)

LEMMA Adds ==
  ASSUME NEW r \in Seq(Outcomes), NEW new, NEW q, Added(r, new, q)
  PROVE  /\ q \in Seq(Outcomes) /\ Len(q) = Len(r) + 1 /\ Len(r) \in Nat
         /\ DOMAIN r = 1..Len(r) /\ DOMAIN q = 1..(Len(r) + 1)
         /\ q[Len(r) + 1] = new /\ Len(r) + 1 \in DOMAIN q
         /\ \A i \in 1..Len(r) : q[i] = r[i] /\ i \in DOMAIN q
BY DEF Added

LEMMA TriedNext ==
  ASSUME NEW r \in Seq(Outcomes), NEW new, NEW q, Added(r, new, q)
  PROVE  /\ TriedIn(q) = IF new.phase = "save" /\ new.status # "no_target"
                         THEN TriedIn(r) \cup {Len(r) + 1} ELSE TriedIn(r)
         /\ TriedIn(r) \in SUBSET Nat /\ IsFiniteSet(TriedIn(r)) /\ \A i \in TriedIn(r) : i < Len(r) + 1 /\ i \in 1..Len(r)
<1>0. DOMAIN r = 1..Len(r) /\ Len(r) \in Nat
  OBVIOUS
<1>1. TriedIn(r) \subseteq 1..Len(r) /\ IsFiniteSet(1..Len(r))
  <2>1. IsFiniteSet(1..Len(r))
    BY <1>0, FS_Interval
  <2>2. TriedIn(r) \subseteq DOMAIN r
    BY DEF TriedIn
  <2> QED
    BY <1>0, <2>1, <2>2
<1>2. IsFiniteSet(TriedIn(r))
  BY <1>1, FS_Subset
<1>3. TriedIn(q) = IF new.phase = "save" /\ new.status # "no_target"
                   THEN TriedIn(r) \cup {Len(r) + 1} ELSE TriedIn(r)
  <2>1. /\ DOMAIN q = 1..(Len(r) + 1) /\ q[Len(r) + 1] = new
        /\ \A i \in 1..Len(r) : q[i] = r[i]
    BY Adds
  <2> QED
    BY <1>0, <2>1 DEF TriedIn
<1> QED
  BY <1>0, <1>1, <1>2, <1>3

\* A save is tried and told.
LEMMA OrderGrows ==
  ASSUME NEW h \in Seq(Messages), NEW r \in Seq(Outcomes), InOrder(h, r), NEW m \in Messages, NEW new, NEW q,
         Added(r, new, q), m.about = "saved", new.phase = "save", new.status # "no_target",
         Additional!Pair(m) = Additional!Pair(new)
  PROVE  InOrder(Append(h, m), q)
<1> DEFINE g == Append(h, m)
<1>1. g[Len(h) + 1] = m /\ (\A i \in 1..Len(h) : g[i] = h[i]) /\ HeardIn(g) = HeardIn(h) \cup {Len(h) + 1}
      /\ HeardIn(h) \in SUBSET Nat /\ IsFiniteSet(HeardIn(h)) /\ \A i \in HeardIn(h) : i < Len(h) + 1 /\ i \in 1..Len(h)
  BY HeardNext
<1>2. q[Len(r) + 1] = new /\ \A i \in 1..Len(r) : q[i] = r[i]
  BY Adds
<1>3. TriedIn(q) = TriedIn(r) \cup {Len(r) + 1}
      /\ TriedIn(r) \in SUBSET Nat /\ IsFiniteSet(TriedIn(r)) /\ \A i \in TriedIn(r) : i < Len(r) + 1 /\ i \in 1..Len(r)
  BY TriedNext
<1>4. Len(h) + 1 \in Nat /\ Len(r) + 1 \in Nat
  OBVIOUS
<1> HIDE DEF g
<1>5. \A i \in HeardIn(h) : g[i] = h[i]
  BY <1>1
<1>6. \A i \in TriedIn(r) : q[i] = r[i]
  BY <1>2, <1>3
<1>7. InOrder(g, q)
  BY <1>1, <1>2, <1>3, <1>4, <1>5, <1>6, NextInOrder
<1> QED
  BY <1>7 DEF g

\* How a file was settled according to a list of outcomes.
SettlementsIn(r, f) == {i \in DOMAIN r : r[i].phase = "save" /\ r[i].file = f}
Settled(r, f, of) ==
  /\ \A i \in SettlementsIn(r, f) : r[i].chapter \in of
  /\ \A c \in of : \E i \in SettlementsIn(r, f) : \A j \in SettlementsIn(r, f) : r[j].chapter = c <=> j = i

\* The receipt o of a file that is done with, n chapters having been found.
DoneWith(r, o, n) ==
  IF o.status = "failed" THEN Settled(r, o.file, {})
  ELSE IF o.chapter > 0 THEN Settled(r, o.file, {o.chapter})
  ELSE \/ Settled(r, o.file, {0}) /\ \A i \in SettlementsIn(r, o.file) : r[i].status \in {"failed", "no_target"}
       \/ n > 0 /\ Settled(r, o.file, 1..n)

LEMMA SettledIs ==
  /\ \A f, of : Additional!SettledIn(f, of) <=> Settled(outcomes, f, of)
  /\ \A o : Additional!IsSettled(o) <=> DoneWith(outcomes, o, chapters)
<1>1. \A f : Additional!Settlements(f) = SettlementsIn(outcomes, f)
  BY DEF Additional!Settlements, SettlementsIn
<1>2. \A f, of : Additional!SettledIn(f, of) <=> Settled(outcomes, f, of)
  BY <1>1 DEF Additional!SettledIn, Settled
<1> QED
  BY <1>1, <1>2 DEF Additional!IsSettled, DoneWith

\* What is recorded of another file, or of no save, settles nothing.
LEMMA OthersStay ==
  ASSUME NEW r \in Seq(Outcomes), NEW new, NEW q, Added(r, new, q), NEW f, new.phase # "save" \/ new.file # f
  PROVE  /\ SettlementsIn(q, f) = SettlementsIn(r, f)
         /\ \A i \in SettlementsIn(r, f) : q[i] = r[i]
         /\ \A of : Settled(q, f, of) <=> Settled(r, f, of)
         /\ \A o, n : o.file = f => (DoneWith(q, o, n) <=> DoneWith(r, o, n))
<1>0. /\ DOMAIN r = 1..Len(r) /\ DOMAIN q = 1..(Len(r) + 1) /\ q[Len(r) + 1] = new /\ Len(r) \in Nat
      /\ \A i \in 1..Len(r) : q[i] = r[i]
  BY Adds
<1>1. \A i \in DOMAIN r : q[i] = r[i] /\ i \in DOMAIN q
  BY <1>0
<1>2. \A i \in DOMAIN q : i \in DOMAIN r \/ q[i].phase # "save" \/ q[i].file # f
  BY <1>0
<1>3. SettlementsIn(q, f) = SettlementsIn(r, f)
  BY <1>1, <1>2 DEF SettlementsIn
<1>4. \A i \in SettlementsIn(r, f) : q[i] = r[i]
  BY <1>1 DEF SettlementsIn
<1>5. \A of : Settled(q, f, of) <=> Settled(r, f, of)
  BY <1>3, <1>4 DEF Settled
<1>6. \A o, n : o.file = f => (DoneWith(q, o, n) <=> DoneWith(r, o, n))
  BY <1>3, <1>4, <1>5 DEF DoneWith
<1> QED
  BY <1>3, <1>4, <1>5, <1>6

\* A save settles its file for one chapter more.
LEMMA OneSettlesMore ==
  ASSUME NEW r \in Seq(Outcomes), NEW new, NEW q, Added(r, new, q), NEW of, Settled(r, new.file, of),
         new.phase = "save", new.chapter \notin of
  PROVE  /\ Settled(q, new.file, of \cup {new.chapter})
         /\ SettlementsIn(q, new.file) = SettlementsIn(r, new.file) \cup {Len(r) + 1}
         /\ q[Len(r) + 1] = new
<1> DEFINE f == new.file
           k == Len(r) + 1
           S == SettlementsIn(r, f)
<1>1. DOMAIN r = 1..Len(r) /\ Len(r) \in Nat
  OBVIOUS
<1>2. (\A i \in DOMAIN r : q[i] = r[i] /\ i \in DOMAIN q) /\ k \in DOMAIN q /\ q[k] = new
  BY Adds
<1>3. \A i \in DOMAIN q : i \in DOMAIN r \/ i = k
  BY <1>1, Adds
<1>4. SettlementsIn(q, f) = S \cup {k}
  BY <1>2, <1>3 DEF SettlementsIn
<1>5. (\A i \in S : q[i] = r[i]) /\ k \notin S
  BY <1>1, <1>2 DEF SettlementsIn
<1>6. \A i \in S : r[i].chapter \in of
  BY DEF Settled
<1>7. \A i \in S \cup {k} : q[i].chapter \in of \cup {new.chapter}
  BY <1>2, <1>5, <1>6
<1>8. ASSUME NEW c \in of
      PROVE  \E i \in S \cup {k} : \A j \in S \cup {k} : q[j].chapter = c <=> j = i
  <2>1. PICK i \in S : \A j \in S : r[j].chapter = c <=> j = i
    BY DEF Settled
  <2>2. \A j \in S \cup {k} : q[j].chapter = c <=> j = i
    BY <1>2, <1>5, <2>1
  <2> QED
    BY <2>1, <2>2
<1>9. \A j \in S \cup {k} : q[j].chapter = new.chapter <=> j = k
  BY <1>2, <1>5, <1>6
<1>10. Settled(q, f, of \cup {new.chapter})
  <2> HIDE DEF S, k, f
  <2> QED
    BY <1>4, <1>7, <1>8, <1>9 DEF Settled
<1> QED
  BY <1>2, <1>4, <1>10

\* A file at hand is not settled yet, or is settled and not told.
Unsettled == {"receive", "tell", "keep", "save"}
Untold == {"read", "report"}

FilesTyped ==
  /\ specs \in Nat /\ named \in Nat /\ chapters \in Nat /\ chapter \in 0..chapters
  /\ fileAt \in {"none"} \cup Unsettled \cup Untold
  /\ kept \in Seq(Nat)
  /\ outcomes \in Seq(Outcomes)
  /\ heard \in Seq(Messages)

\* Chapters come with the manifest, and what was kept before it goes with it.
StagesFit ==
  /\ filesDoing \in {"declare", "before_manifest", "inspect"} => chapters = 0
  /\ filesDoing \in {"after_manifest", "after_download", "ended"} => kept = <<>>
  /\ filesDoing \in {"after_manifest", "after_download"} => chapter > 0
  /\ filesDoing = "flush" /\ chapters > 0 => chapter > 0
  /\ fileAt \in Unsettled \/ specs > 0 => filesDoing \in Additional!Hooks
  /\ fileAt = "keep" => filesDoing = "before_manifest"
  /\ fileAt = "save" => filesDoing \in {"after_manifest", "after_download"}
  /\ fileAt \in Untold => \/ filesDoing \in Additional!Hooks
                          \/ filesDoing = "flush" /\ kept # <<>> /\ chapters > 0

IsKept(f) == \E n \in DOMAIN kept : kept[n] = f
HeardReceived(f) ==
  \E j \in DOMAIN heard : heard[j].about = "received" /\ heard[j].file = f /\ heard[j].status = "received"

\* Files are numbered as they are named, and each is received once.
FilesKnown ==
  /\ \A n \in DOMAIN kept : kept[n] <= named /\ (fileAt \in Unsettled => kept[n] < named)
  /\ \A m, n \in DOMAIN kept : kept[m] = kept[n] => m = n
  /\ \A i \in DOMAIN outcomes : outcomes[i].file <= named /\ (fileAt = "receive" => outcomes[i].file < named)
  /\ fileAt = "tell" => /\ outcomes # <<>> /\ outcomes[Len(outcomes)].phase = "receive"
                        /\ outcomes[Len(outcomes)].file = named
                        /\ outcomes[Len(outcomes)].status \in {"received", "failed"}
  /\ \A i, j \in DOMAIN outcomes :
       outcomes[i].phase = "receive" /\ outcomes[j].phase = "receive" /\ outcomes[i].file = outcomes[j].file => i = j
  /\ fileAt \in {"keep", "save"} => HeardReceived(named)
  /\ \A n \in DOMAIN kept : HeardReceived(kept[n])

\* The chapters a file that was kept has been saved in.
FlushedTo(f) == IF f = Head(kept) THEN 1..(IF fileAt \in Untold THEN chapter ELSE chapter - 1) ELSE {}

\* What is kept waits for the chapters that are left, the file at hand is not
\* settled before its outcome, and every other file is.
ReceiptFits(o) ==
  IF IsKept(o.file) THEN o.status = "received" /\ o.chapter = 0 /\ Settled(outcomes, o.file, FlushedTo(o.file))
  ELSE IF fileAt \in Unsettled /\ o.file = named
       THEN /\ o.chapter = chapter /\ (fileAt # "tell" => o.status = "received")
            /\ Settled(outcomes, o.file, {})
       ELSE DoneWith(outcomes, o, chapters)

ReceiptsFit == \A i \in DOMAIN outcomes : outcomes[i].phase = "receive" => ReceiptFits(outcomes[i])

HeardAfterReceipt ==
  \A i \in HeardIn(heard) :
    \E j \in 1..(i - 1) : heard[j].about = "received" /\ heard[j].file = heard[i].file
                         /\ heard[j].status = "received"
SavedIsWritten ==
  \A i \in DOMAIN outcomes : outcomes[i].status = "saved" => <<outcomes[i].file, outcomes[i].chapter>> \in written

\* The message the plugin is about to hear, with which all is in order.
Coming == Additional!Message(Additional!AtHand, "saved", Additional!LastSave.status)
ComingFits ==
  /\ Coming \in Messages /\ HeardReceived(Additional!AtHand)
  /\ fileAt = "read" => outcomes # <<>> /\ outcomes[Len(outcomes)].phase # "read"
  /\ InOrder(Append(heard, Coming), outcomes)
ToldFits ==
  IF fileAt \in Untold THEN ComingFits
  ELSE \/ InOrder(heard, outcomes)
       \/ filesDoing = "stopped" /\ OneUntold(heard, outcomes)
RecordsFit == ToldFits /\ HeardAfterReceipt /\ SavedIsWritten

\* The inductive invariant.
FilesFit == StagesFit /\ FilesKnown /\ ReceiptsFit
FilesInv ==
  /\ FilesTyped
  /\ IF filesDoing = "stopped" THEN specs = 0 /\ fileAt = "none" ELSE FilesFit
  /\ RecordsFit

LEMMA ElementsAre ==
  ASSUME FilesTyped
  PROVE  /\ \A i \in DOMAIN outcomes : outcomes[i] \in Outcomes /\ outcomes[i].file \in Nat /\ outcomes[i].chapter \in Nat
         /\ \A i \in DOMAIN heard : heard[i] \in Messages /\ heard[i].file \in Nat
<1>1. (\A i \in DOMAIN outcomes : outcomes[i] \in Outcomes) /\ (\A i \in DOMAIN heard : heard[i] \in Messages)
  BY DEF FilesTyped
<1> QED
  BY <1>1 DEF Outcomes, Messages

\* A hook ends, or its file: the chapter changes only when nothing is kept.
LEMMA HookEnds ==
  ASSUME FilesTyped, StagesFit, Additional!AfterHook, filesDoing \in Additional!Hooks,
         UNCHANGED <<chapters>>
  PROVE  /\ chapter' \in 0..chapters /\ filesDoing' \in {"before_manifest", "inspect", "after_manifest", "after_download", "ended"}
         /\ kept # <<>> => chapter' = chapter /\ filesDoing' = "inspect"
         /\ filesDoing' \in {"before_manifest", "inspect"} => chapters = 0
         /\ filesDoing' \in {"after_manifest", "after_download"} => chapter' > 0
BY DEF FilesTyped, StagesFit, Additional!AfterHook, Additional!Hooks

\* Steps that neither name nor receive nor settle a file.
LEMMA NothingSettled ==
  ASSUME FilesTyped, FilesFit, UNCHANGED <<kept, chapters, outcomes, heard>>,
         kept # <<>> \/ fileAt # "none" => chapter' = chapter,
         named' = named /\ fileAt' = fileAt
  PROVE  FilesKnown' /\ ReceiptsFit'
<1>1. FilesKnown'
  BY DEF FilesFit, FilesKnown, HeardReceived
<1>2. ASSUME NEW i \in DOMAIN outcomes, outcomes[i].phase = "receive"
      PROVE  ReceiptFits(outcomes[i])'
  <2>1. ReceiptFits(outcomes[i])
    BY <1>2 DEF FilesFit, ReceiptsFit
  <2>2. IsKept(outcomes[i].file)' <=> IsKept(outcomes[i].file)
    BY DEF IsKept
  <2>3. IsKept(outcomes[i].file) => FlushedTo(outcomes[i].file)' = FlushedTo(outcomes[i].file)
    BY DEF IsKept, FlushedTo
  <2>4. fileAt \in Unsettled => fileAt # "none" /\ fileAt' \in Unsettled
    BY DEF Unsettled
  <2>5. fileAt' \in Unsettled => fileAt \in Unsettled
    BY DEF Unsettled
  <2> QED
    BY <2>1, <2>2, <2>3, <2>4, <2>5 DEF ReceiptFits
<1> QED
  BY <1>1, <1>2 DEF ReceiptsFit

\* What is recorded, told and written, where nothing is added to it.
LEMMA NothingAdded ==
  ASSUME FilesTyped, RecordsFit, UNCHANGED <<outcomes, heard>>, written \subseteq written',
         \/ /\ fileAt \notin Untold /\ fileAt' \notin Untold
            /\ filesDoing = "stopped" => filesDoing' = "stopped"
         \/ UNCHANGED <<fileAt, filesDoing, kept, named, chapter>>
  PROVE  RecordsFit'
<1>1. HeardAfterReceipt' /\ SavedIsWritten'
  BY DEF RecordsFit, HeardAfterReceipt, SavedIsWritten
<1>2. CASE fileAt \notin Untold /\ fileAt' \notin Untold /\ (filesDoing = "stopped" => filesDoing' = "stopped")
  BY <1>1, <1>2 DEF RecordsFit, ToldFits
<1>3. CASE UNCHANGED <<fileAt, filesDoing, kept, named, chapter>>
  <2>1. Coming' = Coming /\ (HeardReceived(Additional!AtHand))' = HeardReceived(Additional!AtHand)
    BY <1>3 DEF Coming, Additional!Message, Additional!AtHand, Additional!LastSave, HeardReceived
  <2>2. ComingFits' <=> ComingFits
    BY <1>3, <2>1 DEF ComingFits
  <2> QED
    BY <1>1, <1>3, <2>2 DEF RecordsFit, ToldFits
<1> QED
  BY <1>1, <1>2, <1>3 DEF RecordsFit

LEMMA HooksGoOn ==
  ASSUME FilesInv,
         \/ Additional!Declare \/ Additional!HookNamesNothing \/ Additional!RejectSpec \/ Additional!FlushEnds
         \/ Additional!RemoveTemporary \/ UNCHANGED fileVars
         \/ \E n \in 1..MaxFiles : Additional!HookNames(n)
  PROVE  FilesInv'
<1> USE PartsAssumption DEF Additional!FilesAssumption
<1>1. UNCHANGED <<kept, chapters, outcomes, heard, written, named, fileAt>>
  BY DEF Additional!Declare, Additional!HookNamesNothing, Additional!RejectSpec, Additional!FlushEnds,
    Additional!RemoveTemporary, Additional!HookNames, fileVars
<1>2. RecordsFit'
  <2>1. FilesTyped /\ RecordsFit /\ (filesDoing = "stopped" => fileAt = "none")
    BY DEF FilesInv
  <2>2. \/ UNCHANGED <<fileAt, filesDoing, kept, named, chapter>>
        \/ fileAt = "none" /\ filesDoing # "stopped"
    <3>1. CASE Additional!Declare
      BY <1>1, <2>1, <3>1 DEF FilesInv, FilesFit, FilesTyped, StagesFit, Additional!Declare, Additional!Hooks, Unsettled,
        Untold
    <3>2. CASE ~Additional!Declare
      BY <1>1, <3>2 DEF Additional!HookNamesNothing, Additional!RejectSpec, Additional!FlushEnds, Additional!Idle,
        Additional!RemoveTemporary, Additional!HookNames, Additional!Hooks, fileVars, FilesInv
    <3> QED
      BY <3>1, <3>2
  <2>3. "none" \notin Untold
    BY DEF Untold
  <2> QED
    BY <1>1, <2>1, <2>2, <2>3, NothingAdded
<1>3. CASE filesDoing = "stopped"
  <2>1. filesDoing' = "stopped" /\ UNCHANGED <<specs, chapter>>
    BY <1>3 DEF Additional!Declare, Additional!HookNamesNothing, Additional!RejectSpec, Additional!FlushEnds,
      Additional!RemoveTemporary, Additional!HookNames, fileVars, Additional!Hooks, FilesInv
  <2>2. FilesTyped' /\ specs' = 0 /\ fileAt' = "none"
    BY <1>1, <1>3, <2>1 DEF FilesInv, FilesTyped
  <2> QED
    BY <1>2, <2>1, <2>2 DEF FilesInv
<1>4. CASE filesDoing # "stopped"
  <2> USE DEF FilesInv, FilesFit
  <2>1. /\ specs' \in Nat /\ chapter' \in 0..chapters /\ filesDoing' # "stopped" /\ StagesFit'
        /\ kept # <<>> \/ fileAt # "none" => chapter' = chapter
    <3>1. CASE Additional!AfterHook /\ filesDoing \in Additional!Hooks /\ fileAt = "none" /\ specs' = 0
      BY <1>1, <1>4, <3>1, HookEnds DEF StagesFit, FilesTyped, Additional!Hooks, Unsettled, Untold
    <3>2. CASE UNCHANGED chapter /\ filesDoing' = filesDoing /\ (specs' = specs \/ (filesDoing \in Additional!Hooks /\ specs' \in Nat))
      BY <1>1, <1>4, <3>2 DEF StagesFit, FilesTyped
    <3>3. CASE Additional!Declare
      BY <1>1, <3>3 DEF StagesFit, FilesTyped, Additional!Declare, Additional!Hooks
    <3>4. CASE Additional!FlushEnds
      BY <1>1, <3>4 DEF StagesFit, FilesTyped, Additional!FlushEnds, Additional!Hooks
    <3>5. CASE Additional!HookNamesNothing
      BY <3>1, <3>5 DEF Additional!HookNamesNothing, Additional!Idle
    <3>6. CASE Additional!RejectSpec
      <4>1. specs - 1 \in Nat /\ filesDoing \in Additional!Hooks
        BY <1>4, <3>6 DEF Additional!RejectSpec, FilesTyped, StagesFit
      <4> QED
        BY <3>1, <3>2, <3>6, <4>1 DEF Additional!RejectSpec, FilesTyped
    <3>7. CASE \E n \in 1..MaxFiles : Additional!HookNames(n)
      BY <3>2, <3>7 DEF Additional!HookNames
    <3>8. CASE Additional!RemoveTemporary \/ UNCHANGED fileVars
      BY <3>2, <3>8 DEF Additional!RemoveTemporary, fileVars, FilesTyped
    <3> QED
      BY <3>3, <3>4, <3>5, <3>6, <3>7, <3>8
  <2>2. FilesTyped'
    BY <1>1, <2>1 DEF FilesTyped
  <2>3. FilesKnown' /\ ReceiptsFit'
    <3>1. FilesTyped /\ FilesFit
      BY <1>4
    <3> QED
      BY <1>1, <2>1, <3>1, NothingSettled
  <2>4. FilesFit'
    BY <2>1, <2>3
  <2> QED
    BY <1>2, <2>1, <2>2, <2>4
<1> QED
  BY <1>3, <1>4
LEMMA AllAreSettled == FilesTyped /\ FilesFit /\ filesDoing = "ended" => Additional!SettledOnce
<1> SUFFICES ASSUME FilesTyped, FilesFit, filesDoing = "ended",
                    NEW i \in DOMAIN outcomes, outcomes[i].phase = "receive"
             PROVE  Additional!IsSettled(outcomes[i])
  BY DEF Additional!SettledOnce
<1>1. ~IsKept(outcomes[i].file) /\ fileAt \notin Unsettled
  BY DEF FilesFit, StagesFit, IsKept, Additional!Hooks
<1> QED
  BY <1>1, SettledIs DEF FilesFit, ReceiptsFit, ReceiptFits

\* A file is named, and nothing is known of it.
LEMMA FileBegins ==
  ASSUME FilesInv, Additional!BeginFile
  PROVE  FilesInv'
<1> USE DEF Additional!BeginFile
<1>1. RecordsFit'
  BY NothingAdded DEF FilesInv, Untold
<1>2. FilesTyped /\ FilesFit /\ filesDoing # "stopped"
  BY DEF FilesInv, FilesTyped
<1>3. FilesTyped' /\ StagesFit'
  BY <1>2 DEF FilesTyped, FilesFit, StagesFit, Unsettled, Untold
<1>4. FilesKnown'
  <2>1. named \in Nat /\ \A n \in DOMAIN kept : kept[n] \in Nat
    BY <1>2 DEF FilesTyped
  <2>2. \A i \in DOMAIN outcomes : outcomes[i].file \in Nat
    BY <1>2, ElementsAre
  <2> QED
    BY <1>2, <2>1, <2>2 DEF FilesFit, FilesKnown, HeardReceived, Unsettled
<1>5. ASSUME NEW i \in DOMAIN outcomes, outcomes[i].phase = "receive"
      PROVE  ReceiptFits(outcomes[i])'
  <2>1. ReceiptFits(outcomes[i]) /\ outcomes[i].file <= named /\ outcomes[i].file \in Nat /\ named \in Nat
    BY <1>2, <1>5, ElementsAre DEF FilesFit, ReceiptsFit, FilesKnown, FilesTyped
  <2>2. outcomes[i].file # named'
    BY <2>1
  <2>3. IsKept(outcomes[i].file)' <=> IsKept(outcomes[i].file)
    BY DEF IsKept
  <2>4. FlushedTo(outcomes[i].file)' = FlushedTo(outcomes[i].file)
    BY DEF FlushedTo, Untold
  <2> QED
    BY <2>1, <2>2, <2>3, <2>4 DEF ReceiptFits, Unsettled
<1> QED
  BY <1>1, <1>2, <1>3, <1>4, <1>5 DEF FilesInv, FilesFit, ReceiptsFit

LEMMA ManifestComes ==
  ASSUME FilesInv, NEW n \in 0..MaxChapters, Additional!Inspect(n)
  PROVE  FilesInv'
<1> USE DEF Additional!Inspect
<1>0. n \in Nat /\ (n = 0 \/ 1 \in 0..n) /\ 0 \in 0..n
  BY PartsAssumption DEF Additional!FilesAssumption
<1>2. FilesTyped /\ FilesFit /\ filesDoing = "inspect"
  BY DEF FilesInv
<1>3. chapters = 0 /\ chapter = 0 /\ fileAt = "none" /\ specs = 0
  BY <1>2 DEF FilesTyped, FilesFit, StagesFit, Additional!Hooks, Unsettled, Untold
<1>1. RecordsFit'
  BY <1>3, NothingAdded DEF FilesInv, Untold
<1>4. FilesTyped' /\ StagesFit'
  BY <1>0, <1>2, <1>3 DEF FilesTyped, StagesFit, Unsettled, Untold
<1>5. FilesKnown'
  BY <1>2 DEF FilesFit, FilesKnown, HeardReceived
<1>6. \A f : FlushedTo(f) = {} /\ FlushedTo(f)' = {}
  BY <1>0, <1>3 DEF FlushedTo, Untold
<1>7. ASSUME NEW i \in DOMAIN outcomes, outcomes[i].phase = "receive"
      PROVE  ReceiptFits(outcomes[i])'
  <2>1. ReceiptFits(outcomes[i])
    BY <1>2, <1>7 DEF FilesFit, ReceiptsFit
  <2>2. IsKept(outcomes[i].file)' <=> IsKept(outcomes[i].file)
    BY DEF IsKept
  <2>3. DoneWith(outcomes, outcomes[i], chapters) => DoneWith(outcomes, outcomes[i], chapters')
    BY <1>3 DEF DoneWith
  <2> QED
    BY <1>3, <1>6, <2>1, <2>2, <2>3 DEF ReceiptFits, Unsettled
<1> QED
  BY <1>1, <1>2, <1>4, <1>5, <1>7 DEF FilesInv, FilesFit, ReceiptsFit

\* What the plugin was about to hear it never hears.
LEMMA OperationStops ==
  ASSUME FilesInv, Additional!Stop
  PROVE  FilesInv'
<1> USE DEF Additional!Stop
<1>1. FilesTyped /\ RecordsFit /\ filesDoing # "stopped" /\ heard \in Seq(Messages)
  BY DEF FilesInv, FilesTyped
<1>2. InOrder(heard, outcomes) \/ OneUntold(heard, outcomes)
  <2>1. CASE fileAt \in Untold
    <3>1. Coming \in Messages /\ Coming.about = "saved" /\ InOrder(Append(heard, Coming), outcomes)
      BY <1>1, <2>1 DEF RecordsFit, ToldFits, ComingFits, Coming, Additional!Message
    <3> QED
      BY <1>1, <3>1, OneIsComing
  <2>2. CASE fileAt \notin Untold
    BY <1>1, <2>2 DEF RecordsFit, ToldFits
  <2> QED
    BY <2>1, <2>2
<1>3. HeardAfterReceipt' /\ SavedIsWritten'
  BY <1>1 DEF RecordsFit, HeardAfterReceipt, SavedIsWritten
<1>4. RecordsFit'
  BY <1>2, <1>3 DEF RecordsFit, ToldFits, Untold
<1>5. FilesTyped'
  BY <1>1 DEF FilesTyped
<1> QED
  BY <1>4, <1>5 DEF FilesInv

\* What was told before a save stays before it.
LEMMA ReceiptsHeard ==
  ASSUME FilesTyped, HeardAfterReceipt, NEW m \in Messages, heard' = Append(heard, m),
         m.about = "saved" => HeardReceived(m.file)
  PROVE  /\ HeardAfterReceipt'
         /\ \A f : HeardReceived(f) => HeardReceived(f)'
<1>0. heard \in Seq(Messages)
  BY DEF FilesTyped
<1> DEFINE g == Append(heard, m)
           k == Len(heard) + 1
<1>1. /\ DOMAIN g = 1..k /\ DOMAIN heard = 1..Len(heard) /\ g[k] = m /\ Len(heard) \in Nat
      /\ \A i \in 1..Len(heard) : g[i] = heard[i]
  BY <1>0
<1> HIDE DEF g
<1>2. HeardIn(g) \subseteq HeardIn(heard) \cup {k}
  BY <1>1 DEF HeardIn
<1>3. ASSUME NEW i \in HeardIn(g)
      PROVE  \E j \in 1..(i - 1) : g[j].about = "received" /\ g[j].file = g[i].file /\ g[j].status = "received"
  <2>1. CASE i \in HeardIn(heard)
    <3>1. PICK j \in 1..(i - 1) : heard[j].about = "received" /\ heard[j].file = heard[i].file
                                 /\ heard[j].status = "received"
      BY <2>1 DEF HeardAfterReceipt
    <3>2. i \in 1..Len(heard) /\ j \in 1..Len(heard)
      BY <1>1, <2>1, <3>1 DEF HeardIn
    <3> QED
      BY <1>1, <3>1, <3>2
  <2>2. CASE i = k
    <3>1. m.about = "saved"
      BY <1>1, <1>3, <2>2 DEF HeardIn
    <3>2. PICK j \in DOMAIN heard : heard[j].about = "received" /\ heard[j].file = m.file
                                    /\ heard[j].status = "received"
      BY <3>1 DEF HeardReceived
    <3>3. j \in 1..(i - 1)
      BY <1>1, <2>2, <3>2
    <3> QED
      BY <1>1, <2>2, <3>2, <3>3
  <2> QED
    BY <1>2, <2>1, <2>2
<1>4. HeardAfterReceipt'
  BY <1>3 DEF HeardAfterReceipt, g
<1>5. ASSUME NEW f, HeardReceived(f) PROVE HeardReceived(f)'
  <2>1. PICK j \in DOMAIN heard : heard[j].about = "received" /\ heard[j].file = f /\ heard[j].status = "received"
    BY <1>5 DEF HeardReceived
  <2>2. j \in DOMAIN g /\ g[j] = heard[j]
    BY <1>1, <2>1
  <2> QED
    BY <2>1, <2>2 DEF HeardReceived, g
<1> QED
  BY <1>4, <1>5

\* What is recorded as saved has been written.
LEMMA StaysWritten ==
  ASSUME FilesTyped, SavedIsWritten, NEW new, Added(outcomes, new, outcomes'), written \subseteq written',
         new.status = "saved" => <<new.file, new.chapter>> \in written'
  PROVE  SavedIsWritten'
<1>1. outcomes \in Seq(Outcomes)
  BY DEF FilesTyped
<1>2. /\ DOMAIN outcomes = 1..Len(outcomes) /\ DOMAIN outcomes' = 1..(Len(outcomes) + 1) /\ Len(outcomes) \in Nat
      /\ outcomes'[Len(outcomes) + 1] = new /\ \A i \in 1..Len(outcomes) : outcomes'[i] = outcomes[i]
  BY <1>1, Adds
<1> QED
  BY <1>2 DEF SavedIsWritten

\* The outcomes of a step that settles file f in the chapter it is at, and
\* nothing else.
OutcomesSettle(f) ==
  /\ outcomes' \in Seq(Outcomes)
  /\ \A of : Settled(outcomes, f, of) /\ chapter \notin of => Settled(outcomes', f, of \cup {chapter})
  /\ SettlementsIn(outcomes', f) = SettlementsIn(outcomes, f) \cup {Len(outcomes) + 1}
  /\ \A g : g # f => /\ \A of : Settled(outcomes', g, of) <=> Settled(outcomes, g, of)
                     /\ \A o, n : o.file = g => (DoneWith(outcomes', o, n) <=> DoneWith(outcomes, o, n))
  /\ \A i \in DOMAIN outcomes : i \in DOMAIN outcomes' /\ outcomes'[i] = outcomes[i]
  /\ \A i \in DOMAIN outcomes' : i \in DOMAIN outcomes \/ (outcomes'[i].phase # "receive" /\ outcomes'[i].file = f)

Settles(f) == OutcomesSettle(f) /\ RecordsFit' /\ UNCHANGED heard

LEMMA AddedSettles ==
  ASSUME FilesTyped, NEW f, NEW new, Added(outcomes, new, outcomes'),
         new.phase = "save", new.file = f, new.chapter = chapter
  PROVE  OutcomesSettle(f)
<1> DEFINE q == outcomes'
<1>1. outcomes \in Seq(Outcomes)
  BY DEF FilesTyped
<1>2. /\ q[Len(outcomes) + 1] = new /\ q \in Seq(Outcomes) /\ Len(outcomes) \in Nat
      /\ DOMAIN outcomes = 1..Len(outcomes) /\ DOMAIN q = 1..(Len(outcomes) + 1)
      /\ \A i \in 1..Len(outcomes) : q[i] = outcomes[i]
  BY <1>1, Adds
<1>3. \A g : g # f => /\ \A of : Settled(q, g, of) <=> Settled(outcomes, g, of)
                      /\ \A o, n : o.file = g => (DoneWith(q, o, n) <=> DoneWith(outcomes, o, n))
  BY <1>1, OthersStay
<1>4. \A of : Settled(outcomes, f, of) /\ chapter \notin of => Settled(q, f, of \cup {chapter})
  BY <1>1, OneSettlesMore
<1> HIDE DEF q
<1>5. SettlementsIn(q, f) = SettlementsIn(outcomes, f) \cup {Len(outcomes) + 1}
  BY <1>2 DEF SettlementsIn
<1>6. \A i \in DOMAIN q : i \in DOMAIN outcomes \/ (q[i].phase # "receive" /\ q[i].file = f)
  BY <1>2
<1> QED
  BY <1>2, <1>3, <1>4, <1>5, <1>6 DEF OutcomesSettle, q

\* A save is recorded, and its callback is to come.
LEMMA SaveRecorded ==
  ASSUME FilesInv, filesDoing # "stopped", fileAt \notin Untold, NEW f \in Nat, HeardReceived(f),
         (Additional!AtHand)' = f, NEW s \in {"saved", "skipped", "failed"}, Additional!Record(f, "save", s),
         fileAt' \in Untold, UNCHANGED <<chapter, heard>>, written \subseteq written',
         s = "saved" => <<f, chapter>> \in written'
  PROVE  Settles(f) /\ outcomes'[Len(outcomes) + 1].status = s
<1> DEFINE a == Additional!Outcome(f, "save", s)
           m == Additional!Message(f, "saved", s)
<1>1. FilesTyped /\ RecordsFit /\ chapter \in Nat /\ heard \in Seq(Messages) /\ outcomes \in Seq(Outcomes)
  BY DEF FilesInv, FilesTyped
<1>2. /\ a.phase = "save" /\ a.file = f /\ a.chapter = chapter /\ a.status = s
      /\ Added(outcomes, a, outcomes')
  BY <1>1 DEF Outcomes, Additional!Outcome, Additional!Record, Added
<1>3. m \in Messages /\ m.about = "saved" /\ Additional!Pair(m) = Additional!Pair(a)
  BY <1>1 DEF Messages, Additional!Message, Additional!Outcome, Additional!Pair
<1>4. /\ Len(outcomes') = Len(outcomes) + 1 /\ outcomes'[Len(outcomes) + 1] = a /\ Len(outcomes) \in Nat
      /\ outcomes' \in Seq(Outcomes)
  BY <1>1, <1>2, Adds
<1>5. (Additional!LastSave)' = a
  BY <1>2, <1>4 DEF Additional!LastSave
<1>6. Coming' = m
  BY <1>2, <1>5 DEF Coming, Additional!Message
<1> HIDE DEF a, m
<1>7. InOrder(heard, outcomes)
  BY <1>1 DEF RecordsFit, ToldFits
<1>8. InOrder(Append(heard, m), outcomes')
  BY <1>1, <1>2, <1>3, <1>7, OrderGrows
<1>9. ComingFits'
  <2>1. HeardReceived(Additional!AtHand)'
    BY DEF HeardReceived
  <2>2. outcomes' # <<>> /\ outcomes'[Len(outcomes')].phase # "read"
    BY <1>2, <1>4
  <2> QED
    BY <1>3, <1>6, <1>8, <2>1, <2>2 DEF ComingFits
<1>10. SavedIsWritten' /\ HeardAfterReceipt'
  <2>1. SavedIsWritten /\ HeardAfterReceipt
    BY <1>1 DEF RecordsFit
  <2>2. SavedIsWritten'
    BY <1>1, <1>2, <2>1, StaysWritten
  <2> QED
    BY <2>1, <2>2 DEF HeardAfterReceipt
<1>11. OutcomesSettle(f)
  BY <1>1, <1>2, AddedSettles
<1> QED
  BY <1>2, <1>4, <1>9, <1>10, <1>11 DEF Settles, RecordsFit, ToldFits

\* save(), and a save that has failed before it.
LEMMA SaveSettles ==
  ASSUME FilesInv, filesDoing # "stopped", fileAt \notin Untold, NEW f \in Nat, HeardReceived(f),
         (Additional!AtHand)' = f, UNCHANGED <<chapter, heard>>,
         \/ Additional!Saves(f)
         \/ Additional!Record(f, "save", "failed") /\ fileAt' = "report" /\ UNCHANGED written
  PROVE  Settles(f) /\ fileAt' \in Untold
<1>1. ASSUME Additional!Saves(f) PROVE Settles(f) /\ fileAt' \in Untold
  <2>1. PICK s \in {"saved", "skipped", "failed"} :
          /\ written' \in CASE s = "saved" -> {written \cup {<<f, chapter>>}}
                            [] s = "skipped" -> {written}
                            [] s = "failed" -> {written, written \cup {<<f, chapter>>}}
          /\ Additional!Record(f, "save", s)
          /\ fileAt' = IF s = "skipped" THEN "read" ELSE "report"
    BY <1>1 DEF Additional!Saves
  <2>2. written \subseteq written' /\ (s = "saved" => <<f, chapter>> \in written') /\ fileAt' \in Untold
    BY <2>1 DEF Untold
  <2> QED
    BY <2>1, <2>2, SaveRecorded
<1>2. ASSUME Additional!Record(f, "save", "failed"), fileAt' = "report", UNCHANGED written
      PROVE  Settles(f) /\ fileAt' \in Untold
  BY <1>2, SaveRecorded DEF Untold
<1> QED
  BY <1>1, <1>2

\* The hook goes on with its next file, or ends with this one.
Continues ==
  /\ chapter' \in 0..chapters /\ fileAt' = "none"
  /\ IF filesDoing = "before_manifest" THEN chapter' = chapter /\ filesDoing' \in {"before_manifest", "inspect"}
     ELSE filesDoing' \in {"after_manifest", "after_download", "ended"}
  /\ filesDoing' \in {"before_manifest", "inspect"} => chapters = 0
  /\ filesDoing' \in {"after_manifest", "after_download"} => chapter' > 0
  /\ specs > 0 => filesDoing' \in Additional!Hooks

LEMMA FileContinues ==
  ASSUME FilesTyped, StagesFit, Additional!FileEnds, filesDoing \in Additional!Hooks
  PROVE  Continues
BY DEF FilesTyped, StagesFit, Additional!FileEnds, Additional!AfterHook, Additional!Hooks, Continues, Unsettled, Untold

LEMMA ContinuesFit ==
  ASSUME FilesTyped, StagesFit, Continues, filesDoing \in Additional!Hooks, UNCHANGED <<specs, chapters>>,
         kept' = kept \/ filesDoing = "before_manifest"
  PROVE  StagesFit' /\ filesDoing' # "stopped"
BY DEF FilesTyped, StagesFit, Additional!Hooks, Continues, Unsettled, Untold

\* A file is received, or fails to be.
LEMMA FileReceived ==
  ASSUME FilesInv, Additional!Receive
  PROVE  FilesInv'
<1> USE DEF Additional!Receive
<1>1. FilesTyped /\ FilesFit /\ filesDoing # "stopped" /\ outcomes \in Seq(Outcomes) /\ chapter \in Nat /\ named \in Nat
  BY DEF FilesInv, FilesTyped
<1>2. PICK s \in {"received", "failed"} : Additional!Record(named, "receive", s)
  OBVIOUS
<1> DEFINE a == Additional!Outcome(named, "receive", s)
           k == Len(outcomes) + 1
<1>3. a \in Outcomes /\ a.phase = "receive" /\ a.file = named /\ a.chapter = chapter /\ a.status = s
      /\ outcomes' = Append(outcomes, a)
  BY <1>1, <1>2 DEF Additional!Record, Additional!Outcome, Outcomes
<1> HIDE DEF a
<1>4. Added(outcomes, a, outcomes') /\ a.phase # "save"
  BY <1>1, <1>3 DEF Added
<1>5. /\ DOMAIN outcomes = 1..Len(outcomes) /\ DOMAIN outcomes' = 1..k /\ Len(outcomes') = k /\ Len(outcomes) \in Nat
      /\ outcomes'[k] = a /\ \A i \in 1..Len(outcomes) : outcomes'[i] = outcomes[i]
      /\ outcomes' \in Seq(Outcomes)
  BY <1>1, <1>3
<1>6. \A f : /\ \A of : Settled(outcomes', f, of) <=> Settled(outcomes, f, of)
             /\ \A o, n : o.file = f => (DoneWith(outcomes', o, n) <=> DoneWith(outcomes, o, n))
  BY <1>1, <1>4, OthersStay
<1>7. (\A i \in DOMAIN outcomes : outcomes[i].file \in Nat /\ outcomes[i].file < named)
      /\ (\A n \in DOMAIN kept : kept[n] < named /\ kept[n] \in Nat)
  BY <1>1, ElementsAre DEF FilesFit, FilesKnown, FilesTyped, Unsettled
<1>8. FilesTyped' /\ StagesFit'
  BY <1>1, <1>5 DEF FilesTyped, FilesFit, StagesFit, Unsettled, Untold
<1>9. FilesKnown'
  <2>1. \A n \in DOMAIN kept : HeardReceived(kept[n])'
    BY <1>1 DEF FilesFit, FilesKnown, HeardReceived
  <2>2. \A i \in DOMAIN outcomes' : outcomes'[i].file <= named
    BY <1>1, <1>3, <1>5, <1>7
  <2>3. \A i, j \in DOMAIN outcomes' :
          outcomes'[i].phase = "receive" /\ outcomes'[j].phase = "receive" /\ outcomes'[i].file = outcomes'[j].file => i = j
    <3> SUFFICES ASSUME NEW i \in DOMAIN outcomes', NEW j \in DOMAIN outcomes', outcomes'[i].phase = "receive",
                        outcomes'[j].phase = "receive", outcomes'[i].file = outcomes'[j].file
                 PROVE  i = j
      OBVIOUS
    <3>1. CASE i = k \/ j = k
      BY <1>1, <1>3, <1>5, <1>7, <3>1
    <3>2. CASE i \in DOMAIN outcomes /\ j \in DOMAIN outcomes
      BY <1>1, <1>5, <3>2 DEF FilesFit, FilesKnown
    <3> QED
      BY <1>5, <3>1, <3>2
  <2>4. outcomes' # <<>> /\ outcomes'[Len(outcomes')] = a
    BY <1>5
  <2>5. \A m, n \in DOMAIN kept : kept[m] = kept[n] => m = n
    BY <1>1 DEF FilesFit, FilesKnown
  <2> QED
    BY <1>1, <1>3, <1>7, <2>1, <2>2, <2>3, <2>4, <2>5 DEF FilesKnown, Unsettled
<1>10. ASSUME NEW i \in DOMAIN outcomes', outcomes'[i].phase = "receive"
       PROVE  ReceiptFits(outcomes[i])'
  <2> DEFINE o == outcomes'[i]
  <2>0. \A f : (IsKept(f)' <=> IsKept(f)) /\ FlushedTo(f)' = FlushedTo(f)
    BY DEF IsKept, FlushedTo, Untold
  <2>1. CASE i \in DOMAIN outcomes
    <3>1. o = outcomes[i] /\ ReceiptFits(outcomes[i]) /\ o.file # named
      BY <1>1, <1>5, <1>7, <1>10, <2>1 DEF FilesFit, ReceiptsFit
    <3> QED
      BY <1>6, <2>0, <3>1 DEF ReceiptFits, Unsettled
  <2>2. CASE i = k
    <3>1. o = a /\ ~IsKept(named)
      BY <1>1, <1>5, <1>7, <2>2 DEF IsKept
    <3>2. Settled(outcomes, named, {})
      BY <1>1, <1>7 DEF Settled, SettlementsIn
    <3> QED
      BY <1>3, <1>6, <2>0, <3>1, <3>2 DEF ReceiptFits, Unsettled
  <2> QED
    BY <1>5, <2>1, <2>2
<1>11. ToldFits'
  <2>1. TriedIn(outcomes') = TriedIn(outcomes) /\ \A i \in TriedIn(outcomes) : i \in 1..Len(outcomes)
    BY <1>1, <1>3, <1>4, TriedNext
  <2>2. InOrder(heard, outcomes)
    BY <1>1 DEF FilesInv, RecordsFit, ToldFits, Untold
  <2>3. InOrder(heard, outcomes')
    BY <1>5, <2>1, <2>2, SameOrder
  <2> QED
    BY <2>3 DEF ToldFits, Untold
<1>12. HeardAfterReceipt'
  BY DEF FilesInv, RecordsFit, HeardAfterReceipt
<1>13. SavedIsWritten'
  <2>1. SavedIsWritten
    BY DEF FilesInv, RecordsFit
  <2> QED
    BY <1>1, <1>3, <1>4, <2>1, StaysWritten
<1> QED
  BY <1>1, <1>8, <1>9, <1>10, <1>11, <1>12, <1>13 DEF FilesInv, FilesFit, ReceiptsFit, RecordsFit

\* The plugin is told of the receipt, and the file is settled later or not at all.
LEMMA ReceiptTold ==
  ASSUME FilesInv, Additional!TellReceived
  PROVE  FilesInv'
<1> USE DEF Additional!TellReceived
<1>1. FilesTyped /\ FilesFit /\ filesDoing # "stopped" /\ filesDoing \in Additional!Hooks
      /\ heard \in Seq(Messages) /\ chapter \in Nat /\ named \in Nat
  BY DEF FilesInv, FilesTyped, FilesFit, StagesFit, Unsettled
<1> DEFINE k == Len(outcomes)
           o == outcomes[Len(outcomes)]
           m == Additional!Message(named, "received", o.status)
<1>2. k \in DOMAIN outcomes /\ o.phase = "receive" /\ o.file = named /\ o.status \in {"received", "failed"}
  BY <1>1 DEF FilesFit, FilesKnown, FilesTyped
<1>3. m \in Messages /\ m.about = "received" /\ m.file = named /\ m.status = o.status /\ heard' = Append(heard, m)
  BY <1>1, <1>2 DEF Messages, Additional!Message, Additional!Tell
<1>4. /\ heard' \in Seq(Messages) /\ Len(heard') = Len(heard) + 1 /\ heard'[Len(heard) + 1] = m
      /\ \A i \in 1..Len(heard) : heard'[i] = heard[i]
      /\ HeardIn(heard') = HeardIn(heard) /\ \A i \in HeardIn(heard) : i \in 1..Len(heard)
  <2> HIDE DEF m
  <2> QED
    BY <1>1, <1>3, HeardNext
<1>5. HeardAfterReceipt' /\ \A f : HeardReceived(f) => HeardReceived(f)'
  <2>1. HeardAfterReceipt
    BY DEF FilesInv, RecordsFit
  <2> HIDE DEF m
  <2> QED
    BY <1>1, <1>3, <2>1, ReceiptsHeard
<1>6. InOrder(heard, outcomes)'
  <2>1. InOrder(heard, outcomes)
    BY <1>1 DEF FilesInv, RecordsFit, ToldFits, Untold
  <2>2. InOrder(heard', outcomes)
    BY <1>4, <2>1, SameOrder
  <2> QED
    BY <2>2
<1>7. SavedIsWritten'
  BY DEF FilesInv, RecordsFit, SavedIsWritten
<1>8. Additional!Received => HeardReceived(named)'
  <2>1. Len(heard) + 1 \in DOMAIN heard'
    BY <1>1, <1>4
  <2> QED
    BY <1>3, <1>4, <2>1 DEF HeardReceived, Additional!Received
<1>9. (\A n \in DOMAIN kept : kept[n] < named /\ kept[n] \in Nat) /\ ~IsKept(named)
  BY <1>1 DEF FilesFit, FilesKnown, FilesTyped, IsKept, Unsettled
<1>10. /\ chapter' \in 0..chapters /\ StagesFit' /\ filesDoing' # "stopped" /\ fileAt' \in {"none", "keep", "save"}
       /\ kept # <<>> => chapter' = chapter
       /\ fileAt' # "none" => Additional!Received /\ chapter' = chapter
       /\ fileAt' = "none" => o.status = "failed"
  <2>1. CASE Additional!Received
    BY <1>1, <1>2, <2>1 DEF FilesFit, StagesFit, FilesTyped, Additional!Hooks, Unsettled, Untold
  <2>2. CASE ~Additional!Received
    <3>1. Continues
      BY <1>1, <2>2, FileContinues DEF FilesFit
    <3>2. StagesFit' /\ filesDoing' # "stopped"
      BY <1>1, <3>1, ContinuesFit DEF FilesFit
    <3>3. kept # <<>> => filesDoing = "before_manifest"
      BY <1>1 DEF FilesFit, StagesFit, Additional!Hooks
    <3>4. o.status = "failed"
      BY <1>2, <2>2 DEF Additional!Received
    <3> QED
      BY <3>1, <3>2, <3>3, <3>4 DEF Continues
  <2> QED
    BY <2>1, <2>2
<1>11. FilesTyped'
  BY <1>1, <1>4, <1>10 DEF FilesTyped, Unsettled
<1>12. FilesKnown'
  <2>1. \A n \in DOMAIN kept : HeardReceived(kept[n])'
    BY <1>1, <1>5 DEF FilesFit, FilesKnown
  <2>2. fileAt' \in {"keep", "save"} => HeardReceived(named)'
    BY <1>8, <1>10
  <2> QED
    BY <1>1, <1>9, <1>10, <2>1, <2>2 DEF FilesFit, FilesKnown, Unsettled
<1>13. ASSUME NEW i \in DOMAIN outcomes, outcomes[i].phase = "receive"
       PROVE  ReceiptFits(outcomes[i])'
  <2>1. ReceiptFits(outcomes[i])
    BY <1>1, <1>13 DEF FilesFit, ReceiptsFit
  <2>2. \A f : (IsKept(f)' <=> IsKept(f)) /\ (IsKept(f) => FlushedTo(f)' = FlushedTo(f))
    BY <1>10 DEF IsKept, FlushedTo, Untold
  <2>3. CASE outcomes[i].file # named
    BY <2>1, <2>2, <2>3 DEF ReceiptFits
  <2>4. CASE outcomes[i].file = named
    <3>1. i = k
      BY <1>1, <1>2, <1>13, <2>4 DEF FilesFit, FilesKnown
    <3>2. o.chapter = chapter /\ Settled(outcomes, named, {})
      BY <1>9, <2>1, <2>4, <3>1 DEF ReceiptFits, Unsettled
    <3>3. CASE fileAt' = "none"
      <4>1. DoneWith(outcomes, o, chapters)
        BY <1>2, <1>10, <3>2, <3>3 DEF DoneWith
      <4> QED
        BY <1>9, <2>2, <2>4, <3>1, <3>3, <4>1 DEF ReceiptFits, Unsettled
    <3>4. CASE fileAt' # "none"
      <4>1. o.status = "received"
        BY <1>10, <3>4 DEF Additional!Received
      <4> QED
        BY <1>9, <1>10, <2>2, <2>4, <3>1, <3>2, <3>4, <4>1 DEF ReceiptFits, Unsettled
    <3> QED
      BY <3>3, <3>4
  <2> QED
    BY <2>3, <2>4
<1>14. RecordsFit'
  BY <1>5, <1>6, <1>7, <1>10 DEF RecordsFit, ToldFits, Untold
<1> QED
  BY <1>10, <1>11, <1>12, <1>13, <1>14 DEF FilesInv, FilesFit, ReceiptsFit

\* What the outcomes of a file at hand, or of one that was kept, leave known.
LEMMA SettledKnown ==
  ASSUME FilesInv, filesDoing # "stopped", NEW f, f <= named, Settles(f), UNCHANGED named, fileAt' \notin Unsettled,
         kept' \in Seq(Nat), \A n \in DOMAIN kept' : IsKept(kept'[n]),
         \A i, j \in DOMAIN kept' : kept'[i] = kept'[j] => i = j
  PROVE  FilesKnown'
<1>1. FilesTyped /\ FilesFit
  BY DEF FilesInv
<1>2. ASSUME NEW n \in DOMAIN kept' PROVE HeardReceived(kept[n])' /\ kept'[n] <= named
  <2>1. PICK l \in DOMAIN kept : kept[l] = kept'[n]
    BY DEF IsKept
  <2>2. HeardReceived(kept[l]) /\ kept[l] <= named
    BY <1>1 DEF FilesFit, FilesKnown
  <2> QED
    BY <2>1, <2>2 DEF HeardReceived, Settles
<1>3. /\ \A i \in DOMAIN outcomes : i \in DOMAIN outcomes' /\ outcomes'[i] = outcomes[i]
      /\ \A i \in DOMAIN outcomes' : i \in DOMAIN outcomes \/ (outcomes'[i].phase # "receive" /\ outcomes'[i].file = f)
  BY DEF Settles, OutcomesSettle
<1>4. \A i \in DOMAIN outcomes' : outcomes'[i].file <= named
  BY <1>1, <1>3 DEF FilesFit, FilesKnown
<1>5. \A i, j \in DOMAIN outcomes' :
        outcomes'[i].phase = "receive" /\ outcomes'[j].phase = "receive" /\ outcomes'[i].file = outcomes'[j].file => i = j
  BY <1>1, <1>3 DEF FilesFit, FilesKnown
<1> QED
  BY <1>2, <1>4, <1>5 DEF FilesKnown, Unsettled

\* It makes no difference to whether a file waits for a chapter, and for which.
WaitsAsBefore(f) == (IsKept(f)' <=> IsKept(f)) /\ (IsKept(f) => FlushedTo(f)' = FlushedTo(f))

\* A receipt of another file than the one that is settled.
LEMMA OthersFit ==
  ASSUME FilesInv, filesDoing # "stopped", NEW f, Settles(f), UNCHANGED <<named, chapters>>, fileAt' \notin Unsettled,
         NEW i \in DOMAIN outcomes, outcomes[i].phase = "receive", outcomes[i].file # f,
         fileAt \notin Unsettled \/ f = named, WaitsAsBefore(outcomes[i].file)
  PROVE  ReceiptFits(outcomes[i])'
<1> USE DEF WaitsAsBefore
<1>1. ReceiptFits(outcomes[i]) /\ outcomes'[i] = outcomes[i]
  BY DEF FilesInv, FilesFit, ReceiptsFit, Settles, OutcomesSettle
<1>2. /\ \A of : Settled(outcomes', outcomes[i].file, of) <=> Settled(outcomes, outcomes[i].file, of)
      /\ DoneWith(outcomes', outcomes[i], chapters) <=> DoneWith(outcomes, outcomes[i], chapters)
  BY DEF Settles, OutcomesSettle
<1> QED
  BY <1>1, <1>2 DEF ReceiptFits

\* The file at hand is settled, and its callback is to come.
LEMMA AtHandSettled ==
  ASSUME FilesInv, filesDoing # "stopped", fileAt \in {"keep", "save"}, Settles(named), fileAt' \in Untold,
         UNCHANGED <<filesDoing, named, specs, chapters, chapter, kept>>,
         fileAt = "keep" => outcomes'[Len(outcomes) + 1].status = "failed"
  PROVE  FilesInv'
<1>1. FilesTyped /\ FilesFit /\ filesDoing \in Additional!Hooks /\ chapter \in Nat /\ named \in Nat
      /\ fileAt \in Unsettled /\ fileAt \notin Untold
  BY DEF FilesInv, FilesTyped, FilesFit, StagesFit, Unsettled, Untold
<1>2. StagesFit' /\ FilesTyped' /\ fileAt' \notin Unsettled
  BY <1>1 DEF FilesTyped, FilesFit, StagesFit, Unsettled, Untold, Settles, OutcomesSettle
<1>4. ~IsKept(named) /\ kept \in Seq(Nat) /\ \A n \in DOMAIN kept : kept[n] \in Nat
  BY <1>1 DEF FilesFit, FilesKnown, FilesTyped, IsKept
<1>5. FilesKnown'
  <2>1. \A n \in DOMAIN kept : IsKept(kept[n])
    BY DEF IsKept
  <2>2. \A i, j \in DOMAIN kept : kept[i] = kept[j] => i = j
    BY <1>1 DEF FilesFit, FilesKnown
  <2> QED
    BY <1>1, <1>2, <1>4, <2>1, <2>2, SettledKnown
<1>6. \A f : (IsKept(f)' <=> IsKept(f)) /\ (IsKept(f) => FlushedTo(f)' = FlushedTo(f))
  <2>1. kept # <<>> => chapter = 0
    BY <1>1 DEF FilesFit, FilesTyped, StagesFit, Additional!Hooks
  <2>2. 1..(0 - 1) = {} /\ 1..0 = {}
    OBVIOUS
  <2>3. ASSUME NEW f, IsKept(f) PROVE FlushedTo(f)' = FlushedTo(f)
    BY <1>1, <2>1, <2>2, <2>3 DEF IsKept, FlushedTo
  <2> QED
    BY <2>3 DEF IsKept
<1>7. ASSUME NEW i \in DOMAIN outcomes, outcomes[i].phase = "receive" PROVE ReceiptFits(outcomes[i])'
  <2>0. outcomes'[i] = outcomes[i]
    BY DEF Settles, OutcomesSettle
  <2>3. CASE outcomes[i].file # named
    <3>1. WaitsAsBefore(outcomes[i].file)
      BY <1>6, <2>0 DEF WaitsAsBefore
    <3> QED
      BY <1>2, <1>7, <2>3, <3>1, OthersFit
  <2>4. CASE outcomes[i].file = named
    <3>1. outcomes[i].chapter = chapter /\ outcomes[i].status = "received" /\ Settled(outcomes, named, {})
      BY <1>1, <1>4, <1>7, <2>4 DEF FilesFit, ReceiptsFit, ReceiptFits
    <3>2. Settled(outcomes', named, {chapter}) /\ SettlementsIn(outcomes', named) = {Len(outcomes) + 1}
      <4>1. SettlementsIn(outcomes, named) = {} /\ {} \cup {chapter} = {chapter}
        BY <3>1 DEF Settled
      <4>2. Settled(outcomes', named, {} \cup {chapter})
        BY <3>1 DEF Settles, OutcomesSettle
      <4>3. SettlementsIn(outcomes', named) = SettlementsIn(outcomes, named) \cup {Len(outcomes) + 1}
        BY DEF Settles, OutcomesSettle
      <4> QED
        BY <4>1, <4>2, <4>3
    <3>3. DoneWith(outcomes', outcomes[i], chapters)
      <4>1. CASE chapter > 0
        BY <2>4, <3>1, <3>2, <4>1 DEF DoneWith
      <4>2. CASE chapter = 0
        <5>1. fileAt = "keep"
          BY <1>1, <4>2 DEF FilesFit, StagesFit
        <5>2. \A j \in SettlementsIn(outcomes', named) : outcomes'[j].status \in {"failed", "no_target"}
          BY <3>2, <5>1
        <5> QED
          BY <2>4, <3>1, <3>2, <4>2, <5>2 DEF DoneWith
      <4> QED
        BY <1>1, <4>1, <4>2
    <3> QED
      BY <1>2, <1>4, <1>6, <2>0, <2>4, <3>3 DEF ReceiptFits
  <2> QED
    BY <2>3, <2>4
<1>8. ReceiptsFit'
  BY <1>7 DEF ReceiptsFit, Settles, OutcomesSettle
<1> QED
  BY <1>2, <1>5, <1>8 DEF FilesInv, FilesFit, Settles

LEMMA FileSaved ==
  ASSUME FilesInv, Additional!SaveFile
  PROVE  FilesInv'
<1> USE DEF Additional!SaveFile
<1>1. FilesTyped /\ FilesFit /\ filesDoing # "stopped" /\ filesDoing \in Additional!Hooks /\ named \in Nat
      /\ HeardReceived(named) /\ fileAt \notin Untold
  BY DEF FilesInv, FilesTyped, FilesFit, StagesFit, FilesKnown, Unsettled, Untold
<1>2. (Additional!AtHand)' = named
  BY <1>1 DEF Additional!AtHand, Additional!Hooks
<1>3. Settles(named) /\ fileAt' \in Untold
  BY <1>1, <1>2, SaveSettles
<1> QED
  BY <1>1, <1>3, AtHandSettled

\* What comes before the manifest is kept, or lost.
LEMMA FileKept ==
  ASSUME FilesInv, Additional!Keep
  PROVE  FilesInv'
<1> USE DEF Additional!Keep
<1>1. FilesTyped /\ FilesFit /\ filesDoing = "before_manifest" /\ filesDoing \in Additional!Hooks /\ named \in Nat
      /\ HeardReceived(named) /\ kept \in Seq(Nat) /\ chapters = 0 /\ chapter = 0
  BY DEF FilesInv, FilesTyped, FilesFit, StagesFit, FilesKnown, Additional!Hooks
<1>3. CASE Additional!Record(named, "save", "failed") /\ fileAt' = "report" /\ UNCHANGED <<filesDoing, kept, chapter>>
  <2>1. fileAt \notin Untold /\ fileAt' \in Untold /\ (Additional!AtHand)' = named
    BY <1>1, <1>3 DEF Additional!AtHand, Untold
  <2>2. Settles(named) /\ outcomes'[Len(outcomes) + 1].status = "failed"
    BY <1>1, <1>3, <2>1, SaveRecorded
  <2> QED
    BY <1>1, <1>3, <2>1, <2>2, AtHandSettled
<1>4. CASE kept' = Append(kept, named) /\ Additional!FileEnds /\ UNCHANGED <<outcomes, heard>>
  <2>0. Continues
    BY <1>1, <1>4, FileContinues DEF FilesFit
  <2>1. RecordsFit'
    BY <1>1, <1>4, <2>0, NothingAdded DEF FilesInv, Untold, Continues
  <2>2. /\ kept' \in Seq(Nat) /\ DOMAIN kept' = 1..(Len(kept) + 1) /\ DOMAIN kept = 1..Len(kept) /\ Len(kept) \in Nat
        /\ kept'[Len(kept) + 1] = named /\ \A n \in DOMAIN kept : kept'[n] = kept[n] /\ kept[n] \in Nat
    BY <1>1, <1>4
  <2>3. \A n \in DOMAIN kept : kept[n] < named
    BY <1>1 DEF FilesFit, FilesKnown, Unsettled
  <2>4. StagesFit' /\ filesDoing' # "stopped" /\ chapter' = 0 /\ fileAt' = "none"
    BY <1>1, <2>0, ContinuesFit DEF FilesFit, Continues
  <2>5. FilesTyped'
    BY <1>1, <1>4, <2>0, <2>2 DEF FilesTyped, Continues
  <2>6. FilesKnown'
    <3>1. \A n \in DOMAIN kept' : kept'[n] <= named
      BY <1>1, <2>2, <2>3
    <3>2. \A i, j \in DOMAIN kept' : kept'[i] = kept'[j] => i = j
      <4>1. \A i, j \in DOMAIN kept : kept[i] = kept[j] => i = j
        BY <1>1 DEF FilesFit, FilesKnown
      <4> QED
        BY <1>1, <2>2, <2>3, <4>1
    <3>3. \A n \in DOMAIN kept' : HeardReceived(kept'[n])
      <4>1. \A n \in DOMAIN kept : HeardReceived(kept[n])
        BY <1>1 DEF FilesFit, FilesKnown
      <4> QED
        BY <1>1, <2>2, <4>1
    <3>4. \A n \in DOMAIN kept' : HeardReceived(kept[n])'
      BY <1>4, <3>3 DEF HeardReceived
    <3>5. (\A i \in DOMAIN outcomes : outcomes[i].file <= named) /\ named' = named
      BY <1>1 DEF FilesFit, FilesKnown
    <3>6. \A i, j \in DOMAIN outcomes :
            outcomes[i].phase = "receive" /\ outcomes[j].phase = "receive" /\ outcomes[i].file = outcomes[j].file => i = j
      BY <1>1 DEF FilesFit, FilesKnown
    <3> QED
      BY <1>4, <2>4, <3>1, <3>2, <3>4, <3>5, <3>6 DEF FilesKnown, Unsettled
  <2>7. \A f : FlushedTo(f) = {} /\ FlushedTo(f)' = {}
    BY <1>1, <2>4 DEF FlushedTo, Untold
  <2>8. \A f : IsKept(f)' <=> IsKept(f) \/ f = named
    BY <2>2 DEF IsKept
  <2>9. ASSUME NEW i \in DOMAIN outcomes, outcomes[i].phase = "receive" PROVE ReceiptFits(outcomes[i])'
    <3>1. ReceiptFits(outcomes[i])
      BY <1>1, <2>9 DEF FilesFit, ReceiptsFit
    <3>2. ~IsKept(named)
      BY <1>1, <2>2, <2>3 DEF IsKept
    <3>3. CASE outcomes[i].file = named
      BY <1>1, <1>4, <2>7, <2>8, <3>1, <3>2, <3>3 DEF ReceiptFits, Unsettled
    <3>4. CASE outcomes[i].file # named
      BY <1>1, <1>4, <2>4, <2>7, <2>8, <3>1, <3>4 DEF ReceiptFits, Unsettled
    <3> QED
      BY <3>3, <3>4
  <2> QED
    BY <1>4, <2>1, <2>4, <2>5, <2>6, <2>9 DEF FilesInv, FilesFit, ReceiptsFit
<1> QED
  BY <1>3, <1>4

\* The file that is at hand while what was kept is saved.
LEMMA KeptAtHand ==
  ASSUME FilesInv, filesDoing = "flush", kept # <<>>
  PROVE  /\ FilesTyped /\ FilesFit /\ kept \in Seq(Nat) /\ Head(kept) \in Nat /\ HeardReceived(Head(kept))
         /\ IsKept(Head(kept)) /\ Head(kept) <= named /\ specs = 0 /\ fileAt \notin Unsettled
         /\ chapters \in Nat /\ chapter \in 0..chapters /\ (chapters > 0 => chapter > 0)
         /\ DOMAIN kept = 1..Len(kept) /\ Len(kept) \in Nat \ {0} /\ kept[1] = Head(kept)
         /\ Tail(kept) \in Seq(Nat) /\ DOMAIN Tail(kept) = 1..(Len(kept) - 1)
         /\ \A n \in 1..(Len(kept) - 1) : Tail(kept)[n] = kept[n + 1]
         /\ \A i, j \in DOMAIN kept : kept[i] = kept[j] => i = j
         /\ named \in Nat /\ outcomes \in Seq(Outcomes) /\ heard \in Seq(Messages)
<1>1. FilesTyped /\ FilesFit
  BY DEF FilesInv
<1>2. kept \in Seq(Nat) /\ Head(kept) \in Nat
      /\ DOMAIN kept = 1..Len(kept) /\ Len(kept) \in Nat \ {0} /\ kept[1] = Head(kept)
      /\ Tail(kept) \in Seq(Nat) /\ DOMAIN Tail(kept) = 1..(Len(kept) - 1)
      /\ \A n \in 1..(Len(kept) - 1) : Tail(kept)[n] = kept[n + 1]
  BY <1>1 DEF FilesTyped
<1>3. 1 \in DOMAIN kept
  BY <1>2
<1>4. HeardReceived(Head(kept)) /\ IsKept(Head(kept)) /\ Head(kept) <= named
      /\ \A i, j \in DOMAIN kept : kept[i] = kept[j] => i = j
  BY <1>1, <1>2, <1>3 DEF FilesFit, FilesKnown, IsKept
<1>5. specs = 0 /\ fileAt \notin Unsettled
      /\ chapters \in Nat /\ chapter \in 0..chapters /\ (chapters > 0 => chapter > 0)
      /\ named \in Nat /\ outcomes \in Seq(Outcomes) /\ heard \in Seq(Messages)
  BY <1>1 DEF FilesTyped, FilesFit, StagesFit, Additional!Hooks
<1> QED
  BY <1>1, <1>2, <1>4, <1>5

\* What was kept is saved in the next chapter, and its callback is to come.
LEMMA KeptSettled ==
  ASSUME FilesInv, filesDoing = "flush", kept # <<>>, fileAt \notin Untold, chapters > 0, fileAt' \in Untold,
         Settles(Head(kept)), UNCHANGED <<filesDoing, named, specs, chapters, chapter, kept>>
  PROVE  FilesInv'
<1> DEFINE f == Head(kept)
<1>1. /\ FilesTyped /\ FilesFit /\ kept \in Seq(Nat) /\ IsKept(f) /\ f <= named /\ specs = 0
      /\ fileAt \notin Unsettled /\ fileAt' \notin Unsettled /\ chapter \in Nat /\ chapter > 0
      /\ \A i, j \in DOMAIN kept : kept[i] = kept[j] => i = j
  BY KeptAtHand DEF Unsettled, Untold
<1> HIDE DEF f
<1>2. StagesFit' /\ FilesTyped'
  BY <1>1 DEF FilesTyped, FilesFit, StagesFit, Unsettled, Untold, Settles, OutcomesSettle
<1>3. FilesKnown'
  <2>1. \A n \in DOMAIN kept : IsKept(kept[n])
    BY DEF IsKept
  <2>2. Settles(f)
    BY DEF f
  <2> QED
    BY <1>1, <2>1, <2>2, SettledKnown
<1>4. \A g : /\ IsKept(g)' <=> IsKept(g)
             /\ FlushedTo(g) = IF g = f THEN 1..(chapter - 1) ELSE {}
             /\ FlushedTo(g)' = IF g = f THEN 1..chapter ELSE {}
  BY DEF IsKept, FlushedTo, f
<1>5. ASSUME NEW i \in DOMAIN outcomes, outcomes[i].phase = "receive" PROVE ReceiptFits(outcomes[i])'
  <2>0. outcomes'[i] = outcomes[i]
    BY DEF Settles, OutcomesSettle
  <2>1. CASE outcomes[i].file # f
    <3>1. WaitsAsBefore(outcomes[i].file)
      BY <1>4, <2>0, <2>1 DEF WaitsAsBefore
    <3>2. Settles(f)
      BY DEF f
    <3> QED
      BY <1>1, <1>5, <2>1, <3>1, <3>2, OthersFit
  <2>2. CASE outcomes[i].file = f
    <3>1. outcomes[i].status = "received" /\ outcomes[i].chapter = 0 /\ Settled(outcomes, f, 1..(chapter - 1))
      BY <1>1, <1>4, <1>5, <2>2 DEF FilesFit, ReceiptsFit, ReceiptFits
    <3>2. chapter \notin 1..(chapter - 1) /\ (1..(chapter - 1)) \cup {chapter} = 1..chapter
      BY <1>1
    <3>4. Settled(outcomes', f, (1..(chapter - 1)) \cup {chapter})
      BY <3>1, <3>2 DEF Settles, OutcomesSettle, f
    <3>3. Settled(outcomes', f, 1..chapter)
      BY <3>2, <3>4
    <3> QED
      BY <1>1, <1>4, <2>0, <2>2, <3>1, <3>3 DEF ReceiptFits
  <2> QED
    BY <2>1, <2>2
<1>6. ReceiptsFit'
  BY <1>5 DEF ReceiptsFit, Settles, OutcomesSettle
<1> QED
  BY <1>1, <1>2, <1>3, <1>6 DEF FilesInv, FilesFit, Settles

\* The next chapter is another, or the next file comes: what waits then.
LEMMA FlushGoesOn ==
  ASSUME FilesInv, filesDoing = "flush", kept # <<>>, Additional!FlushNext, fileAt' = "none",
         UNCHANGED <<chapters, filesDoing, named, specs>>, heard' \in Seq(Messages), outcomes' \in Seq(Outcomes)
  PROVE  /\ FilesTyped' /\ StagesFit'
         /\ kept' \in Seq(Nat) /\ (\A n \in DOMAIN kept' : IsKept(kept'[n]))
         /\ \A i, j \in DOMAIN kept' : kept'[i] = kept'[j] => i = j
         /\ \A g : g # Head(kept) => /\ IsKept(g)' <=> IsKept(g)
                                     /\ FlushedTo(g) = {} /\ (IsKept(g) => FlushedTo(g)' = {})
         /\ IF chapter < chapters THEN kept' = kept /\ chapter' = chapter + 1
            ELSE \A n \in DOMAIN kept' : kept'[n] # Head(kept)
<1> DEFINE f == Head(kept)
<1>1. /\ FilesTyped /\ FilesFit /\ kept \in Seq(Nat) /\ IsKept(f) /\ specs = 0
      /\ chapters \in Nat /\ chapter \in 0..chapters /\ (chapters > 0 => chapter > 0)
      /\ DOMAIN kept = 1..Len(kept) /\ Len(kept) \in Nat \ {0} /\ kept[1] = f
      /\ Tail(kept) \in Seq(Nat) /\ DOMAIN Tail(kept) = 1..(Len(kept) - 1)
      /\ \A n \in 1..(Len(kept) - 1) : Tail(kept)[n] = kept[n + 1]
      /\ \A i, j \in DOMAIN kept : kept[i] = kept[j] => i = j
  BY KeptAtHand
<1>2. \A g : /\ FlushedTo(g) # {} => g = f
             /\ (FlushedTo(g))' = IF g = Head(kept') THEN 1..(chapter' - 1) ELSE {}
  BY DEF FlushedTo, Untold
<1>3. FilesTyped' /\ StagesFit'
  <2>1. kept' \in Seq(Nat) /\ chapter' \in 0..chapters /\ (chapters > 0 => chapter' > 0)
    <3>1. CASE chapter < chapters
      BY <1>1, <3>1 DEF Additional!FlushNext
    <3>2. CASE ~(chapter < chapters)
      <4>1. kept' = Tail(kept) /\ chapter' = IF chapters = 0 THEN 0 ELSE 1
        BY <3>2 DEF Additional!FlushNext, Additional!FirstChapter
      <4>2. chapter' \in 0..chapters /\ (chapters > 0 => chapter' > 0)
        BY <1>1, <4>1
      <4> QED
        BY <1>1, <4>1, <4>2
    <3> QED
      BY <3>1, <3>2
  <2> QED
    BY <1>1, <2>1 DEF FilesTyped, StagesFit, Additional!Hooks, Unsettled, Untold
<1>4. CASE chapter < chapters
  <2>1. kept' = kept /\ chapter' = chapter + 1 /\ chapter' - 1 = chapter
    BY <1>1, <1>4 DEF Additional!FlushNext
  <2>2. \A g : IsKept(g)' <=> IsKept(g)
    BY <2>1 DEF IsKept
  <2> QED
    BY <1>1, <1>2, <1>3, <1>4, <2>1, <2>2 DEF IsKept
<1>5. CASE ~(chapter < chapters)
  <2>1. kept' = Tail(kept) /\ chapter' \in {0, 1}
    BY <1>5 DEF Additional!FlushNext, Additional!FirstChapter
  <2>2. \A n \in DOMAIN kept' : n \in Nat /\ n + 1 \in DOMAIN kept /\ kept'[n] = kept[n + 1] /\ n + 1 # 1
    BY <1>1, <2>1
  <2>3. \A i, j \in DOMAIN kept' : kept'[i] = kept'[j] => i = j
    <3>1. \A i, j \in DOMAIN kept' : kept'[i] = kept'[j] => i + 1 = j + 1
      BY <1>1, <2>2
    <3> QED
      BY <2>2, <3>1
  <2>4. \A n \in DOMAIN kept' : kept'[n] # f /\ IsKept(kept'[n])
    <3>1. 1 \in DOMAIN kept
      BY <1>1
    <3> QED
      BY <1>1, <2>2, <3>1 DEF IsKept
  <2>5. ASSUME NEW n \in DOMAIN kept, kept[n] # f PROVE n - 1 \in DOMAIN kept' /\ kept'[n - 1] = kept[n]
    <3>1. n \in 2..Len(kept)
      BY <1>1, <2>5
    <3> QED
      BY <1>1, <2>1, <3>1
  <2>6. \A g : g # f => (IsKept(g)' <=> IsKept(g))
    BY <2>4, <2>5 DEF IsKept
  <2>7. 1..(chapter' - 1) = {}
    <3>1. 1..(0 - 1) = {} /\ 1..(1 - 1) = {}
      OBVIOUS
    <3> QED
      BY <2>1, <3>1
  <2> QED
    BY <1>1, <1>2, <1>3, <1>5, <2>1, <2>3, <2>4, <2>6, <2>7
<1> QED
  BY <1>1, <1>4, <1>5

\* There is no chapter for what was kept.
LEMMA NoTarget ==
  ASSUME FilesInv, Additional!FlushFile, chapters = 0
  PROVE  FilesInv'
<1> DEFINE f == Head(kept)
           a == Additional!Outcome(f, "save", "no_target")
<1>1. /\ filesDoing = "flush" /\ kept # <<>> /\ fileAt = "none" /\ fileAt' = "none" /\ Additional!FlushNext
      /\ outcomes' = Append(outcomes, a)
      /\ UNCHANGED <<filesDoing, chapters, named, specs, heard, written>>
  BY DEF Additional!FlushFile, Additional!Record
<1>2. /\ FilesTyped /\ FilesFit /\ IsKept(f) /\ f \in Nat /\ f <= named /\ chapter = 0
      /\ outcomes \in Seq(Outcomes) /\ heard \in Seq(Messages) /\ fileAt \notin Unsettled
  BY <1>1, KeptAtHand
<1>3. a.phase = "save" /\ a.file = f /\ a.chapter = chapter /\ a.status = "no_target" /\ Added(outcomes, a, outcomes')
  BY <1>1, <1>2 DEF Outcomes, Additional!Outcome, Added
<1> HIDE DEF a
<1>4. /\ outcomes'[Len(outcomes) + 1] = a /\ outcomes' \in Seq(Outcomes) /\ DOMAIN outcomes = 1..Len(outcomes)
      /\ \A i \in 1..Len(outcomes) : outcomes'[i] = outcomes[i]
  BY <1>2, <1>3, Adds
<1>5. RecordsFit'
  <2>0. InOrder(heard, outcomes) /\ HeardAfterReceipt /\ SavedIsWritten
    BY <1>1 DEF FilesInv, RecordsFit, ToldFits, Untold
  <2>1. TriedIn(outcomes') = TriedIn(outcomes) /\ \A i \in TriedIn(outcomes) : i \in 1..Len(outcomes)
    BY <1>2, <1>3, TriedNext
  <2>2. InOrder(heard, outcomes')
    BY <1>4, <2>0, <2>1, SameOrder
  <2>3. SavedIsWritten'
    BY <1>1, <1>2, <1>3, <2>0, StaysWritten
  <2> QED
    BY <1>1, <2>0, <2>2, <2>3 DEF RecordsFit, ToldFits, Untold, HeardAfterReceipt
<1>6. Settles(f)
  <2>1. OutcomesSettle(f)
    BY <1>2, <1>3, AddedSettles
  <2> QED
    BY <1>1, <1>5, <2>1 DEF Settles
<1>7. /\ FilesTyped' /\ StagesFit'
      /\ kept' \in Seq(Nat) /\ (\A n \in DOMAIN kept' : IsKept(kept'[n]))
      /\ \A i, j \in DOMAIN kept' : kept'[i] = kept'[j] => i = j
      /\ \A g : g # f => (IsKept(g)' <=> IsKept(g)) /\ FlushedTo(g) = {} /\ (IsKept(g) => FlushedTo(g)' = {})
      /\ \A n \in DOMAIN kept' : kept'[n] # f
  BY <1>1, <1>2, <1>4, FlushGoesOn
<1>8. FilesKnown'
  BY <1>1, <1>2, <1>6, <1>7, SettledKnown DEF Unsettled
<1>9. ASSUME NEW i \in DOMAIN outcomes, outcomes[i].phase = "receive" PROVE ReceiptFits(outcomes[i])'
  <2>0. outcomes'[i] = outcomes[i]
    BY <1>6 DEF Settles, OutcomesSettle
  <2>1. CASE outcomes[i].file # f
    <3>1. WaitsAsBefore(outcomes[i].file)
      BY <1>7, <2>0, <2>1 DEF WaitsAsBefore
    <3> QED
      BY <1>1, <1>2, <1>6, <1>9, <2>1, <3>1, OthersFit DEF Unsettled
  <2>2. CASE outcomes[i].file = f
    <3>1. outcomes[i].status = "received" /\ outcomes[i].chapter = 0 /\ Settled(outcomes, f, FlushedTo(f))
      BY <1>2, <1>9, <2>2 DEF FilesFit, ReceiptsFit, ReceiptFits
    <3>2. FlushedTo(f) = {} /\ {} \cup {0} = {0}
      <4>1. 1..(0 - 1) = {}
        OBVIOUS
      <4> QED
        BY <1>1, <1>2, <4>1 DEF FlushedTo, Untold
    <3>3. Settled(outcomes', f, {0})
      <4>1. Settled(outcomes, f, {}) /\ chapter \notin {}
        BY <3>1, <3>2
      <4>2. Settled(outcomes', f, {} \cup {chapter})
        BY <1>6, <4>1 DEF Settles, OutcomesSettle
      <4> QED
        BY <1>2, <3>2, <4>2
    <3>4. SettlementsIn(outcomes', f) = {Len(outcomes) + 1}
      <4>1. SettlementsIn(outcomes, f) = {}
        BY <3>1, <3>2 DEF Settled
      <4> QED
        BY <1>6, <4>1 DEF Settles, OutcomesSettle
    <3>5. DoneWith(outcomes', outcomes[i], chapters)
      BY <1>3, <1>4, <2>2, <3>1, <3>3, <3>4 DEF DoneWith
    <3>6. ~(\E n \in DOMAIN kept' : kept'[n] = outcomes'[i].file)
      BY <1>7, <2>0, <2>2
    <3> QED
      BY <1>1, <2>0, <3>5, <3>6 DEF ReceiptFits, Unsettled, IsKept
  <2> QED
    BY <2>1, <2>2
<1>10. ReceiptsFit'
  BY <1>6, <1>9 DEF ReceiptsFit, Settles, OutcomesSettle
<1> QED
  BY <1>1, <1>5, <1>7, <1>8, <1>10 DEF FilesInv, FilesFit

LEMMA KeptSaved ==
  ASSUME FilesInv, Additional!FlushFile
  PROVE  FilesInv'
<1>1. CASE chapters = 0
  BY <1>1, NoTarget
<1>2. CASE chapters # 0
  <2>1. /\ filesDoing = "flush" /\ filesDoing # "stopped" /\ kept # <<>> /\ fileAt \notin Untold
        /\ UNCHANGED <<filesDoing, named, specs, chapters, chapter, kept, heard>>
        /\ \/ Additional!Saves(Head(kept))
           \/ Additional!Record(Head(kept), "save", "failed") /\ fileAt' = "report" /\ UNCHANGED written
    BY <1>2 DEF Additional!FlushFile, Untold
  <2>2. Head(kept) \in Nat /\ HeardReceived(Head(kept)) /\ chapters > 0
    BY <1>2, <2>1, KeptAtHand
  <2>3. (Additional!AtHand)' = Head(kept)
    BY <2>1 DEF Additional!AtHand
  <2>4. Settles(Head(kept)) /\ fileAt' \in Untold
    BY <2>1, <2>2, <2>3, SaveSettles
  <2> QED
    BY <2>1, <2>2, <2>4, KeptSettled
<1> QED
  BY <1>1, <1>2

\* A file is read back, which settles nothing.
LEMMA FileRead ==
  ASSUME FilesInv, Additional!ReadBack
  PROVE  FilesInv'
<1> USE DEF Additional!ReadBack
<1>1. /\ FilesTyped /\ FilesFit /\ filesDoing # "stopped" /\ RecordsFit /\ ComingFits
      /\ outcomes \in Seq(Outcomes) /\ chapter \in Nat
      /\ fileAt \in Untold /\ fileAt' \in Untold /\ fileAt \notin Unsettled /\ fileAt' \notin Unsettled
  BY DEF FilesInv, FilesTyped, Untold, Unsettled, RecordsFit, ToldFits
<1> DEFINE f == Additional!AtHand
<1>2. f \in Nat /\ f <= named /\ named \in Nat
  <2>1. CASE filesDoing = "flush"
    <3>1. kept # <<>>
      BY <1>1, <2>1 DEF FilesFit, StagesFit, Additional!Hooks
    <3> QED
      BY <2>1, <3>1, KeptAtHand DEF Additional!AtHand
  <2>2. CASE filesDoing # "flush"
    BY <1>1, <2>2 DEF Additional!AtHand, FilesTyped
  <2> QED
    BY <1>1, <2>1, <2>2 DEF FilesTyped
<1>3. PICK r \in {"completed", "failed"} : Additional!Record(f, "read", r)
  OBVIOUS
<1> DEFINE a == Additional!Outcome(f, "read", r)
<1> HIDE DEF f
<1>4. a.phase = "read" /\ a.file = f /\ a.status # "saved" /\ Added(outcomes, a, outcomes')
  BY <1>1, <1>2, <1>3 DEF Outcomes, Additional!Outcome, Additional!Record, Added
<1> HIDE DEF a
<1>5. /\ DOMAIN outcomes = 1..Len(outcomes) /\ DOMAIN outcomes' = 1..(Len(outcomes) + 1) /\ Len(outcomes) \in Nat
      /\ Len(outcomes') = Len(outcomes) + 1 /\ outcomes'[Len(outcomes) + 1] = a /\ outcomes' \in Seq(Outcomes)
      /\ \A i \in 1..Len(outcomes) : outcomes'[i] = outcomes[i]
  BY <1>1, <1>4, Adds
<1>6. \A g : /\ \A of : Settled(outcomes', g, of) <=> Settled(outcomes, g, of)
             /\ \A o, n : o.file = g => (DoneWith(outcomes', o, n) <=> DoneWith(outcomes, o, n))
  BY <1>1, <1>4, OthersStay
<1>7. FilesTyped' /\ StagesFit'
  BY <1>1, <1>5 DEF FilesTyped, FilesFit, StagesFit
<1>8. FilesKnown'
  <2>1. \A i \in DOMAIN outcomes' : outcomes'[i].file <= named
    BY <1>1, <1>2, <1>4, <1>5 DEF FilesFit, FilesKnown
  <2>2. \A i, j \in DOMAIN outcomes' :
          outcomes'[i].phase = "receive" /\ outcomes'[j].phase = "receive" /\ outcomes'[i].file = outcomes'[j].file => i = j
    BY <1>1, <1>4, <1>5 DEF FilesFit, FilesKnown
  <2>3. \A n \in DOMAIN kept : HeardReceived(kept[n])' /\ kept[n] <= named
    BY <1>1 DEF FilesFit, FilesKnown, HeardReceived
  <2>4. \A m, n \in DOMAIN kept : kept[m] = kept[n] => m = n
    BY <1>1 DEF FilesFit, FilesKnown
  <2> QED
    BY <1>1, <2>1, <2>2, <2>3, <2>4 DEF FilesKnown, Unsettled
<1>9. ASSUME NEW i \in DOMAIN outcomes', outcomes'[i].phase = "receive" PROVE ReceiptFits(outcomes[i])'
  <2>1. i \in DOMAIN outcomes /\ outcomes'[i] = outcomes[i] /\ ReceiptFits(outcomes[i])
    BY <1>1, <1>4, <1>5, <1>9 DEF FilesFit, ReceiptsFit
  <2>2. \A g : (IsKept(g)' <=> IsKept(g)) /\ FlushedTo(g)' = FlushedTo(g)
    BY <1>1 DEF IsKept, FlushedTo
  <2> QED
    BY <1>1, <1>6, <2>1, <2>2 DEF ReceiptFits
<1>10. ToldFits'
  <2>1. outcomes # <<>> /\ outcomes[Len(outcomes)].phase # "read"
    BY <1>1 DEF ComingFits
  <2>2. Len(outcomes) \in 1..Len(outcomes)
    BY <1>1, <2>1
  <2>3. (Additional!LastSave)' = Additional!LastSave
    BY <1>4, <1>5, <2>1, <2>2 DEF Additional!LastSave
  <2>4. Coming' = Coming /\ (Additional!AtHand)' = Additional!AtHand
    BY <2>3 DEF Coming, Additional!Message, Additional!AtHand
  <2>5. TriedIn(outcomes') = TriedIn(outcomes) /\ \A i \in TriedIn(outcomes) : i \in 1..Len(outcomes)
    BY <1>1, <1>4, TriedNext
  <2>6. InOrder(Append(heard, Coming), outcomes')
    <3>1. InOrder(Append(heard, Coming), outcomes)
      BY <1>1 DEF ComingFits
    <3> QED
      BY <1>5, <2>5, <3>1, SameOrder
  <2>7. HeardReceived(Additional!AtHand)'
    BY <1>1, <2>4 DEF ComingFits, HeardReceived
  <2>8. ComingFits'
    BY <1>1, <2>4, <2>6, <2>7 DEF ComingFits
  <2> QED
    BY <1>1, <2>8 DEF ToldFits
<1>11. RecordsFit'
  <2>1. HeardAfterReceipt /\ SavedIsWritten
    BY <1>1 DEF RecordsFit
  <2>2. SavedIsWritten'
    BY <1>1, <1>4, <2>1, StaysWritten
  <2> QED
    BY <1>10, <2>1, <2>2 DEF RecordsFit, HeardAfterReceipt
<1> QED
  BY <1>1, <1>7, <1>8, <1>9, <1>11 DEF FilesInv, FilesFit, ReceiptsFit

\* The plugin hears of a save, and what comes behind the file goes on.
LEMMA SaveTold ==
  ASSUME FilesInv, Additional!TellSaved
  PROVE  FilesInv'
<1> USE DEF Additional!TellSaved
<1>1. /\ FilesTyped /\ FilesFit /\ filesDoing # "stopped" /\ ComingFits /\ HeardAfterReceipt /\ SavedIsWritten
      /\ fileAt \in Untold /\ fileAt \notin Unsettled /\ heard \in Seq(Messages) /\ outcomes \in Seq(Outcomes)
      /\ kept \in Seq(Nat) /\ chapter \in 0..chapters /\ chapters \in Nat
  BY DEF FilesInv, FilesTyped, Untold, Unsettled, RecordsFit, ToldFits
<1>2. heard' = Append(heard, Coming) /\ Coming \in Messages /\ Coming.file = Additional!AtHand
      /\ heard' \in Seq(Messages) /\ UNCHANGED <<outcomes, written, specs, named, chapters>>
  BY <1>1 DEF ComingFits, Coming, Additional!Tell, Additional!Message
<1>3. HeardAfterReceipt' /\ \A g : HeardReceived(g) => HeardReceived(g)'
  BY <1>1, <1>2, ReceiptsHeard DEF ComingFits
<1>4. fileAt' = "none" => RecordsFit'
  BY <1>1, <1>2, <1>3 DEF RecordsFit, ToldFits, ComingFits, SavedIsWritten, Untold
<1>5. CASE filesDoing = "flush"
  <2> DEFINE f == Head(kept)
  <2>1. fileAt' = "none" /\ Additional!FlushNext /\ filesDoing' = "flush" /\ kept # <<>> /\ chapters > 0
    BY <1>1, <1>5 DEF FilesFit, StagesFit, Additional!Hooks
  <2>2. IsKept(f) /\ (chapters > 0 => chapter > 0)
    BY <1>5, <2>1, KeptAtHand
  <2>3. /\ FilesTyped' /\ StagesFit'
        /\ kept' \in Seq(Nat) /\ (\A n \in DOMAIN kept' : IsKept(kept'[n]))
        /\ \A i, j \in DOMAIN kept' : kept'[i] = kept'[j] => i = j
        /\ \A g : g # f => (IsKept(g)' <=> IsKept(g)) /\ FlushedTo(g) = {} /\ (IsKept(g) => FlushedTo(g)' = {})
        /\ IF chapter < chapters THEN kept' = kept /\ chapter' = chapter + 1
           ELSE \A n \in DOMAIN kept' : kept'[n] # f
    BY <1>1, <1>2, <1>5, <2>1, FlushGoesOn
  <2>4. FilesKnown'
    <3>1. ASSUME NEW n \in DOMAIN kept' PROVE HeardReceived(kept[n])' /\ kept'[n] <= named
      <4>1. PICK l \in DOMAIN kept : kept[l] = kept'[n]
        BY <2>3 DEF IsKept
      <4>2. HeardReceived(kept[l]) /\ kept[l] <= named
        BY <1>1 DEF FilesFit, FilesKnown
      <4>4. HeardReceived(kept'[n])
        BY <4>1, <4>2
      <4>5. \E j \in DOMAIN heard' : heard'[j].about = "received" /\ heard'[j].file = kept'[n]
                                     /\ heard'[j].status = "received"
        BY <1>3, <4>4 DEF HeardReceived
      <4> QED
        BY <4>1, <4>2, <4>5 DEF HeardReceived
    <3> QED
      BY <1>1, <1>2, <2>1, <2>3, <3>1 DEF FilesFit, FilesKnown, Unsettled
  <2>5. ASSUME NEW i \in DOMAIN outcomes, outcomes[i].phase = "receive" PROVE ReceiptFits(outcomes[i])'
    <3>1. ReceiptFits(outcomes[i])
      BY <1>1, <2>5 DEF FilesFit, ReceiptsFit
    <3>2. CASE outcomes[i].file # f
      BY <1>1, <1>2, <2>1, <2>3, <3>1, <3>2 DEF ReceiptFits, Unsettled
    <3>3. CASE outcomes[i].file = f
      <4>1. outcomes[i].status = "received" /\ outcomes[i].chapter = 0 /\ Settled(outcomes, f, 1..chapter)
        BY <1>1, <2>2, <3>1, <3>3 DEF ReceiptFits, FlushedTo
      <4>2. CASE chapter < chapters
        <5>1. kept' = kept /\ chapter' - 1 = chapter
          BY <1>1, <2>3, <4>2
        <5>2. \E n \in DOMAIN kept' : kept'[n] = outcomes[i].file
          BY <2>2, <3>3, <5>1 DEF IsKept
        <5>3. Settled(outcomes, outcomes[i].file, IF outcomes[i].file = Head(kept') THEN 1..(chapter' - 1) ELSE {})
          BY <3>3, <4>1, <5>1
        <5> QED
          BY <1>2, <2>1, <4>1, <5>2, <5>3 DEF ReceiptFits, FlushedTo, IsKept, Untold
      <4>3. CASE ~(chapter < chapters)
        <5>1. chapter = chapters
          BY <1>1, <4>3
        <5>2. DoneWith(outcomes, outcomes[i], chapters)
          BY <2>1, <3>3, <4>1, <5>1 DEF DoneWith
        <5>3. ~(\E n \in DOMAIN kept' : kept'[n] = outcomes[i].file)
          BY <2>3, <3>3, <4>3
        <5> QED
          BY <1>2, <2>1, <5>2, <5>3 DEF ReceiptFits, IsKept, Unsettled
      <4> QED
        BY <4>2, <4>3
    <3> QED
      BY <3>2, <3>3
  <2> QED
    BY <1>2, <1>4, <2>1, <2>3, <2>4, <2>5 DEF FilesInv, FilesFit, ReceiptsFit
<1>6. CASE filesDoing # "flush"
  <2>1. filesDoing \in Additional!Hooks /\ kept' = kept /\ Additional!FileEnds
    BY <1>1, <1>6 DEF FilesFit, StagesFit
  <2>2. Continues
    BY <1>1, <2>1, FileContinues DEF FilesFit
  <2>3. StagesFit' /\ filesDoing' # "stopped"
    BY <1>1, <1>2, <2>1, <2>2, ContinuesFit DEF FilesFit
  <2>4. FilesTyped' /\ fileAt' = "none"
    BY <1>1, <1>2, <2>1, <2>2 DEF FilesTyped, Continues
  <2>5. FilesKnown'
    <3>1. ASSUME NEW n \in DOMAIN kept' PROVE HeardReceived(kept[n])'
      <4>1. HeardReceived(kept[n])
        BY <1>1, <2>1, <3>1 DEF FilesFit, FilesKnown
      <4>2. \E j \in DOMAIN heard' : heard'[j].about = "received" /\ heard'[j].file = kept[n]
                                     /\ heard'[j].status = "received"
        BY <1>3, <4>1 DEF HeardReceived
      <4> QED
        BY <2>1, <4>2 DEF HeardReceived
    <3> QED
      BY <1>1, <1>2, <2>1, <2>4, <3>1 DEF FilesFit, FilesKnown, Unsettled
  <2>6. \A g : (IsKept(g)' <=> IsKept(g)) /\ (IsKept(g) => FlushedTo(g)' = FlushedTo(g))
    <3>1. kept # <<>> => chapter = 0 /\ chapter' = 0
      BY <1>1, <2>1, <2>2 DEF FilesFit, StagesFit, Additional!Hooks, Continues
    <3>2. 1..(0 - 1) = {} /\ 1..0 = {}
      OBVIOUS
    <3> QED
      BY <2>1, <2>4, <3>1, <3>2 DEF IsKept, FlushedTo, Untold
  <2>7. ASSUME NEW i \in DOMAIN outcomes, outcomes[i].phase = "receive" PROVE ReceiptFits(outcomes[i])'
    <3>1. ReceiptFits(outcomes[i])
      BY <1>1, <2>7 DEF FilesFit, ReceiptsFit
    <3> QED
      BY <1>1, <1>2, <2>4, <2>6, <3>1 DEF ReceiptFits, Unsettled
  <2> QED
    BY <1>2, <1>4, <2>3, <2>4, <2>5, <2>7 DEF FilesInv, FilesFit, ReceiptsFit
<1> QED
  BY <1>5, <1>6

LEMMA FilesStep == FilesInv /\ [Additional!FilesNext]_fileVars => FilesInv'
BY HooksGoOn, FileBegins, FileReceived, ReceiptTold, FileKept, FileSaved, ManifestComes, KeptSaved,
   FileRead, SaveTold, OperationStops
   DEF Additional!FilesNext

\* However receipts, saves and callbacks fail, whenever the operation is
\* cancelled, and for any number of files and chapters: an operation that ends
\* has settled every file it received in every chapter it is for, the plugin has
\* heard of each save that was tried, in order and after the file was received,
\* and what is recorded as saved is on the disk.  Of an operation that is stopped
\* between an outcome and its callback the plugin misses one save, the last
\* (AdditionalFiles).
THEOREM FilesGetSettled == AllSpec => []FilesAreSettled
<1>1. AllInit => FilesInv
  <2> SUFFICES ASSUME Additional!FilesInit PROVE FilesInv
    BY DEF AllInit
  <2> USE DEF Additional!FilesInit
  <2>1. FilesTyped
    BY DEF FilesTyped
  <2>2. HeardIn(heard) = {} /\ TriedIn(outcomes) = {} /\ DOMAIN outcomes = {} /\ DOMAIN kept = {}
    BY DEF HeardIn, TriedIn
  <2>3. InOrder(heard, outcomes)
    BY <2>2 DEF InOrder, Matches
  <2>4. FilesFit
    BY <2>2 DEF FilesFit, StagesFit, FilesKnown, ReceiptsFit, Unsettled, Untold
  <2>5. RecordsFit
    BY <2>2, <2>3 DEF RecordsFit, ToldFits, Untold, HeardAfterReceipt, SavedIsWritten
  <2> QED
    BY <2>1, <2>4, <2>5 DEF FilesInv
<1>2. FilesInv /\ [AllNext]_allVars => FilesInv'
  BY FilesStep, FilesMove
<1>3. FilesInv => FilesAreSettled
  <2> SUFFICES ASSUME FilesInv PROVE Additional!FilesAreSettled
    BY DEF FilesAreSettled
  <2>1. filesDoing = "ended" => Additional!SettledOnce
    BY AllAreSettled DEF FilesInv
  <2>2. Additional!ToldInOrder
    <3>1. CASE fileAt \in Untold
      <4>1. Coming \in Messages /\ Coming.about = "saved" /\ InOrder(Append(heard, Coming), outcomes)
            /\ heard \in Seq(Messages)
        BY <3>1 DEF FilesInv, FilesTyped, RecordsFit, ToldFits, ComingFits, Coming, Additional!Message
      <4>2. OneUntold(heard, outcomes)
        BY <4>1, OneIsComing
      <4> QED
        BY <3>1, <4>2, OrderIs DEF Untold
    <3>2. CASE fileAt \notin Untold
      BY <3>2, OrderIs DEF FilesInv, RecordsFit, ToldFits
    <3> QED
      BY <3>1, <3>2
  <2>3. Additional!HeardOf = HeardIn(heard)
    BY DEF Additional!HeardOf, HeardIn
  <2> QED
    BY <2>1, <2>2, <2>3 DEF FilesInv, RecordsFit, HeardAfterReceipt, SavedIsWritten, Additional!FilesAreSettled
<1> QED
  BY <1>1, <1>2, <1>3, PTL DEF AllSpec

-----------------------------------------------------------------------------
(***************************************************************************)
(* The operations of a command (SiteOperation).  An instance that is in    *)
(* use is held by the selection, by the operation or by its chain, and     *)
(* where the operation is says which of them may hold one: that is what    *)
(* the invariant adds.                                                     *)
(***************************************************************************)

Held == {chain[k] : k \in DOMAIN chain}

\* The instances that are held exist, and are held once.
Holders ==
  /\ cleanups \in Seq(Nat)
  /\ selection \in [instance : Nat, owned : BOOLEAN]
  /\ site \in 0..Len(cleanups)
  /\ chain \in Seq(1..Len(cleanups))
  /\ selection.owned => selection.instance \in 1..Len(cleanups)
  /\ \A j, k \in DOMAIN chain : chain[j] = chain[k] => j = k
  /\ site \notin Held

\* Who may hold an instance is known from what the command does.
HeldWhile ==
  /\ site # 0 <=> doing \in {"build", "construct", "body", "close", "cleanup"}
  /\ chain # <<>> => doing \in {"construct", "body", "close"}
  /\ doing = "construct" \/ chain # <<>> => Operation!Downloads
  /\ selection.owned => doing \in {"acquire", "prepare", "open", "release"}
  /\ doing = "acquire" => ~feed

CleanedOnce == \A i \in DOMAIN cleanups : cleanups[i] = IF i \in Operation!InUse THEN 0 ELSE 1

OwnerInv == Holders /\ HeldWhile /\ CleanedOnce

\* The instances in use are those of the three holders.
LEMMA InUseIsHeld ==
  ASSUME Holders
  PROVE  Operation!InUse = (IF site = 0 THEN {} ELSE {site}) \cup Held
                 \cup (IF selection.owned THEN {selection.instance} ELSE {})
  BY DEF Operation!InUse, Holders, Held

\* A step that moves no instance and cleans up none only has to keep HeldWhile.
LEMMA HoldersStay ==
  ASSUME OwnerInv, UNCHANGED <<Operation!owners, cleanups>>
  PROVE  Holders' /\ CleanedOnce'
  BY DEF OwnerInv, Holders, CleanedOnce, Operation!InUse, Held, Operation!owners

\* At first nothing was made.
LEMMA OwnerInit == Operation!SiteInit => OwnerInv
<1> SUFFICES ASSUME Operation!SiteInit PROVE OwnerInv
  OBVIOUS
<1>1. Holders
  BY DEF Operation!SiteInit, Holders, Held
<1>2. HeldWhile
  BY DEF Operation!SiteInit, HeldWhile
<1>3. CleanedOnce
  BY DEF Operation!SiteInit, CleanedOnce
<1> QED
  BY <1>1, <1>2, <1>3 DEF OwnerInv

\* Selecting makes an instance that the selection holds.
LEMMA SelectKeeps ==
  ASSUME OwnerInv, NEW r \in Operation!Results, Operation!Select(r)
  PROVE  OwnerInv'
<1>1. site = 0 /\ chain = <<>> /\ ~selection.owned
  BY DEF OwnerInv, HeldWhile, Operation!Select, Operation!Go
<1>2. CASE r # "ok"
  <2>1. UNCHANGED <<Operation!owners, cleanups>> /\ doing' = "release"
    BY <1>2 DEF Operation!Select, Operation!owners, Operation!Go
  <2> QED
    BY <1>1, <2>1, HoldersStay DEF OwnerInv, HeldWhile, Operation!owners
<1>3. CASE r = "ok"
  <2>1. /\ selection' = [instance |-> Len(cleanups) + 1, owned |-> TRUE]
        /\ cleanups' = Append(cleanups, 0)
        /\ site' = 0 /\ chain' = <<>>
        /\ doing' = "prepare" \/ (doing' = "acquire" /\ ~feed')
    BY <1>1, <1>3 DEF Operation!Select, Operation!Make, Operation!New, Operation!Go,
       Operation!control
  <2>2. cleanups \in Seq(Nat)
    BY DEF OwnerInv, Holders
  <2>3. /\ cleanups' \in Seq(Nat)
        /\ Len(cleanups') = Len(cleanups) + 1
        /\ cleanups'[Len(cleanups) + 1] = 0
        /\ \A i \in DOMAIN cleanups : cleanups'[i] = cleanups[i]
    BY <2>1, <2>2
  <2>4. Holders'
    BY <2>1, <2>2, <2>3 DEF Holders, Held
  <2>5. HeldWhile'
    BY <2>1 DEF HeldWhile
  <2>6. Operation!InUse = {}
    BY <1>1 DEF Operation!InUse, OwnerInv, Holders
  <2>7. Operation!InUse' = {Len(cleanups) + 1}
    BY <2>1, <2>2, <2>3 DEF Operation!InUse
  <2>8. CleanedOnce'
    BY <2>2, <2>3, <2>6, <2>7 DEF OwnerInv, CleanedOnce
  <2> QED
    BY <2>4, <2>5, <2>8 DEF OwnerInv
<1> QED
  BY <1>2, <1>3

\* An operation that opens without a selection makes the site's instance.
LEMMA OpenKeeps ==
  ASSUME OwnerInv, NEW r \in Operation!Results, Operation!Open(r)
  PROVE  OwnerInv'
<1>1. site = 0 /\ chain = <<>> /\ ~selection.owned
  BY DEF OwnerInv, HeldWhile, Operation!Open, Operation!Go
<1>2. CASE r # "ok"
  <2>1. UNCHANGED <<Operation!owners, cleanups>> /\ doing' = "after"
    BY <1>2 DEF Operation!Open, Operation!owners, Operation!Go
  <2> QED
    BY <1>1, <2>1, HoldersStay DEF OwnerInv, HeldWhile, Operation!owners
<1>3. CASE r = "ok"
  <2>1. /\ site' = Len(cleanups) + 1
        /\ cleanups' = Append(cleanups, 0)
        /\ selection' = selection /\ chain' = <<>>
        /\ doing' = "build"
    BY <1>1, <1>3 DEF Operation!Open, Operation!Make, Operation!New, Operation!Go
  <2>2. cleanups \in Seq(Nat)
    BY DEF OwnerInv, Holders
  <2>3. /\ cleanups' \in Seq(Nat)
        /\ Len(cleanups') = Len(cleanups) + 1
        /\ cleanups'[Len(cleanups) + 1] = 0
        /\ \A i \in DOMAIN cleanups : cleanups'[i] = cleanups[i]
    BY <2>1, <2>2
  <2>4. Holders'
    BY <1>1, <2>1, <2>2, <2>3 DEF OwnerInv, Holders, Held
  <2>5. HeldWhile'
    BY <1>1, <2>1, <2>2 DEF HeldWhile
  <2>6. Operation!InUse = {}
    BY <1>1 DEF Operation!InUse, OwnerInv, Holders
  <2>7. Operation!InUse' = {Len(cleanups) + 1}
    BY <1>1, <2>1, <2>2, <2>3 DEF Operation!InUse
  <2>8. CleanedOnce'
    BY <2>2, <2>3, <2>6, <2>7 DEF OwnerInv, CleanedOnce
  <2> QED
    BY <2>4, <2>5, <2>8 DEF OwnerInv
<1> QED
  BY <1>2, <1>3

\* What the selection held the operation holds.
LEMMA ClaimKeeps ==
  ASSUME OwnerInv, Operation!Claim
  PROVE  OwnerInv'
<1>1. /\ site = 0 /\ chain = <<>> /\ selection.owned
      /\ site' = selection.instance /\ ~selection'.owned
      /\ selection' \in [instance : Nat, owned : BOOLEAN]
      /\ UNCHANGED <<chain, cleanups>>
      /\ doing' = "build"
  BY DEF OwnerInv, Holders, HeldWhile, Operation!Claim, Operation!Go
<1>2. Holders'
  BY <1>1 DEF OwnerInv, Holders, Held
<1>3. HeldWhile'
  BY <1>1 DEF OwnerInv, Holders, HeldWhile
<1>4. Operation!InUse' = Operation!InUse
  BY <1>1 DEF Operation!InUse, OwnerInv, Holders
<1>5. CleanedOnce'
  BY <1>1, <1>4 DEF OwnerInv, CleanedOnce
<1> QED
  BY <1>2, <1>3, <1>5 DEF OwnerInv

\* A processor is held by the chain as soon as it is made.
LEMMA ConstructKeeps ==
  ASSUME OwnerInv, NEW r \in Operation!Results, Operation!Construct(r)
  PROVE  OwnerInv'
<1>1. site # 0 /\ ~selection.owned
  BY DEF OwnerInv, HeldWhile, Operation!Construct, Operation!Go
<1>2. /\ UNCHANGED <<selection, site>>
      /\ cleanups' = Append(cleanups, 0)
      /\ chain' = Append(chain, Len(cleanups) + 1)
      /\ doing' \in {"construct", "close"}
  BY DEF Operation!Construct, Operation!Make, Operation!New, Operation!Go
<1>3. cleanups \in Seq(Nat) /\ chain \in Seq(1..Len(cleanups))
  BY DEF OwnerInv, Holders
<1>4. /\ cleanups' \in Seq(Nat)
      /\ Len(cleanups') = Len(cleanups) + 1
      /\ cleanups'[Len(cleanups) + 1] = 0
      /\ \A i \in DOMAIN cleanups : cleanups'[i] = cleanups[i]
      /\ DOMAIN cleanups' = DOMAIN cleanups \cup {Len(cleanups) + 1}
  BY <1>2, <1>3
<1>5. /\ chain' \in Seq(1..Len(cleanups'))
      /\ Len(chain') = Len(chain) + 1
      /\ chain'[Len(chain) + 1] = Len(cleanups) + 1
      /\ DOMAIN chain = 1..Len(chain) /\ Len(chain) \in Nat
      /\ DOMAIN chain' = 1..(Len(chain) + 1)
      /\ \A k \in DOMAIN chain : chain'[k] = chain[k]
  <2>1. chain \in Seq(1..(Len(cleanups) + 1))
    BY <1>3
  <2> QED
    BY <1>2, <1>3, <1>4, <2>1
<1>6. Held' = Held \cup {Len(cleanups) + 1}
  <2>1. \A k \in DOMAIN chain' : k \in DOMAIN chain \/ k = Len(chain) + 1
    BY <1>5
  <2>2. DOMAIN chain \subseteq DOMAIN chain' /\ Len(chain) + 1 \in DOMAIN chain'
    BY <1>5
  <2> QED
    BY <1>5, <2>1, <2>2 DEF Held
<1>7. Holders'
  <2>1. \A j, k \in DOMAIN chain' : chain'[j] = chain'[k] => j = k
    <3>1. \A k \in DOMAIN chain : chain[k] \in 1..Len(cleanups)
      BY <1>3
    <3>2. \A k \in DOMAIN chain : chain[k] # Len(cleanups) + 1
      BY <1>3, <3>1
    <3>3. \A k \in DOMAIN chain' : k \in DOMAIN chain \/ k = Len(chain) + 1
      BY <1>5
    <3> QED
      BY <1>5, <3>2, <3>3 DEF OwnerInv, Holders
  <2>2. site' \in 0..Len(cleanups') /\ site' \notin Held'
    BY <1>2, <1>3, <1>4, <1>6 DEF OwnerInv, Holders
  <2> QED
    BY <1>1, <1>2, <1>4, <1>5, <2>1, <2>2 DEF OwnerInv, Holders
<1>8. HeldWhile'
  <2>1. doing = "construct" /\ UNCHANGED <<command, urls>>
    BY DEF Operation!Construct, Operation!control, Operation!Go
  <2> QED
    BY <1>1, <1>2, <2>1 DEF OwnerInv, HeldWhile, Operation!Downloads
<1>9. Operation!InUse' = Operation!InUse \cup {Len(cleanups) + 1}
  <2>1. Holders
    BY DEF OwnerInv
  <2>2. Operation!InUse' = (IF site' = 0 THEN {} ELSE {site'}) \cup Held'
                 \cup (IF selection'.owned THEN {selection'.instance} ELSE {})
    BY <1>7 DEF Operation!InUse, Holders, Held
  <2> QED
    BY <1>2, <1>6, <2>1, <2>2, InUseIsHeld
<1>10. CleanedOnce'
  <2>1. Len(cleanups) + 1 \notin DOMAIN cleanups
    BY <1>3
  <2> QED
    BY <1>4, <1>9, <2>1 DEF OwnerInv, CleanedOnce
<1> QED
  BY <1>7, <1>8, <1>10 DEF OwnerInv

\* The chain gives up the processor that it cleans up.
LEMMA CloseProcessorKeeps ==
  ASSUME OwnerInv, NEW r \in Operation!Results, Operation!CloseProcessor(r)
  PROVE  OwnerInv'
<1> DEFINE last == chain[Len(chain)]
<1>1. /\ doing = "close" /\ doing' = "close"
      /\ site # 0 /\ ~selection.owned
      /\ UNCHANGED <<selection, site>>
  BY DEF OwnerInv, HeldWhile, Operation!CloseProcessor
<1>2. /\ cleanups \in Seq(Nat) /\ chain \in Seq(1..Len(cleanups))
      /\ Len(chain) \in Nat /\ Len(chain) > 0
      /\ last \in 1..Len(cleanups)
  BY DEF OwnerInv, Holders, Operation!CloseProcessor
<1>3. /\ cleanups' \in Seq(Nat)
      /\ Len(cleanups') = Len(cleanups)
      /\ DOMAIN cleanups' = DOMAIN cleanups
      /\ \A i \in DOMAIN cleanups : cleanups'[i] = IF i = last THEN cleanups[i] + 1 ELSE cleanups[i]
  BY <1>2 DEF Operation!CloseProcessor, Operation!CleanUp
<1>4. /\ chain' \in Seq(1..Len(cleanups))
      /\ Len(chain') = Len(chain) - 1
      /\ DOMAIN chain = 1..Len(chain)
      /\ DOMAIN chain' = 1..(Len(chain) - 1)
      /\ \A k \in DOMAIN chain' : chain'[k] = chain[k]
  <2>1. chain' = SubSeq(chain, 1, Len(chain) - 1)
    BY DEF Operation!CloseProcessor
  <2>2. /\ chain' \in Seq(1..Len(cleanups))
        /\ Len(chain') = Len(chain) - 1
        /\ \A k \in 1..(Len(chain) - 1) : chain'[k] = chain[k]
    <3> DEFINE n == Len(chain) - 1
    <3>1. n \in Nat /\ \A k \in 1..n : chain[k] \in 1..Len(cleanups)
      BY <1>2
    <3>2. /\ SubSeq(chain, 1, n) \in Seq(1..Len(cleanups))
          /\ Len(SubSeq(chain, 1, n)) = IF 1 <= n THEN n - 1 + 1 ELSE 0
          /\ \A k \in 1..(n - 1 + 1) : SubSeq(chain, 1, n)[k] = chain[1 + k - 1]
      BY <3>1, SubSeqProperties
    <3>3. n - 1 + 1 = n /\ \A k \in 1..n : 1 + k - 1 = k
      BY <3>1
    <3>4. (IF 1 <= n THEN n ELSE 0) = n
      <4>1. n \in Nat
        BY <3>1
      <4> HIDE DEF n
      <4>2. CASE 1 <= n
        BY <4>1, <4>2
      <4>3. CASE ~(1 <= n)
        BY <4>1, <4>3
      <4> QED
        BY <4>2, <4>3
    <3> QED
      BY <2>1, <3>2, <3>3, <3>4
  <2>3. DOMAIN chain = 1..Len(chain) /\ DOMAIN chain' = 1..Len(chain')
    BY <1>2, <2>2
  <2> QED
    BY <2>2, <2>3
<1>5. Held' = Held \ {last}
  <2>1. \A k \in DOMAIN chain : chain[k] = last => k = Len(chain)
    <3>1. Len(chain) \in DOMAIN chain
      BY <1>2, <1>4
    <3> QED
      BY <3>1 DEF OwnerInv, Holders
  <2>2. \A k : k \in DOMAIN chain' <=> k \in DOMAIN chain /\ k # Len(chain)
    BY <1>2, <1>4
  <2> QED
    BY <1>2, <1>4, <2>1, <2>2 DEF Held
<1>6. Holders'
  <2>1. DOMAIN chain' \subseteq DOMAIN chain
    BY <1>2, <1>4
  <2>2. \A j, k \in DOMAIN chain' : chain'[j] = chain'[k] => j = k
    BY <1>4, <2>1 DEF OwnerInv, Holders
  <2> QED
    BY <1>1, <1>2, <1>3, <1>4, <1>5, <2>2 DEF OwnerInv, Holders
<1>7. HeldWhile'
  <2>1. chain # <<>> /\ UNCHANGED <<command, urls>>
    BY DEF Operation!CloseProcessor, Operation!control
  <2> QED
    BY <1>1, <2>1 DEF OwnerInv, HeldWhile, Operation!Downloads
<1>8. Operation!InUse' = Operation!InUse \ {last} /\ last \in Operation!InUse
  <2>1. Holders
    BY DEF OwnerInv
  <2>2. Operation!InUse' = (IF site' = 0 THEN {} ELSE {site'}) \cup Held'
                 \cup (IF selection'.owned THEN {selection'.instance} ELSE {})
    BY <1>6 DEF Operation!InUse, Holders, Held
  <2>3. last \in Held /\ site # last
    BY <1>2 DEF OwnerInv, Holders, Held
  <2> QED
    BY <1>1, <1>5, <2>1, <2>2, <2>3, InUseIsHeld
<1>9. CleanedOnce'
  BY <1>2, <1>3, <1>8 DEF OwnerInv, CleanedOnce
<1> QED
  BY <1>6, <1>7, <1>9 DEF OwnerInv

\* The operation gives up its site, when its chain is closed.
LEMMA CleanUpSiteKeeps ==
  ASSUME OwnerInv, NEW r \in Operation!Results, Operation!CleanUpSite(r)
  PROVE  OwnerInv'
<1>1. /\ site # 0 /\ chain = <<>> /\ ~selection.owned
      /\ site' = 0 /\ UNCHANGED <<selection, chain>>
      /\ doing' = "after"
  BY DEF OwnerInv, HeldWhile, Operation!CleanUpSite, Operation!Go
<1>2. /\ cleanups \in Seq(Nat) /\ site \in 1..Len(cleanups)
      /\ cleanups' \in Seq(Nat)
      /\ Len(cleanups') = Len(cleanups)
      /\ DOMAIN cleanups' = DOMAIN cleanups
      /\ \A i \in DOMAIN cleanups : cleanups'[i] = IF i = site THEN cleanups[i] + 1 ELSE cleanups[i]
  BY <1>1 DEF OwnerInv, Holders, Operation!CleanUpSite, Operation!CleanUp
<1>3. Holders'
  BY <1>1, <1>2 DEF OwnerInv, Holders, Held
<1>4. HeldWhile'
  BY <1>1 DEF HeldWhile
<1>5. Operation!InUse = {site} /\ Operation!InUse' = {}
  BY <1>1, <1>2 DEF Operation!InUse
<1>6. CleanedOnce'
  BY <1>2, <1>5 DEF OwnerInv, CleanedOnce
<1> QED
  BY <1>3, <1>4, <1>6 DEF OwnerInv

\* The selection gives up an instance that no operation took over.
LEMMA ReleaseSelectionKeeps ==
  ASSUME OwnerInv, Operation!ReleaseSelection
  PROVE  OwnerInv'
<1>1. /\ site = 0 /\ chain = <<>> /\ selection.owned
      /\ ~selection'.owned /\ UNCHANGED <<site, chain>>
      /\ selection' \in [instance : Nat, owned : BOOLEAN]
      /\ doing' = "release"
  BY DEF OwnerInv, Holders, HeldWhile, Operation!ReleaseSelection
<1>2. /\ cleanups \in Seq(Nat) /\ selection.instance \in 1..Len(cleanups)
      /\ cleanups' \in Seq(Nat)
      /\ Len(cleanups') = Len(cleanups)
      /\ DOMAIN cleanups' = DOMAIN cleanups
      /\ \A i \in DOMAIN cleanups :
           cleanups'[i] = IF i = selection.instance THEN cleanups[i] + 1 ELSE cleanups[i]
  BY <1>1 DEF OwnerInv, Holders, Operation!ReleaseSelection, Operation!CleanUp
<1>3. Holders'
  BY <1>1, <1>2 DEF OwnerInv, Holders, Held
<1>4. HeldWhile'
  BY <1>1 DEF HeldWhile
<1>5. Operation!InUse = {selection.instance} /\ Operation!InUse' = {}
  BY <1>1, <1>2 DEF Operation!InUse
<1>6. CleanedOnce'
  BY <1>2, <1>5 DEF OwnerInv, CleanedOnce
<1> QED
  BY <1>3, <1>4, <1>6 DEF OwnerInv

\* All other steps move no instance: between the places where nothing is held,
\* or where the operation holds its site and perhaps its chain.
ControlMoves ==
  \/ \E r \in Operation!Results :
       \/ Operation!AcquireFeed(r) \/ Operation!Prepare(r) \/ Operation!Retry(r)
       \/ Operation!Build(r) \/ Operation!Body(r) \/ Operation!Return(r)
       \/ \E n \in 0..Urls : Operation!Checked(r, n)
       \/ \E stops \in BOOLEAN : Operation!Downloaded(r, stops)
  \/ Operation!ConstructNothing \/ Operation!Constructed \/ Operation!ChainCloses
  \/ Operation!ReleaseFeed \/ Operation!NoRetry \/ UNCHANGED Operation!siteVars

LEMMA ControlKeeps ==
  ASSUME OwnerInv, ControlMoves
  PROVE  OwnerInv'
<1>1. UNCHANGED <<Operation!owners, cleanups>>
  BY DEF ControlMoves, Operation!AcquireFeed, Operation!Prepare, Operation!Retry,
     Operation!Build, Operation!Body, Operation!Return, Operation!Checked, Operation!Downloaded,
     Operation!ConstructNothing, Operation!Constructed, Operation!ChainCloses,
     Operation!ReleaseFeed, Operation!NoRetry, Operation!siteVars
<1>2. Operation!Downloads' = Operation!Downloads \/ doing' \notin {"construct", "body", "close"}
  BY DEF ControlMoves, Operation!AcquireFeed, Operation!Prepare, Operation!Retry,
     Operation!Build, Operation!Body, Operation!Return, Operation!Checked, Operation!Downloaded,
     Operation!ConstructNothing, Operation!Constructed, Operation!ChainCloses,
     Operation!ReleaseFeed, Operation!NoRetry, Operation!siteVars, Operation!Go,
     Operation!Downloads, Operation!control
<1>3. \/ doing \in {"acquire", "prepare"} /\ doing' \in {"prepare", "open", "release"}
      \/ doing \in {"wait", "after"} /\ doing' \in {"select", "open", "wait", "release", "end"}
      \/ doing = "release" /\ ~selection.owned /\ doing' = "end"
      \/ doing = "build" /\ doing' \in {"cleanup", "body"}
      \/ doing = "build" /\ Operation!Downloads /\ doing' = "construct"
      \/ doing = "construct" /\ doing' \in {"body", "close"}
      \/ doing = "body" /\ Operation!Downloads /\ doing' = "close"
      \/ doing = "body" /\ ~Operation!Downloads /\ doing' = "cleanup"
      \/ doing = "close" /\ chain = <<>> /\ doing' = "cleanup"
      \/ UNCHANGED <<doing, command, urls, feed>>
  BY DEF ControlMoves, Operation!AcquireFeed, Operation!Prepare, Operation!Retry,
     Operation!Build, Operation!Body, Operation!Return, Operation!Checked, Operation!Downloaded,
     Operation!ConstructNothing, Operation!Constructed, Operation!ChainCloses,
     Operation!ReleaseFeed, Operation!NoRetry, Operation!siteVars, Operation!control,
     Operation!Go
<1>4. HeldWhile'
  BY <1>1, <1>2, <1>3 DEF OwnerInv, HeldWhile, Operation!owners, Operation!Downloads
<1> QED
  BY <1>1, <1>4, HoldersStay DEF OwnerInv

LEMMA SiteKeeps == OwnerInv /\ [Operation!SiteNext]_Operation!siteVars => OwnerInv'
<1> SUFFICES ASSUME OwnerInv, [Operation!SiteNext]_Operation!siteVars PROVE OwnerInv'
  OBVIOUS
<1>1. CASE ControlMoves
  BY <1>1, ControlKeeps
<1>2. CASE \E r \in Operation!Results :
          Operation!Select(r) \/ Operation!Open(r) \/ Operation!Construct(r)
  BY <1>2, SelectKeeps, OpenKeeps, ConstructKeeps
<1>3. CASE \E r \in Operation!Results : Operation!CloseProcessor(r) \/ Operation!CleanUpSite(r)
  BY <1>3, CloseProcessorKeeps, CleanUpSiteKeeps
<1>4. CASE Operation!Claim \/ Operation!ReleaseSelection
  BY <1>4, ClaimKeeps, ReleaseSelectionKeeps
<1> QED
  BY <1>1, <1>2, <1>3, <1>4 DEF ControlMoves, Operation!SiteNext, Operation!SiteEnds

\* Each operation goes on as SiteOperation says, or is not the one that moves.
LEMMA OperationMoves == [AllNext]_allVars => [Operation!SiteNext]_Operation!siteVars
  BY DEF AllNext, Moves, Rests, allVars, siteVars, Operation!siteVars, Operation!owners,
     Operation!control

\* However an operation that a command opens fails or is cancelled, with any
\* number of processors, candidates and retries: every plugin instance made for
\* it is cleaned up once, after the processors that use it and before the feed
\* is released (SiteOperation).
THEOREM OwnedByOne == AllSpec => OneOwner
<1> DEFINE Once ==
      /\ \A i \in DOMAIN cleanups : cleanups[i] = IF i \in Operation!InUse THEN 0 ELSE 1
      /\ chain # <<>> => site # 0
      /\ doing = "end" => Operation!InUse = {}
<1>1. AllInit => OwnerInv
  BY OwnerInit DEF AllInit
<1>2. OwnerInv /\ [AllNext]_allVars => OwnerInv'
  BY OperationMoves, SiteKeeps
<1>3. ASSUME OwnerInv PROVE Once
  <2>1. chain # <<>> => site # 0
    BY <1>3 DEF OwnerInv, HeldWhile
  <2>2. doing = "end" => Operation!InUse = {}
    BY <1>3, InUseIsHeld DEF OwnerInv, HeldWhile, Holders, Operation!InUse
  <2> QED
    BY <1>3, <2>1, <2>2 DEF OwnerInv, CleanedOnce
<1>4. ASSUME OwnerInv, [Operation!SiteNext]_Operation!siteVars
      PROVE  [feed /\ ~feed' => Operation!InUse = {}]_Operation!siteVars
  <2> SUFFICES ASSUME Operation!SiteNext, feed, ~feed'
               PROVE  Operation!InUse = {}
    BY <1>4 DEF Operation!siteVars, Operation!control
  <2>1. Operation!ReleaseFeed \/ \E r \in Operation!Results : Operation!AcquireFeed(r)
    BY DEF Operation!SiteNext, Operation!SiteEnds, Operation!Select, Operation!Prepare,
       Operation!Retry, Operation!Open, Operation!Build, Operation!Construct, Operation!Body,
       Operation!CloseProcessor, Operation!CleanUpSite, Operation!Return, Operation!Checked,
       Operation!Downloaded, Operation!Claim, Operation!ConstructNothing, Operation!Constructed,
       Operation!ChainCloses, Operation!ReleaseSelection, Operation!NoRetry, Operation!siteVars,
       Operation!control
  <2>2. CASE Operation!ReleaseFeed
    <3>1. site = 0 /\ chain = <<>> /\ ~selection.owned
      BY <1>4, <2>2 DEF OwnerInv, HeldWhile, Operation!ReleaseFeed, Operation!Go
    <3> QED
      BY <1>4, <3>1 DEF Operation!InUse, OwnerInv, Holders
  <2>3. ~\E r \in Operation!Results : Operation!AcquireFeed(r)
    BY <1>4 DEF OwnerInv, HeldWhile, Operation!AcquireFeed, Operation!Go
  <2> QED
    BY <2>1, <2>2, <2>3
<1> QED
  BY <1>1, <1>2, <1>3, <1>4, OperationMoves, PTL DEF AllSpec, OneOwner, Operation!OneOwner

===============================================================================
