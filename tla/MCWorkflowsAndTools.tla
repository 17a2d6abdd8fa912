------------------------ MODULE MCWorkflowsAndTools ------------------------
(* Long commands that share files with others.  One of these moves in a        *)
(* behaviour: two processes run the workflow of one feed with two candidates,   *)
(* where the feed may publish a new revision, move a candidate to the other's   *)
(* URL, or drop it; two extensions of a plugin, which its author edits; or a    *)
(* command of the developer tools and its worker.                              *)
EXTENDS WorkflowRun, TLC

CONSTANTS x, y, a, b, e1, e2,
          Extenders, Additions, Originals, Kind, EditedHooks, EditedSettings, MaxEdits, Overlap,
          Kinds, Systems, MaxRequests

VARIABLES
  mover,  \* the one that moves in this behaviour
  disk, requested, extendStep, original, baseline, snapshots, changes, applied, restoring, edits, met,
  result,
  command, platform, client, asked, verdict, stop, exitCode, input, piped, channel, worker, serving,
  closing, instance, service, broken, reading, signals, killed, sent, shown

Extension == INSTANCE ProjectExtension WITH updates <- requested, step <- extendStep
Session == INSTANCE DevSession WITH exit <- exitCode

ASSUME ExtensionHolds == Extension!ExtensionAssumption
ASSUME SessionHolds == Session!SessionAssumption

extensionVars == <<disk, requested, extendStep, original, baseline, snapshots, changes, applied,
                   restoring, edits, met, result>>
sessionVars == <<command, platform, client, asked, verdict, stop, exitCode, input, piped, channel,
                 worker, serving, closing, instance, service, broken, reading, signals, killed, sent,
                 shown>>
allVars == <<mover, vars, extensionVars, sessionVars>>

\* Some setting of those that do not move is enough.
AllInit ==
  /\ mover \in {"workflow", "extension", "session"}
  /\ Init /\ Extension!ExtensionInit /\ Session!SessionInit
  /\ mover # "extension" =>
       disk = Extension!Unmanaged /\ requested = [e \in Extenders |-> CHOOSE U \in Additions : TRUE]
  /\ mover # "session" => command = "call" /\ platform = "posix"

\* Nothing but m moves.
Moves(m) ==
  /\ mover = m
  /\ UNCHANGED mover
  /\ m # "workflow" => UNCHANGED vars
  /\ m # "extension" => UNCHANGED extensionVars
  /\ m # "session" => UNCHANGED sessionVars

\* Extensions, or a command and its worker, that have come to their end.
Rests ==
  /\ \/ mover = "extension" /\ \A e \in Extenders : extendStep[e] = "ended"
     \/ mover = "session" /\ client = "ended"
  /\ UNCHANGED allVars

AllNext ==
  \/ Moves("workflow") /\ Next
  \/ Moves("extension") /\ Extension!ExtensionNext
  \/ Moves("session") /\ Session!SessionNext
  \/ Rests

\* The fairness of each, while it moves.
AllFairness ==
  /\ \A w \in Runs : WF_vars(mover = "workflow" /\ RunStep(w))
  /\ WF_sessionVars(mover = "session" /\ Session!Client)

AllSpec == AllInit /\ [][AllNext]_allVars /\ AllFairness

\* See ProjectExtension.  What stays as it was created is not looked at in every
\* state again.
EditsSurvive == mover = "extension" => Extension!EditsSurvive
RerunCompletes == mover = "extension" => Extension!RerunCompletes

\* What the developer tools say of a plugin, and their exit code (see DevSession).
AnswersAreTrue == mover = "session" => Session!SuccessesAreOwn /\ Session!ExitIsHonest

\* Whoever holds the feed or runs a tool gets through (see WorkflowRun and DevSession).
CommandsEnd == FeedIsReleased /\ (mover = "session" => Session!CommandEnds)

At(url, rev) == [url |-> url, rev |-> rev]

MCSnapshots == {
  (x :> At(a, 1)) @@ (y :> At(b, 1)),
  (x :> At(a, 2)) @@ (y :> At(b, 1)),
  (x :> At(b, 1)) @@ (y :> At(b, 1)),
  (y :> At(b, 1)) }
=============================================================================
