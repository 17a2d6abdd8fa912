--------------------------- MODULE WorkflowFinish ---------------------------
(***************************************************************************)
(* How a workflow run is recorded before its result is exposed             *)
(* (application/workflow_finalizer.py, workflow_recording.py).  The run is *)
(* saved in workflow-history.json, then its end is appended to the         *)
(* progress log.  Both are best effort and happen in threads that are      *)
(* never abandoned: a cancellation that arrives meanwhile becomes the      *)
(* outcome of the run, and what was recorded is revised.  When the service *)
(* fails to close after a run that succeeded, the command line revises     *)
(* the run once more (revise_after_close).                                 *)
(***************************************************************************)
CONSTANTS Runs, None,
          Broken  \* the log after a write that failed

\* What the run failed with.  "timeout" is the retry deadline of the workflow.
Failures == {"none", "error", "timeout", "cancelled"}

\* Exit codes: "own" is what the items say (0, 1 or 5), "stopped" what the
\* error says (1 to 4).
Exits == {"own", "stopped", "130"}

Entries == [exit : Exits, cancelled : BOOLEAN]
Results == [failure : Failures, timedOut : BOOLEAN, cancelled : BOOLEAN, saved : BOOLEAN]

Steps == {"working", "saving", "amending", "logging", "revising", "relogging", "exposed",
          "correcting", "corrected"}

VARIABLES
  fin,      \* fin[r]: the step of finish() that run r is in
  result,   \* result[r]: the WorkflowResult under construction
  history,  \* history[r]: its entry in workflow-history.json, None without
  log,      \* log[r]: the last end recorded in the progress log
  hit       \* history variable: the runs that were cancelled in finish()

vars == <<fin, result, history, log, hit>>

Init ==
  /\ fin = [r \in Runs |-> "working"]
  /\ result = [r \in Runs |-> [failure |-> "none", timedOut |-> FALSE,
                               cancelled |-> FALSE, saved |-> FALSE]]
  /\ history = [r \in Runs |-> None]
  /\ log = [r \in Runs |-> None]
  /\ hit = {}

\* stopped_status for a failure, workflow_status for a timeout or no failure.
ExitOf(res) ==
  IF res.failure = "none" \/ res.timedOut THEN "own"
  ELSE IF res.failure = "cancelled" THEN "130" ELSE "stopped"

Entry(e, res) == [exit |-> e, cancelled |-> res.cancelled]

Cancelled(res) == [res EXCEPT !.failure = "cancelled", !.cancelled = TRUE]

Go(r, s, t) == fin[r] = s /\ fin' = [fin EXCEPT ![r] = t]
Set(f, r, v) == [f EXCEPT ![r] = v]

\* The run ends with f.
Begin(r, f) ==
  /\ Go(r, "working", "saving")
  /\ result' = Set(result, r, [failure |-> f, timedOut |-> f = "timeout",
                               cancelled |-> f = "cancelled", saved |-> FALSE])
  /\ UNCHANGED <<history, log, hit>>

\* record_result: the write succeeds or raises.
Save(r) ==
  /\ Go(r, "saving", "logging")
  /\ \E ok \in BOOLEAN :
       /\ history' = IF ok THEN Set(history, r, Entry(ExitOf(result[r]), result[r])) ELSE history
       /\ result' = Set(result, r, [result[r] EXCEPT !.saved = ok])
  /\ UNCHANGED <<log, hit>>

\* ... and the run was cancelled meanwhile.
SaveFailsCancelled(r) ==
  /\ Go(r, "saving", "logging")
  /\ result' = Set(result, r, Cancelled(result[r]))
  /\ hit' = hit \cup {r}
  /\ UNCHANGED <<history, log>>

\* Mutant: what was saved is not amended.
SaveCancelledOnly(r) ==
  /\ Go(r, "saving", "logging")
  /\ history' = Set(history, r, Entry(ExitOf(result[r]), result[r]))
  /\ result' = Set(result, r, [Cancelled(result[r]) EXCEPT !.saved = TRUE])
  /\ hit' = hit \cup {r}
  /\ UNCHANGED log

SaveCancelled(r) ==
  /\ Go(r, "saving", "amending")
  /\ history' = Set(history, r, Entry(ExitOf(result[r]), result[r]))
  /\ result' = Set(result, r, [Cancelled(result[r]) EXCEPT !.saved = TRUE])
  /\ hit' = hit \cup {r}
  /\ UNCHANGED log

\* The history is revised to e: done, or the write raises, or the run is no
\* longer stored.  lost: revised, but a second revision raises.
Revise(r, e) ==
  \E ok \in BOOLEAN, lost \in BOOLEAN :
    /\ history' = IF ok THEN Set(history, r, Entry(e, result[r])) ELSE history
    /\ result' = Set(result, r, [result[r] EXCEPT !.saved = ok /\ ~lost])

\* finalize_cancel in record_result: another cancellation changes nothing.
Amend(r) ==
  /\ Go(r, "amending", "logging")
  /\ Revise(r, "130")
  /\ UNCHANGED <<log, hit>>

\* WorkflowLogWriter.event: a write that raises ends the log.
Append(r, e) ==
  log' = [log EXCEPT ![r] = IF @ = Broken THEN @ ELSE e]

AppendOrBreak(r, e, res) == Append(r, Entry(e, res)) \/ Append(r, Broken)

Log(r) ==
  /\ Go(r, "logging", "exposed")
  /\ AppendOrBreak(r, ExitOf(result[r]), result[r])
  /\ UNCHANGED <<result, history, hit>>

\* The run is cancelled while its end is logged.
LogCancelled(r) ==
  /\ Go(r, "logging", "revising")
  /\ AppendOrBreak(r, ExitOf(result[r]), result[r])
  /\ result' = Set(result, r, Cancelled(result[r]))
  /\ hit' = hit \cup {r}
  /\ UNCHANGED history

\* revise_result: only what was saved is revised.
ReviseHistory(r) ==
  /\ Go(r, "revising", "relogging")
  /\ IF result[r].saved THEN Revise(r, "130") ELSE UNCHANGED <<result, history>>
  /\ UNCHANGED <<log, hit>>

\* The corrected end is logged; a cancellation now changes nothing more.
LogCorrection(r) ==
  /\ Go(r, "relogging", "exposed")
  /\ AppendOrBreak(r, "130", result[r])
  /\ UNCHANGED <<result, history, hit>>

Finish(r) ==
  \/ Save(r) \/ SaveFailsCancelled(r) \/ SaveCancelled(r) \/ Amend(r)
  \/ Log(r) \/ LogCancelled(r) \/ ReviseHistory(r) \/ LogCorrection(r)

\* _finalize_shutdown: the service failed to close with f after a run that
\* succeeded.  The correction is shielded as a whole.
BeginCorrection(r, f) ==
  /\ Go(r, "exposed", "correcting")
  /\ result' = Set(result, r, [result[r] EXCEPT !.failure = f, !.cancelled = f = "cancelled"])
  /\ UNCHANGED <<history, log, hit>>

\* revise_after_close: the history, then the log.
Correct(r) ==
  /\ Go(r, "correcting", "corrected")
  /\ IF result[r].saved THEN Revise(r, ExitOf(result[r])) ELSE UNCHANGED <<result, history>>
  /\ AppendOrBreak(r, ExitOf(result[r]), result[r])
  /\ UNCHANGED hit

----------------------------------------------------------------------------

Exposed == {r \in Runs : fin[r] \in {"exposed", "corrected"}}

\* Every variable has its type.
TypeOK ==
  /\ fin \in [Runs -> Steps]
  /\ result \in [Runs -> Results]
  /\ history \in [Runs -> Entries \cup {None}]
  /\ log \in [Runs -> Entries \cup {None, Broken}]
  /\ hit \subseteq Runs

\* The exit code of every record and of the command is that of the result.
Agrees(r) ==
  LET entry == Entry(ExitOf(result[r]), result[r]) IN
  /\ result[r].saved => history[r] = entry
  /\ log[r] # Broken => log[r] = entry

\* Whenever the result of a run is exposed, what workflow-history.json (when it
\* is said to be saved) and the progress log (unless a write failed) say last
\* of it is its exit code and whether it was cancelled, at whatever step
\* cancellations and failures of the writes arrived; and a cancellation that
\* arrived while it was recorded is its outcome.  The one exception is a run
\* that is cancelled after it had timed out.
RecordsAgree ==
  \A r \in Exposed :
    /\ ~(result[r].timedOut /\ result[r].cancelled) => Agrees(r)
    /\ r \in hit => result[r].failure = "cancelled" /\ result[r].cancelled

\* The documented exit code of a run that its user cancelled is 130: in the
\* history, in the progress log and for the command.
CancelledExits130 ==
  \A r \in Exposed : result[r].cancelled =>
    /\ Agrees(r)
    /\ ExitOf(result[r]) = "130"
=============================================================================
