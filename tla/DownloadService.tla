-------------------------- MODULE DownloadService --------------------------
(***************************************************************************)
(* One DownloadService shared by several tasks (application/service.py,    *)
(* shutdown.py).  A task may run a workflow, and closes the service when   *)
(* it leaves (async with, or the command line); operations exclude each    *)
(* other, and the resources are closed once, by a task of their own that   *)
(* takes the same lock.  The operation is the composition of               *)
(*   Batch    the images of its chapters under bounded(),                  *)
(*   Pool     the transforms these images run in threads, and              *)
(*   Records  the history and the progress log written at its end.         *)
(* Every await of an operation may be cancelled.                           *)
(***************************************************************************)
EXTENDS Integers, Sequences, FiniteSets

CONSTANTS Tasks,           \* the users of the service
          Callers,         \* bound: those of them that run a workflow
          Images, Limit,   \* see BoundedJobs
          Workers,         \* see TransformPool
          PersistCookies,  \* persist_on_close
          Fallible,        \* bound: the resources whose close may raise
          None, Broken

\* The order of shutdown_resources.
Resources == (IF PersistCookies THEN <<"cookies">> ELSE <<>>)
             \o <<"transforms", "gateway", "images", "plugins", "logger">>

VARIABLES
  step,     \* step[t]: the await task t is suspended in
  lock,     \* who holds _operation_lock: a task, "close" or None
  failure,  \* failure[t]: the exception that leaves t, "none" without
  cancels,  \* the tasks that were cancelled while they waited for the close
  task,     \* _close_task: "none", "queued", "running" or "done"
  settled,  \* how the resources closed so far were closed
  stage, outcome, owner, raised,    \* the batch of the operation
  use, slots, threads, shut,        \* the pool
  fin, result, history, log, hit    \* the records of the runs

Batch == INSTANCE BoundedJobs WITH N <- Images
Pool == INSTANCE TransformPool WITH Users <- 1..Images
Records == INSTANCE WorkflowFinish WITH Runs <- Tasks

ASSUME ServiceAssumption ==
  /\ Callers \subseteq Tasks
  /\ None \notin Tasks /\ "close" \notin Tasks /\ None # "close"
  /\ None \notin Batch!Owners
  /\ PersistCookies \in BOOLEAN
  /\ Batch!JobsAssumption
  /\ Pool!PoolAssumption

service == <<step, lock, failure, cancels, task, settled>>
batch == <<stage, outcome, owner, raised>>
pool == <<use, slots, threads, shut>>
records == <<fin, result, history, log, hit>>
vars == <<service, batch, pool, records>>

Jobs == 1..Images
Closed == task \in {"running", "done"}
Ended == {"closed", "noop"}

\* No operation is in progress: bounded() has no frame.
NoStage == [j \in Jobs |-> "queued"]
NoOutcome == [j \in Jobs |-> "none"]

Init ==
  /\ step = [t \in Tasks |-> "idle"]
  /\ lock = None
  /\ failure = [t \in Tasks |-> "none"]
  /\ cancels = {}
  /\ task = "none"
  /\ settled = <<>>
  /\ stage = NoStage /\ outcome = NoOutcome /\ owner = None /\ raised = 0
  /\ Pool!Init
  /\ Records!Init

Go(t, s, u) == step[t] = s /\ step' = [step EXCEPT ![t] = u]
Fail(t, f) == failure' = [failure EXCEPT ![t] = f]

----------------------------------------------------------------------------
\* Operations.

Call(t) ==
  /\ t \in Callers
  /\ Go(t, "idle", "queued")
  /\ UNCHANGED <<lock, failure, cancels, task, settled, batch, pool, records>>

\* The lock is acquired and the service is open: the images start.
Enter(t) ==
  /\ Go(t, "queued", "running")
  /\ lock = None /\ ~Closed
  /\ lock' = t
  /\ stage' = [j \in Jobs |-> IF j <= Limit THEN "running" ELSE "queued"]
  /\ owner' = IF Images = 0 THEN "returned" ELSE "waiting"
  /\ UNCHANGED <<failure, cancels, task, settled, outcome, raised, pool, records>>

\* _ensure_open
Refuse(t) ==
  /\ Go(t, "queued", "leaving")
  /\ lock = None /\ Closed
  /\ Fail(t, "refused")
  /\ UNCHANGED <<lock, cancels, task, settled, batch, pool, records>>

CancelQueued(t) ==
  /\ Go(t, "queued", "leaving")
  /\ Fail(t, "cancelled")
  /\ UNCHANGED <<lock, cancels, task, settled, batch, pool, records>>

\* bounded(), without the cancellation of its owner.  An image ends when it is
\* not inside the pool.
ImagesGoOn ==
  /\ \/ \E j \in Jobs : use[j] \in {"out", "left"} /\ Batch!JobEnds(j)
     \/ Batch!Collect \/ Batch!DrainEnds \/ Batch!AbortEnds
  /\ UNCHANGED <<service, pool, records>>

\* An image transforms its data; some images need no transform.
ImageTransforms(j) ==
  /\ \/ stage[j] = "running" /\ Pool!Enter(j)
     \/ Pool!Admit(j) \/ Pool!ThreadEnds(j) \/ Pool!Leave(j)
  /\ UNCHANGED <<service, batch, records>>

\* The task is cancelled inside bounded(): so are its images, at their awaits.
CancelOperation(t) ==
  /\ step[t] = "running"
  /\ Batch!CancelOwner
  /\ Pool!Cancel({j \in Jobs : stage[j] = "running"})
  /\ UNCHANGED <<service, records>>

\* What bounded() is left with: a workflow records the failures of URLs and
\* goes on, it stops at others; its retries may run out of time.
WorkflowFailures ==
  CASE owner = "returned" -> {"none", "timeout"}
    [] owner = "raised" -> {"none", "error", "timeout"}
    [] owner = "cancelled" -> {"cancelled"}
    [] OTHER -> {}

\* The rounds are over and finish() begins.  The pool keeps no trace of them.
ImagesEnd(t) ==
  /\ Go(t, "running", "finishing")
  /\ \E f \in WorkflowFailures : Records!Begin(t, f)
  /\ stage' = NoStage /\ outcome' = NoOutcome /\ owner' = None /\ raised' = 0
  /\ use' = [j \in Jobs |-> "out"]
  /\ UNCHANGED <<lock, failure, cancels, task, settled, slots, threads, shut>>

Finish(t) ==
  /\ step[t] = "finishing"
  /\ Records!Finish(t)
  /\ UNCHANGED <<service, batch, pool>>

\* The result is exposed and the operation lock released.
Expose(t) ==
  /\ Go(t, "finishing", "leaving")
  /\ fin[t] = "exposed"
  /\ Fail(t, result[t].failure)
  /\ lock' = None
  /\ UNCHANGED <<cancels, task, settled, batch, pool, records>>

----------------------------------------------------------------------------
\* The close.

\* close(): the first call starts the closing task, a call after its end
\* returns at once.
Close(t) ==
  /\ step[t] \in {"idle", "leaving"}
  /\ step' = [step EXCEPT ![t] = IF task = "done" THEN "noop" ELSE "closing"]
  /\ task' = IF task = "none" THEN "queued" ELSE task
  /\ UNCHANGED <<lock, failure, cancels, settled, batch, pool, records>>

\* Mutant: a cancelled waiter leaves.
CancelCloseUnshielded(t) ==
  /\ Go(t, "closing", "closed")
  /\ cancels' = cancels \cup {t}
  /\ Fail(t, IF failure[t] = "none" THEN "cancelled" ELSE failure[t])
  /\ UNCHANGED <<lock, task, settled, batch, pool, records>>

\* settle_task shields the closing task; the waiter keeps the cancellation.
CancelClose(t) ==
  /\ step[t] = "closing"
  /\ cancels' = cancels \cup {t}
  /\ UNCHANGED <<step, lock, failure, task, settled, batch, pool, records>>

\* _close_runtime waits for the operation in progress.
CloseStarts ==
  /\ task = "queued"
  /\ lock = None
  /\ lock' = "close"
  /\ task' = "running"
  /\ UNCHANGED <<step, failure, cancels, settled, batch, pool, records>>

Closing == Resources[Len(settled) + 1]

\* TransformExecutor.close: nobody is admitted any more.
ShutPool ==
  /\ task = "running"
  /\ Len(settled) < Len(Resources)
  /\ Closing = "transforms"
  /\ Pool!Shut
  /\ UNCHANGED <<service, batch, records>>

\* How a resource may close.  Ordinary errors of the logger are swallowed.
Closings(r) ==
  {"ok"} \cup (IF r \in Fallible THEN {"fatal"} ELSE {})
         \cup (IF r \in Fallible \ {"logger"} THEN {"error"} ELSE {})

\* Each started close finishes before the next; failures are kept as data.
CloseResource ==
  /\ task = "running"
  /\ Len(settled) < Len(Resources)
  /\ Closing = "transforms" => Pool!IsDown
  /\ \E c \in Closings(Closing) : settled' = Append(settled, c)
  /\ UNCHANGED <<step, lock, failure, cancels, task, batch, pool, records>>

CloseEnds ==
  /\ task = "running"
  /\ Len(settled) = Len(Resources)
  /\ task' = "done"
  /\ lock' = None
  /\ UNCHANGED <<step, failure, cancels, settled, batch, pool, records>>

Raised == {i \in DOMAIN settled : settled[i] # "ok"}

\* The failure that shutdown_resources returns: an interruption before errors.
Primary ==
  IF \E i \in Raised : settled[i] = "fatal" THEN "close_fatal"
  ELSE IF Raised # {} THEN "close_error" ELSE "none"

\* What close() raises in t: a failure of the close before a cancellation.
Raises(t) ==
  IF Primary # "none" THEN Primary
  ELSE IF t \in cancels THEN "cancelled" ELSE "none"

\* close() returns.  close_service and CommandOutcome keep the failure that
\* was leaving; after a workflow that succeeded the command line corrects the
\* records first.
CloseReturns(t) ==
  /\ task = "done"
  /\ Fail(t, IF failure[t] = "none" THEN Raises(t) ELSE failure[t])
  /\ IF failure[t] = "none" /\ fin[t] = "exposed" /\ Raises(t) \in {"close_error", "cancelled"}
     THEN /\ Go(t, "closing", "correcting")
          /\ Records!BeginCorrection(t, IF Raises(t) = "cancelled" THEN "cancelled" ELSE "error")
     ELSE /\ Go(t, "closing", "closed")
          /\ UNCHANGED records
  /\ UNCHANGED <<lock, cancels, task, settled, batch, pool>>

Correct(t) ==
  /\ Go(t, "correcting", "closed")
  /\ Records!Correct(t)
  /\ UNCHANGED <<lock, failure, cancels, task, settled, batch, pool>>

----------------------------------------------------------------------------

Operate(t) == Enter(t) \/ Refuse(t) \/ ImagesEnd(t) \/ Finish(t) \/ Expose(t)
CloseTask == CloseStarts \/ ShutPool \/ CloseResource \/ CloseEnds
Leave(t) == (step[t] = "leaving" /\ Close(t)) \/ CloseReturns(t) \/ Correct(t)

Done == (\A t \in Tasks : step[t] \in Ended) /\ UNCHANGED vars

Next ==
  \/ \E t \in Tasks :
       \/ Call(t) \/ Operate(t) \/ Close(t) \/ CloseReturns(t) \/ Correct(t)
       \/ CancelQueued(t) \/ CancelOperation(t) \/ CancelClose(t)
  \/ ImagesGoOn
  \/ \E j \in Jobs : ImageTransforms(j)
  \/ CloseTask
  \/ Done

\* The event loop resumes whatever can go on; images end by their timeouts and
\* threads because transforms do.  Nobody has to call or to cancel anything,
\* but who entered the service leaves it.
Fairness ==
  /\ \A t \in Tasks : WF_vars(Operate(t)) /\ WF_vars(Leave(t))
  /\ \A j \in Jobs : /\ WF_vars(ImageTransforms(j))
                     /\ WF_vars(use[j] \in {"out", "left"} /\ Batch!JobEnds(j) /\ UNCHANGED <<service, pool, records>>)
  /\ WF_vars(ImagesGoOn)
  /\ WF_vars(CloseTask)

Spec == Init /\ [][Next]_vars
FairSpec == Spec /\ Fairness

----------------------------------------------------------------------------

Busy == {"running", "finishing"}

\* Every variable has its type, those of the components included.
TypeOK ==
  /\ step \in [Tasks -> {"idle", "queued", "leaving", "closing", "correcting"} \cup Busy \cup Ended]
  /\ lock \in Tasks \cup {"close", None}
  /\ failure \in [Tasks -> {"none", "refused", "error", "timeout", "cancelled", "close_error", "close_fatal"}]
  /\ cancels \subseteq Tasks
  /\ task \in {"none", "queued", "running", "done"}
  /\ settled \in Seq({"ok", "error", "fatal"}) /\ Len(settled) <= Len(Resources)
  /\ owner = None \/ Batch!TypeOK
  /\ Pool!TypeOK
  /\ Records!TypeOK

\* The properties of bounded() hold inside the service, where its jobs wait
\* for threads and its owner is the operation: as many images as may are in
\* flight, and none is started after one has failed.
BatchIsOrderly ==
  /\ []Batch!FullButBounded
  /\ [][owner # None /\ owner' # None => Batch!NoLaunch]_vars

\* Nothing is closed under an operation: not while images are in flight, a
\* thread works or a run is recorded.  And a thread that executes a plugin's
\* transform belongs to an image that is still in flight: however the image or
\* the operation was cancelled, the thread is not left behind with the plugin
\* cleaned up and its slot given away.  Whoever comes back from close(), first or
\* later, cancelled or not, finds every resource closed, each exactly once and in
\* order.
ResourcesOutliveUse ==
  /\ Closed => threads = {} /\ \A t \in Tasks : step[t] \notin Busy
  /\ \A j \in threads : stage[j] \in {"running", "cancelling"}
  /\ \A t \in Tasks : step[t] \in Ended => task = "done" /\ Len(settled) = Len(Resources)

\* The failure that leaves a task is the one of its operation; without one, an
\* interruption of the close before its errors, and those before a cancellation.
CloseReportsPrimary ==
  \A t \in Tasks : step[t] = "closed" =>
    LET own == result[t].failure IN
    /\ fin[t] = "exposed" /\ own # "none" => failure[t] = own
    /\ failure[t] = "close_error" => \A i \in DOMAIN settled : settled[i] # "fatal"
    /\ failure[t] = "cancelled" /\ t \in cancels /\ fin[t] = "corrected" => Raised = {}
    /\ failure[t] = "none" => Raised = {} /\ t \notin cancels

\* Of several failures at once the one that is raised depends on their kinds
\* only, never on their timing: by the images of a batch, and by the operation,
\* the close and its cancellation.
PrimaryIsRaised == Batch!RaisesPrimary /\ CloseReportsPrimary

\* The records of a run agree with what its caller gets, also when they are
\* corrected after the close; see WorkflowFinish, also for the exit code 130.
RecordsAgree == Records!RecordsAgree
CancelledExits130 == Records!CancelledExits130

\* Whoever called an operation or close() gets out of it.
EveryCallEnds == \A t \in Tasks : step[t] # "idle" ~> step[t] \in Ended
=============================================================================
