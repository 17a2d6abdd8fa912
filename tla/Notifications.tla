--------------------------- MODULE Notifications ---------------------------
(***************************************************************************)
(* What a service tells its user of failed images (observability/           *)
(* notifications.py, events.py, scope.py) over one download or workflow     *)
(* after another.  Failures are collected as events and delivered in one    *)
(* summary when an operation ends; those of a workflow's attempts are not   *)
(* collected, because a later attempt may succeed, but told from the final  *)
(* results.  Observers and senders may fail, and each await be cancelled.   *)
(***************************************************************************)
EXTENDS Naturals, FiniteSets, Bags

CONSTANTS
  Urls,         \* the URLs of a workflow
  Images,       \* the images of each
  MaxAttempts,  \* attempts of a workflow for one URL
  MaxCommands,  \* bound: commands one service runs
  Methods       \* the methods that are configured

NotificationAssumption ==
  /\ MaxAttempts \in Nat \ {0} /\ MaxCommands \in Nat
  /\ IsFiniteSet(Urls) /\ IsFiniteSet(Images) /\ IsFiniteSet(Methods)

VARIABLES
  commands,   \* how many commands have begun
  kind,       \* "download" or "workflow"
  point,      \* "idle", "between", "attempt", "images" or "sending"
  url,        \* the URL of the attempt or of the report
  attempts,   \* attempts[u]: how many there were
  results,    \* results[u][i]: the outcome the ledger has of an image: "none", "saved",
              \* "failed", or "refused", a failure that is not retried
  open,       \* images the attempt is to fetch
  unreported, \* URLs whose final result has not been collected
  deferred,   \* _defer_download
  records,    \* _records: the failures collected, as a bag
  message,    \* the summary that is being delivered
  sending,    \* methods that are still to deliver it
  told        \* told[m]: the failures delivered by m, as a bag

noteVars == <<commands, kind, point, url, attempts, results, open, unreported, deferred, records,
              message, sending, told>>

\* A failure of one image, in a command.
Failure(u, i) == [command |-> commands, url |-> u, image |-> i]

NoteInit ==
  /\ commands = 0
  /\ kind = "download"
  /\ point = "idle"
  /\ url \in Urls
  /\ attempts = [u \in Urls |-> 0]
  /\ results = [u \in Urls |-> [i \in Images |-> "none"]]
  /\ open = {}
  /\ unreported = {}
  /\ deferred = FALSE
  /\ records = EmptyBag
  /\ message = EmptyBag
  /\ sending = {}
  /\ told = [m \in Methods |-> EmptyBag]

\* DownloadService.download or workflow.
Begin ==
  /\ point = "idle" /\ commands < MaxCommands
  /\ commands' = commands + 1
  /\ kind' \in {"download", "workflow"}
  /\ point' = "between"
  /\ attempts' = [u \in Urls |-> 0]
  /\ results' = [u \in Urls |-> [i \in Images |-> "none"]]
  /\ unreported' = Urls
  /\ UNCHANGED <<url, open, deferred, records, message, sending, told>>

Failures == {"failed", "refused"}
FailedImages(u) == {i \in Images : results[u][i] \in Failures}

\* A download has one attempt of one URL.
MayAttempt(u) ==
  /\ \E i \in Images : results[u][i] \in {"none", "failed"}
  /\ attempts[u] < (IF kind = "workflow" THEN MaxAttempts ELSE 1)
  /\ kind = "download" => \A v \in Urls : attempts[v] = 0

\* An attempt, inside OperationDiagnosticsScope and, in a workflow, defer_download.
BeginAttempt(u) ==
  /\ point = "between"
  /\ MayAttempt(u)
  /\ point' = "attempt"
  /\ url' = u
  /\ attempts' = [attempts EXCEPT ![u] = @ + 1]
  /\ deferred' = (kind = "workflow")
  /\ UNCHANGED <<commands, kind, results, open, unreported, records, message, sending, told>>

\* The page is there, and ImageLedger.begin forgets the failures to be retried.
Inspect ==
  /\ point = "attempt"
  /\ point' = "images"
  /\ results' = [results EXCEPT ![url] = [i \in Images |-> IF @[i] = "failed" THEN "none" ELSE @[i]]]
  /\ open' = {i \in Images : results'[url][i] = "none"}
  /\ UNCHANGED <<commands, kind, url, attempts, unreported, deferred, records, message, sending, told>>

\* Mutant: the failures of every attempt are collected.
CollectAlways(u, i) == records' = records (+) SetToBag({Failure(u, i)})

\* _collect, called by emit before any other await of the observers.
Collect(u, i) ==
  records' = IF deferred THEN records ELSE records (+) SetToBag({Failure(u, i)})

\* FETCH_FAILED, IMAGE_PROCESS_FAILED or SAVE_FAILED is emitted, or nothing is.
ImageSettles(i) ==
  /\ point = "images"
  /\ i \in open
  /\ open' = open \ {i}
  /\ \E o \in {"saved"} \cup Failures :
       /\ results' = [results EXCEPT ![url][i] = o]
       /\ IF o \in Failures THEN Collect(url, i) ELSE UNCHANGED records
  /\ UNCHANGED <<commands, kind, point, url, attempts, unreported, deferred, message, sending, told>>

\* flush(), up to its first await; without records there is nothing to deliver.
Flush(collected, next) ==
  /\ records' = EmptyBag
  /\ message' = collected
  /\ sending' = IF collected = EmptyBag THEN {} ELSE Methods
  /\ point' = IF collected = EmptyBag THEN next ELSE "sending"

\* The attempt ends in any way, also before its images had an outcome: the
\* scope flushes what was collected.
EndAttempt ==
  /\ point \in {"attempt", "images"}
  /\ deferred' = FALSE
  /\ open' = {}
  /\ Flush(records, "between")
  /\ UNCHANGED <<commands, kind, url, attempts, results, unreported, told>>

\* _deliver: a method that is not configured or raises an Exception is logged.
Deliver(m) ==
  /\ point = "sending"
  /\ m \in sending
  /\ sending' = sending \ {m}
  /\ told' \in {told, [told EXCEPT ![m] = @ (+) message]}
  /\ point' = IF sending = {m} THEN "between" ELSE point
  /\ UNCHANGED <<commands, kind, url, attempts, results, open, unreported, deferred, records, message>>

\* workflow_item of one of the results, when no attempt is to follow.  What
\* has failed is told once more from the results alone.
ReportItem(u) ==
  /\ point = "between" /\ kind = "workflow"
  /\ u \in unreported
  /\ unreported' = unreported \ {u}
  /\ url' = u
  /\ Flush(records (+) SetToBag({Failure(u, i) : i \in FailedImages(u)}), "between")
  /\ attempts' = [v \in Urls |-> MaxAttempts]
  /\ UNCHANGED <<commands, kind, results, open, deferred, told>>

\* A cancellation of the delivery ends the attempts, or else the reports.
CancelDelivery ==
  /\ point = "sending"
  /\ sending' = {}
  /\ point' = "between"
  /\ attempts' = [u \in Urls |-> MaxAttempts]
  /\ unreported' = IF unreported = Urls /\ kind = "workflow" THEN Urls ELSE {}
  /\ UNCHANGED <<commands, kind, url, results, open, deferred, records, message, told>>

End ==
  /\ point = "between"
  /\ kind = "workflow" => unreported = {}
  /\ kind = "download" => \E u \in Urls : attempts[u] > 0
  /\ point' = "idle"
  /\ UNCHANGED <<commands, kind, url, attempts, results, open, unreported, deferred, records, message,
                 sending, told>>

NoteNext ==
  \/ Begin \/ Inspect \/ EndAttempt \/ CancelDelivery \/ End
  \/ \E u \in Urls : BeginAttempt(u) \/ ReportItem(u)
  \/ \E i \in Images : ImageSettles(i)
  \/ \E m \in Methods : Deliver(m)

NoteSpec == NoteInit /\ [][NoteNext]_noteVars
-----------------------------------------------------------------------------
\* A method tells each failed image once, and only when that is the last word:
\* no attempt that follows can save the image any more.  A summary is of the
\* command that is running and of the URL it names, and nothing that was
\* collected waits for the next command (observability.md: image failures are
\* notified exactly once; _records, defer_download and workflow_item).
ToldOnce ==
  /\ \A m \in Methods : \A f \in BagToSet(told[m]) :
       /\ told[m][f] = 1
       /\ f.command = commands => f.image \in FailedImages(f.url)
  /\ point = "sending" => \A f \in BagToSet(message) : f.command = commands /\ f.url = url
  /\ point = "idle" => records = EmptyBag
=============================================================================
