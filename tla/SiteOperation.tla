--------------------------- MODULE SiteOperation ---------------------------
(***************************************************************************)
(* Who cleans up the instances of plugins (application/site_operation.py,  *)
(* media/processor_chain.py), in the operations that use them (download,   *)
(* update check, inspection, workflow and its plan).  An operation makes   *)
(* an instance of the selected site plugin and, to download, one of each   *)
(* image processor, and tells each to clean up after use.  A workflow and  *)
(* its plan select before they hold the lock of the feed, and hand the     *)
(* instance to the check of their round.                                   *)
(*                                                                         *)
(* Every await and hook may fail or be cancelled ("cancelled" stands for   *)
(* the timeout of the retries too).  Instances that are made only to match *)
(* a URL, or whose class or configuration is refused by resolve(), are     *)
(* never handed over: selecting fails.                                     *)
(***************************************************************************)
EXTENDS Integers, Sequences

CONSTANTS
  Processors,  \* how many image processors are configured
  Urls,        \* bound: the candidates that a round of the workflow selects
  Retries      \* --workflow-retries

OperationAssumption == {Processors, Urls, Retries} \subseteq Nat

VARIABLES
  command,     \* the operation of the service that was called
  doing,       \* the await or the call it is in
  selection,   \* SiteSelection: its instance and whether it is owned
  site,        \* the instance of the operation that is open, or 0
  chain,       \* _constructed: the processors that its chain has to close
  cleanups,    \* cleanups[i]: how often the i-th instance made was told to clean up
  primary,     \* the exception in flight, "ok" without
  firstError,  \* first_error of the chain that closes
  feed,        \* whether the lock of the feed is held
  urls,        \* how many downloads the round has still to do
  rounds       \* how many rounds may follow

owners == <<selection, site, chain>>
control == <<command, feed, urls, rounds>>
siteVars == <<doing, owners, cleanups, primary, firstError, control>>

Commands == {"download", "check_updates", "inspect", "plan", "workflow"}
Selecting == {"plan", "workflow"}
Results == {"ok", "failed", "cancelled"}

\* The operation that is open, or opens, is a download.
Downloads == command = "download" \/ urls > 0

New == Len(cleanups) + 1
Make == cleanups' = Append(cleanups, 0)
CleanUp(i) == cleanups' = [cleanups EXCEPT ![i] = @ + 1]

\* The exception that is in flight stays when r is raised while it is handled.
Then(p, r) == IF p = "ok" THEN r ELSE p

Go(from, to) == doing = from /\ doing' = to

SiteInit ==
  /\ command \in Commands
  /\ doing = IF command \in Selecting THEN "select" ELSE "open"
  /\ selection = [instance |-> 0, owned |-> FALSE]
  /\ site = 0 /\ chain = <<>> /\ cleanups = <<>>
  /\ primary = "ok" /\ firstError = "ok"
  /\ feed = FALSE
  /\ urls = 0
  /\ rounds = Retries

----------------------------------------------------------------------------
\* The plan and the workflow.

\* selection(): before the lock of the feed is acquired, and in later rounds.
Select(r) ==
  /\ r # "cancelled"
  /\ Go("select", IF r # "ok" THEN "release" ELSE IF feed THEN "prepare" ELSE "acquire")
  /\ IF r = "ok" THEN selection' = [instance |-> New, owned |-> TRUE] /\ Make
                 ELSE UNCHANGED <<selection, cleanups>>
  /\ primary' = r
  /\ UNCHANGED <<site, chain, firstError, control>>

AcquireFeed(r) ==
  /\ Go("acquire", IF r = "ok" THEN "prepare" ELSE "release")
  /\ primary' = r
  /\ feed' = (r = "ok")
  /\ UNCHANGED <<owners, cleanups, firstError, command, urls, rounds>>

\* Validation of the state, records and events before the check is opened; a
\* later round fails if another plugin is selected.
Prepare(r) ==
  /\ Go("prepare", IF r = "ok" THEN "open" ELSE "release")
  /\ primary' = r
  /\ UNCHANGED <<owners, cleanups, firstError, control>>

\* release_selection, while the lock of the feed is held if it is: cleans up
\* an instance that no operation took over.  In a workflow there is a primary
\* exception then, and what the hook raises is dropped.
ReleaseSelection ==
  /\ doing = "release"
  /\ selection.owned
  /\ selection' = [selection EXCEPT !.owned = FALSE]
  /\ CleanUp(selection.instance)
  /\ UNCHANGED <<doing, site, chain, primary, firstError, control>>

\* Mutant: the lock of the feed is released first.
ReleaseFeedFirst ==
  /\ doing = "release"
  /\ IF feed THEN doing' = doing ELSE ~selection.owned /\ doing' = "end"
  /\ feed' = FALSE
  /\ UNCHANGED <<owners, cleanups, primary, firstError, command, urls, rounds>>

ReleaseFeed ==
  /\ Go("release", "end")
  /\ ~selection.owned
  /\ feed' = FALSE
  /\ UNCHANGED <<owners, cleanups, primary, firstError, command, urls, rounds>>

\* The check is over, and its targets are prepared: in a workflow n downloads
\* follow, or the round is over.
Checked(r, n) ==
  /\ doing = "after"
  /\ command \in Selecting
  /\ urls = 0
  /\ primary' = Then(primary, r)
  /\ urls' = IF primary' = "ok" /\ command = "workflow" THEN n ELSE 0
  /\ doing' = IF urls' > 0 THEN "open" ELSE "release"
  /\ UNCHANGED <<owners, cleanups, firstError, command, feed, rounds>>

\* A download is over.  The workflow goes on after the failures that it
\* records for a URL, and stops at others and at a cancellation.
Downloaded(r, stops) ==
  /\ doing = "after"
  /\ command = "workflow" /\ urls > 0
  /\ LET raised == Then(primary, r)
         goesOn == raised = "ok" \/ (raised = "failed" /\ ~stops)
     IN /\ primary' = IF goesOn THEN "ok" ELSE raised
        /\ urls' = IF goesOn THEN urls - 1 ELSE 0
        /\ doing' = IF goesOn THEN IF urls' > 0 THEN "open" ELSE "wait" ELSE "release"
  /\ UNCHANGED <<owners, cleanups, firstError, command, feed, rounds>>

\* Images are pending: after a delay there is another round.
Retry(r) ==
  /\ rounds > 0
  /\ Go("wait", IF r = "ok" THEN "select" ELSE "release")
  /\ rounds' = IF r = "ok" THEN rounds - 1 ELSE rounds
  /\ primary' = r
  /\ UNCHANGED <<owners, cleanups, firstError, command, feed, urls>>

\* Nothing is pending, or no round is left.
NoRetry ==
  /\ Go("wait", "release")
  /\ UNCHANGED <<owners, cleanups, primary, firstError, control>>

----------------------------------------------------------------------------
\* One operation: SiteOperationFactory.open.

\* With a selection, that of the check: the operation claims its instance.
Claim ==
  /\ Go("open", "build")
  /\ selection.owned
  /\ selection' = [selection EXCEPT !.owned = FALSE]
  /\ site' = selection.instance
  /\ UNCHANGED <<chain, cleanups, primary, firstError, control>>

\* Without: the plugin is selected here.  It may be cancelled before.
Open(r) ==
  /\ Go("open", IF r = "ok" THEN "build" ELSE "after")
  /\ ~selection.owned
  /\ IF r = "ok" THEN site' = New /\ Make ELSE UNCHANGED <<site, cleanups>>
  /\ primary' = r
  /\ UNCHANGED <<selection, chain, firstError, control>>

\* build() validates overrides and makes the context; it does not wait.
Build(r) ==
  /\ r # "cancelled"
  /\ Go("build", IF r # "ok" THEN "cleanup" ELSE IF Downloads THEN "construct" ELSE "body")
  /\ primary' = r
  /\ UNCHANGED <<owners, cleanups, firstError, control>>

\* OperationProcessorChain.__aenter__: the instance belongs to the chain
\* before its configuration is validated, r.
Construct(r) ==
  /\ r # "cancelled"
  /\ Len(chain) < Processors
  /\ Go("construct", IF r = "ok" THEN "construct" ELSE "close")
  /\ Make
  /\ chain' = Append(chain, New)
  /\ primary' = r
  /\ UNCHANGED <<selection, site, firstError, control>>

\* A processor is unavailable, or no instance of it can be made.
ConstructNothing ==
  /\ Len(chain) < Processors
  /\ Go("construct", "close")
  /\ primary' = "failed"
  /\ UNCHANGED <<owners, cleanups, firstError, control>>

\* A processor that is disabled is left out.
Constructed ==
  /\ Go("construct", "body")
  /\ UNCHANGED <<owners, cleanups, primary, firstError, control>>

\* The hooks of the site and of the processors are called: the manifest and its
\* images, the snapshot and its publication, or the requests to inspect.
Body(r) ==
  /\ Go("body", IF Downloads THEN "close" ELSE "cleanup")
  /\ primary' = r
  /\ UNCHANGED <<owners, cleanups, firstError, control>>

\* _close: one processor after the other, the last first, whatever they raise.
CloseProcessor(r) ==
  /\ doing = "close" /\ chain # <<>>
  /\ CleanUp(chain[Len(chain)])
  /\ chain' = SubSeq(chain, 1, Len(chain) - 1)
  /\ firstError' = Then(firstError, r)
  /\ UNCHANGED <<doing, selection, site, primary, control>>

ChainCloses ==
  /\ chain = <<>>
  /\ Go("close", "cleanup")
  /\ primary' = Then(primary, firstError)
  /\ firstError' = "ok"
  /\ UNCHANGED <<owners, cleanups, control>>

\* The end of open(): cleanup_after_use, or cleanup_after_failure, which drops
\* whatever the hook raises, a cancellation too.
CleanUpSite(r) ==
  /\ Go("cleanup", "after")
  /\ CleanUp(site)
  /\ site' = 0
  /\ primary' = Then(primary, r)
  /\ UNCHANGED <<selection, chain, firstError, control>>

\* A command that is one operation returns, after the gateway of its own is
\* closed and its events are emitted.
Return(r) ==
  /\ command \notin Selecting
  /\ Go("after", "end")
  /\ primary' = Then(primary, r)
  /\ UNCHANGED <<owners, cleanups, firstError, control>>

----------------------------------------------------------------------------

SiteEnds == doing = "end" /\ UNCHANGED siteVars

SiteNext ==
  \/ \E r \in Results :
       \/ Select(r) \/ AcquireFeed(r) \/ Prepare(r) \/ Retry(r)
       \/ Open(r) \/ Build(r) \/ Construct(r) \/ Body(r)
       \/ CloseProcessor(r) \/ CleanUpSite(r) \/ Return(r)
       \/ \E n \in 0..Urls : Checked(r, n)
       \/ \E stops \in BOOLEAN : Downloaded(r, stops)
  \/ Claim \/ ConstructNothing \/ Constructed \/ ChainCloses
  \/ ReleaseSelection \/ ReleaseFeed \/ NoRetry
  \/ SiteEnds

SiteSpec == SiteInit /\ [][SiteNext]_siteVars

----------------------------------------------------------------------------

InUse ==
  {i \in DOMAIN cleanups : \/ i = site
                           \/ \E k \in DOMAIN chain : chain[k] = i
                           \/ selection.owned /\ i = selection.instance}

\* However an operation ends, every instance made for it was told to clean up
\* exactly once, never while it is in use or before the processors that work
\* on the site's images, and before another process can have the feed.
OneOwner ==
  /\ [](/\ \A i \in DOMAIN cleanups : cleanups[i] = IF i \in InUse THEN 0 ELSE 1
        /\ chain # <<>> => site # 0
        /\ doing = "end" => InUse = {})
  /\ [][feed /\ ~feed' => InUse = {}]_siteVars
=============================================================================
