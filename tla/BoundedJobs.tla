---------------------------- MODULE BoundedJobs ----------------------------
(***************************************************************************)
(* application/concurrency.py: bounded(factories, limit).  One owner task  *)
(* keeps at most Limit child tasks in flight, collects them as they end,   *)
(* stops launching at the first failure it sees, lets what is in flight    *)
(* end, and raises one failure whose choice does not depend on timing.     *)
(* Chapters of a series and images of a chapter both run under it.         *)
(*                                                                         *)
(* A child is wrapped in capture_result (storage/transactions.py), so its  *)
(* failure is data: no exception reaches the event loop before the owner   *)
(* has looked at the whole batch.                                          *)
(***************************************************************************)
EXTENDS Integers, FiniteSets

CONSTANTS N,      \* number of factories handed to bounded()
          Limit   \* the concurrency setting, validated >= 1 by configuration

JobsAssumption == N \in Nat /\ Limit \in Nat \ {0}

Jobs == 1..N

\* What a child can end with: a value, or an error of one of the classes
\* _parallel_failure_priority distinguishes.
Failures == {"url", "other", "fatal"}
Outcomes == {"value"} \cup Failures

Stages == {"queued", "running", "cancelling", "finished", "collected"}

Owners == {"waiting", "draining", "aborting", "returned", "raised", "cancelled"}
Ended == {"returned", "raised", "cancelled"}

VARIABLES
  stage,    \* stage[j]: where child j is between its factory and collect()
  outcome,  \* outcome[j]: what it ended with, "none" before
  owner,    \* the await the owner is suspended in, or how it left
  raised    \* the job whose error the owner raised, 0 when none

vars == <<stage, outcome, owner, raised>>

Active == {j \in Jobs : stage[j] \in {"running", "cancelling"}}
Finished == {j \in Jobs : stage[j] = "finished"}
Queued == {j \in Jobs : stage[j] = "queued"}
Launched == Jobs \ Queued

Failed == {j \in Jobs : outcome[j] \in Failures}

\* _parallel_failure_priority: cancellation and interpreter exits first, then
\* unexpected exceptions, then the failures a single URL may produce.
Priority(o) == IF o = "fatal" THEN 0 ELSE IF o = "other" THEN 1 ELSE 2

\* The order min() applies to (priority, index).
Precedes(j, k) ==
  \/ Priority(outcome[j]) < Priority(outcome[k])
  \/ Priority(outcome[j]) = Priority(outcome[k]) /\ j <= k

IsPrimary(j) == j \in Failed /\ \A k \in Failed : Precedes(j, k)

Init ==
  /\ stage = [j \in Jobs |-> IF j <= Limit THEN "running" ELSE "queued"]
  /\ outcome = [j \in Jobs |-> "none"]
  /\ owner = IF N = 0 THEN "returned" ELSE "waiting"
  /\ raised = 0

\* A child ends.  A cancelled child may still end with a value or an error of
\* any class: it finishes a transaction it had started (finish_task).
JobEnds(j) ==
  /\ stage[j] \in {"running", "cancelling"}
  /\ \E o \in Outcomes : outcome' = [outcome EXCEPT ![j] = o]
  /\ stage' = [stage EXCEPT ![j] = "finished"]
  /\ UNCHANGED <<owner, raised>>

\* start_next(), called len(done) times: the queue is an iterator, so the
\* lowest queued indexes go first.
Launches(n) ==
  {j \in Queued : Cardinality({k \in Queued : k < j}) < n}

\* asyncio.wait returns: every child that has ended by now is collected and
\* the jobs in starts are launched.
CollectAndStart(starts) ==
  /\ owner = "waiting"
  /\ Finished # {}
  /\ stage' = [j \in Jobs |-> IF j \in Finished THEN "collected"
                               ELSE IF j \in starts THEN "running"
                               ELSE stage[j]]
  /\ owner' = IF Finished \cap Failed # {} THEN "draining"
              ELSE IF Active \cup starts = {} THEN "returned"
              ELSE "waiting"
  /\ UNCHANGED <<outcome, raised>>

\* Mutant: queued jobs start before the failures are looked at.
CollectStartingFirst == CollectAndStart(Launches(Cardinality(Finished)))

\* As many queued jobs start as were collected, or the drain begins.
Collect ==
  CollectAndStart(IF Finished \cap Failed = {} THEN Launches(Cardinality(Finished)) ELSE {})

\* Mutant: the failure that stopped the launching is raised.
DrainEndsWithFirst ==
  /\ owner = "draining"
  /\ Active = {}
  /\ \E j \in Failed \ Finished : raised' = j
  /\ owner' = "raised"
  /\ UNCHANGED <<stage, outcome>>

\* gather() over the remaining children is done: collect them and raise.
DrainEnds ==
  /\ owner = "draining"
  /\ Active = {}
  /\ stage' = [j \in Jobs |-> IF j \in Finished THEN "collected" ELSE stage[j]]
  /\ \E j \in Failed : IsPrimary(j) /\ raised' = j
  /\ owner' = "raised"
  /\ UNCHANGED outcome

\* The owner is cancelled at either await.  Leaving asyncio.wait does not
\* cancel children, the handler does; cancelling gather() cancels them itself.
CancelOwner ==
  /\ owner \in {"waiting", "draining"}
  /\ owner' = "aborting"
  /\ stage' = [j \in Jobs |-> IF stage[j] = "running" THEN "cancelling" ELSE stage[j]]
  /\ UNCHANGED <<outcome, raised>>

\* Mutant: the handler gathers for as long as the table of children is not
\* empty, but nothing empties it.
AbortEndsNever == owner = "aborting" /\ Active = {} /\ UNCHANGED vars

\* The handler's gather() ends only when every child has; then CancelledError
\* is raised again.  A second cancellation of the owner only cancels children
\* that are already cancelled, gather() still waits: no state changes.
AbortEnds ==
  /\ owner = "aborting"
  /\ Active = {}
  /\ owner' = "cancelled"
  /\ UNCHANGED <<stage, outcome, raised>>

Done == owner \in Ended /\ UNCHANGED vars

Next ==
  \/ \E j \in Jobs : JobEnds(j)
  \/ Collect
  \/ DrainEnds
  \/ CancelOwner
  \/ AbortEnds
  \/ Done

\* The event loop resumes a task whose await is done, and every child ends:
\* requests carry timeouts and a cancelled child is only finishing a
\* transaction.  Nothing promises that the owner is ever cancelled.
Fairness ==
  /\ \A j \in Jobs : WF_vars(JobEnds(j))
  /\ WF_vars(Collect) /\ WF_vars(DrainEnds) /\ WF_vars(AbortEnds)

Spec == Init /\ [][Next]_vars
FairSpec == Spec /\ Fairness

----------------------------------------------------------------------------

\* Every variable has its type, and an outcome exists exactly for the children
\* that have ended.
TypeOK ==
  /\ stage \in [Jobs -> Stages]
  /\ outcome \in [Jobs -> Outcomes \cup {"none"}]
  /\ owner \in Owners
  /\ raised \in 0..N
  /\ \A j \in Jobs : outcome[j] = "none" <=> stage[j] \in {"queued", "running", "cancelling"}

\* While the owner waits, exactly as many children are in flight or awaiting
\* collection as the limit and the remaining jobs allow: the limit is never
\* exceeded and a batch ending at once never lowers the parallelism.
FullButBounded ==
  owner = "waiting" =>
    LET inFlight == Cardinality(Active) + Cardinality(Finished)
        left == Cardinality(Jobs \ {j \in Jobs : stage[j] = "collected"})
    IN inFlight = IF left < Limit THEN left ELSE Limit

\* The raised error is the least by (priority, index) among the failures of
\* all launched jobs, so neither completion order nor the moment the owner
\* woke up can hide a cancellation behind a URL failure.
RaisesPrimary == owner = "raised" => IsPrimary(raised)

\* Once a launched job's failure has been collected, or the owner cancelled,
\* no queued job is ever launched.
NoLaunch ==
  (\/ owner \in {"draining", "aborting"} \cup Ended
   \/ \E j \in Failed : stage'[j] = "collected")
  => Launched' = Launched

NoLaunchAfterFailure == [][NoLaunch]_vars

\* bounded() always comes to an end, cancelled or not.
OwnerEnds == <>(owner \in Ended)

=============================================================================
