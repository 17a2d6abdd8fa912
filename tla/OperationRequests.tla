------------------------- MODULE OperationRequests -------------------------
(***************************************************************************)
(* The image requests of one plugin operation (transport/operation.py and  *)
(* transport/image_requests.py).  They run concurrently, are limited by    *)
(* one semaphore and share one authentication session: an AuthFlow of the  *)
(* plugin, a lock for its refresh and the generation of its credentials.   *)
(*                                                                         *)
(* A hook may call context.requests.execute, at any of its awaits, several *)
(* times or for several requests at once, with auth_required or without:   *)
(* such a request takes the same way, but for the recovery, and so may the *)
(* hooks called for it.                                                    *)
(*                                                                         *)
(* All requests run in one event loop: an action is what happens between   *)
(* two awaits.  The plugin and the server are external.  The plugin's      *)
(* AuthFlow renews its credentials in the step in which refresh() returns; *)
(* a request that it is applied to carries the current ones, named here by *)
(* their generation.  The server may answer anything.  A plugin without an *)
(* AuthFlow behaves as one whose refresh fails.                            *)
(***************************************************************************)
EXTENDS Integers, FiniteSets

CONSTANTS Images,
          Asking,    \* bound: the images whose hooks make requests
          HookRequests,  \* bound: how many, for an image
          Limit,     \* request_concurrency of the operation
          Attempts,  \* network.auth_refresh_attempts
          None

\* <<i, 0>> is the request for the image i, <<i, n>> the nth its hooks make.
Calls == (Images \X {0}) \cup (Asking \X (1..HookRequests))
Image(c) == c[1]
IsImage(c) == c[2] = 0

ASSUME OperationAssumption ==
  /\ Asking \subseteq Images /\ HookRequests \in Nat
  /\ None \notin Calls
  /\ Limit \in Nat \ {0}
  /\ Attempts \in Nat

\* Which hook made a request or the plugin_data.
Makers == {"create_image_request", "recover_image_request"}
Requests == [made : Makers \cup {"hook"}, auth : BOOLEAN, credentials : Int]
NoCredentials == -1

HookSteps == {"create", "apply", "refresh", "recover"}
Steps == HookSteps \cup {"new", "applied", "limit", "send", "lock", "refreshed",
                         "done", "failed", "cancelled"}
Ended == {"done", "failed", "cancelled"}

VARIABLES
  step,        \* step[c]: where the call c is
  spec,        \* spec[c]: the request _execute was called with
  current,     \* current[c]: the request it sends
  data,        \* data[c]: the resolution that plugin_data belongs to
  observed,    \* observed[c]: generation when the request was about to be sent
  attempts,    \* attempts[c]: authentication failures so far
  recovered,   \* recovered[c]: recover_image_request was called
  callers,     \* callers[c]: whose hooks wait for c's answer
  generation,  \* of the session's credentials
  lock,        \* who holds the refresh lock
  slots,       \* who holds a slot of the request limit
  refused,     \* history: the credentials c was last refused with
  sends        \* history: how often c was sent

session == <<generation, lock, slots>>
request == <<spec, current, data>>
counters == <<observed, attempts, recovered>>
vars == <<step, request, counters, callers, session, refused, sends>>

Init ==
  /\ step = [c \in Calls |-> "new"]
  /\ spec = [c \in Calls |-> None]
  /\ current = [c \in Calls |-> None]
  /\ data = [c \in Calls |-> None]
  /\ observed = [c \in Calls |-> 0]
  /\ attempts = [c \in Calls |-> 0]
  /\ recovered = [c \in Calls |-> FALSE]
  /\ callers = [c \in Calls |-> {}]
  /\ generation = 0
  /\ lock = None
  /\ slots = {}
  /\ refused = [c \in Calls |-> NoCredentials]
  /\ sends = [c \in Calls |-> 0]

----------------------------------------------------------------------------

Goto(i, s) == step' = [step EXCEPT ![i] = s]
Move(i, s, t) == step[i] = s /\ Goto(i, t)

\* A call that ends leaves no locals, and one that fails brings nothing back.
Clear(f, S, v) == [c \in Calls |-> IF c \in S THEN v ELSE f[c]]
Leave(S) ==
  /\ spec' = Clear(spec, S, None)
  /\ observed' = Clear(observed, S, 0)
  /\ attempts' = Clear(attempts, S, 0) /\ recovered' = Clear(recovered, S, FALSE)
  /\ callers' = Clear(callers, S, {})
  /\ refused' = Clear(refused, S, NoCredentials) /\ sends' = Clear(sends, S, 0)
BringNothing(S) == current' = Clear(current, S, None) /\ data' = Clear(data, S, None)

\* The hook that runs for i returns, or raises: nothing that it asked for is on
\* its way.
Returns(i) == \A c \in Calls : i \notin callers[c]

\* The hook that runs for i asks for a request.
HookAsks(i) ==
  /\ step[i] \in HookSteps /\ (step[i] = "apply" => current[i].auth)
  /\ \E c \in Calls, auth \in BOOLEAN :
       LET r == [made |-> "hook", auth |-> auth, credentials |-> NoCredentials] IN
       /\ Image(c) = Image(i) /\ ~IsImage(c) /\ step[c] = "new"
       /\ step' = [step EXCEPT ![c] = "apply"]
       /\ spec' = [spec EXCEPT ![c] = r] /\ current' = [current EXCEPT ![c] = r]
       /\ callers' = [callers EXCEPT ![c] = callers[i] \cup {i}]
  /\ UNCHANGED <<data, counters, session, refused, sends>>

Start(i) ==
  /\ IsImage(i)
  /\ Move(i, "new", "create")
  /\ UNCHANGED <<request, counters, callers, session, refused, sends>>

\* create_image_request returns, _execute begins.
CreateReturns(i) ==
  /\ Move(i, "create", "apply")
  /\ Returns(i)
  /\ \E auth \in BOOLEAN :
       LET r == [made |-> "create_image_request", auth |-> auth, credentials |-> NoCredentials] IN
       spec' = [spec EXCEPT ![i] = r] /\ current' = [current EXCEPT ![i] = r]
  /\ data' = [data EXCEPT ![i] = "create_image_request"]
  /\ UNCHANGED <<counters, callers, session, refused, sends>>

\* _apply_auth: what follows the flow's apply() is awaited.
Apply(i) ==
  /\ Move(i, "apply", "applied")
  /\ Returns(i)
  /\ current' = [current EXCEPT ![i].credentials = IF current[i].auth THEN generation ELSE NoCredentials]
  /\ UNCHANGED <<spec, data, counters, callers, session, refused, sends>>

ObserveGeneration(i) ==
  /\ Move(i, "applied", "limit")
  /\ observed' = [observed EXCEPT ![i] = generation]
  /\ UNCHANGED <<request, attempts, recovered, callers, session, refused, sends>>

Send(i) ==
  /\ Move(i, "limit", "send")
  /\ Cardinality(slots) < Limit
  /\ slots' = slots \cup {i}
  /\ sends' = [sends EXCEPT ![i] = @ + 1]
  /\ UNCHANGED <<request, counters, callers, generation, lock, refused>>

\* The transport answers (retries and redirects are its own): what follows
\* runs on until the next await.
Answered(i, next) == Move(i, "send", next) /\ slots' = slots \ {i}

Succeeds(i) ==
  /\ Answered(i, "done")
  /\ Leave({i})
  /\ IF IsImage(i) THEN UNCHANGED <<current, data>> ELSE BringNothing({i})
  /\ UNCHANGED <<generation, lock>>

\* AuthenticationError once the attempts are used up, HttpStatusError once
\* recovery was tried.
GivesUp(i) ==
  /\ Answered(i, "failed")
  /\ \/ current[i].auth /\ attempts[i] >= Attempts
     \/ recovered[i] \/ ~IsImage(i)
  /\ Leave({i}) /\ BringNothing({i})
  /\ UNCHANGED <<generation, lock>>

Refused(i) ==
  /\ Answered(i, "lock")
  /\ current[i].auth /\ attempts[i] < Attempts
  /\ refused' = [refused EXCEPT ![i] = current[i].credentials]
  /\ UNCHANGED <<request, counters, callers, generation, lock, sends>>

\* The lock is free and nobody has refreshed since: the flow's refresh().
BeginRefresh(i) ==
  /\ Move(i, "lock", "refresh")
  /\ lock = None
  /\ observed[i] = generation
  /\ lock' = i
  /\ UNCHANGED <<request, counters, callers, generation, slots, refused, sends>>

\* Mutant: the new credentials are not applied.
UseRefreshedUnapplied(i) ==
  /\ Move(i, "lock", "applied")
  /\ lock = None
  /\ observed[i] # generation
  /\ attempts' = [attempts EXCEPT ![i] = @ + 1]
  /\ UNCHANGED <<request, observed, recovered, callers, session, refused, sends>>

\* Another request has refreshed meanwhile: start again from the first request.
UseRefreshed(i) ==
  /\ Move(i, "lock", "apply")
  /\ lock = None
  /\ observed[i] # generation
  /\ current' = [current EXCEPT ![i] = spec[i]]
  /\ attempts' = [attempts EXCEPT ![i] = @ + 1]
  /\ UNCHANGED <<spec, data, observed, recovered, callers, session, refused, sends>>

RefreshReturns(i) ==
  /\ Move(i, "refresh", "refreshed")
  /\ Returns(i)
  /\ generation' = generation + 1
  /\ UNCHANGED <<request, counters, callers, lock, slots, refused, sends>>

\* The flow declines to refresh, or raises.
RefreshFails(i) ==
  /\ Move(i, "refresh", "failed")
  /\ Returns(i)
  /\ lock' = None
  /\ Leave({i}) /\ BringNothing({i})
  /\ UNCHANGED <<generation, slots>>

RefreshEnds(i) ==
  /\ Move(i, "refreshed", "apply")
  /\ lock' = None
  /\ attempts' = [attempts EXCEPT ![i] = @ + 1]
  /\ UNCHANGED <<request, observed, recovered, callers, generation, slots, refused, sends>>

\* Any other error.
BeginRecovery(i) ==
  /\ ~recovered[i] /\ IsImage(i)
  /\ Answered(i, "recover")
  /\ recovered' = [recovered EXCEPT ![i] = TRUE]
  /\ UNCHANGED <<request, observed, attempts, callers, generation, lock, refused, sends>>

\* recover_image_request returns a request; plugin_data are replaced only by
\* an ImageFetchRequest.
RecoverReturns(i) ==
  /\ Move(i, "recover", "apply")
  /\ Returns(i)
  /\ \E auth \in BOOLEAN :
       current' = [current EXCEPT ![i] =
         [made |-> "recover_image_request", auth |-> auth, credentials |-> NoCredentials]]
  /\ data' \in {data, [data EXCEPT ![i] = "recover_image_request"]}
  /\ UNCHANGED <<spec, counters, callers, session, refused, sends>>

RecoverDeclines(i) ==
  /\ Move(i, "recover", "failed")
  /\ Returns(i)
  /\ Leave({i}) /\ BringNothing({i})
  /\ UNCHANGED session

\* A transport error, a hook that raises, an origin that is not allowed.
Breaks(i) ==
  /\ \/ /\ step[i] \in {"create", "recover"} \/ (step[i] = "apply" /\ current[i].auth)
        /\ Returns(i) /\ UNCHANGED slots
     \/ step[i] = "send" /\ slots' = slots \ {i}
  /\ Goto(i, "failed")
  /\ Leave({i}) /\ BringNothing({i})
  /\ UNCHANGED <<generation, lock>>

\* The image job is cancelled at an await: what its calls hold is released.
Cancel(i) ==
  LET Own == {c \in Calls : Image(c) = i} IN
  /\ step[<<i, 0>>] \notin Ended \cup {"new"}
  /\ step' = Clear(step, Own, "cancelled")
  /\ Leave(Own) /\ BringNothing(Own)
  /\ lock' = IF lock \in Own THEN None ELSE lock
  /\ slots' = slots \ Own
  /\ UNCHANGED generation

Step(i) ==
  \/ Start(i) \/ HookAsks(i) \/ CreateReturns(i) \/ Apply(i) \/ ObserveGeneration(i) \/ Send(i)
  \/ Succeeds(i) \/ GivesUp(i) \/ Refused(i) \/ BeginRefresh(i) \/ UseRefreshed(i)
  \/ RefreshReturns(i) \/ RefreshFails(i) \/ RefreshEnds(i)
  \/ BeginRecovery(i) \/ RecoverReturns(i) \/ RecoverDeclines(i) \/ Breaks(i)

Next == (\E i \in Calls : Step(i)) \/ (\E i \in Images : Cancel(i))

Spec == Init /\ [][Next]_vars
FairSpec == Spec /\ \A i \in Calls : WF_vars(Step(i))

----------------------------------------------------------------------------

\* Every variable has its type and the request limit holds.
TypeOK ==
  /\ step \in [Calls -> Steps]
  /\ spec \in [Calls -> Requests \cup {None}]
  /\ current \in [Calls -> Requests \cup {None}]
  /\ data \in [Calls -> Makers \cup {None}]
  /\ observed \in [Calls -> Nat]
  /\ attempts \in [Calls -> 0..Attempts]
  /\ recovered \in [Calls -> BOOLEAN]
  /\ callers \in [Calls -> SUBSET Calls]
  /\ generation \in Nat
  /\ lock \in Calls \cup {None}
  /\ slots \in SUBSET Calls /\ Cardinality(slots) <= Limit
  /\ refused \in [Calls -> Int]
  /\ sends \in [Calls -> Nat]

\* However the refreshes of concurrent requests interleave, of images and of
\* hooks, no request is sent with credentials that were already refused to it.
NeverSentWithRefused ==
  [][\A c \in Calls : sends'[c] > sends[c] /\ current[c].auth =>
       current[c].credentials > refused[c]]_vars

\* A request is sent once for each refresh it is granted, its own or somebody
\* else's, once for its recovery and once besides.
SendsAreBounded == \A c \in Calls : sends[c] <= Attempts + 2

AllEnded == \A i \in Images : step[<<i, 0>>] \in Ended

\* A request that is made by refresh(), or on its behalf, was refused itself and
\* waits for the lock that refresh() holds.
RefreshWaitsForItself == \E c \in Calls : step[c] = "lock" /\ lock \in callers[c]

\* No hook waits for a slot that its own caller holds, and no request for a
\* lock that is never released: every image gets its answer.  Only where a
\* plugin authenticates the requests of its own refresh() (faq.md advises
\* against it) and one of them is refused, images wait for the lock, until
\* that image is cancelled.
Settled ==
  \A i \in Images :
    \/ step[<<i, 0>>] \in Ended
    \/ RefreshWaitsForItself /\ \E c \in Calls : Image(c) = i /\ step[c] = "lock"
EveryRequestEnds == <>[]Settled

\* ImageFetchRequest: "a resolved image request plus plugin-defined transform
\* data" (models.py).  When the data of an image that was fetched come from a
\* recovery, so does the request that fetched it.
DataBelongsToRequest ==
  \A i \in Calls : step[i] = "done" /\ data[i] = "recover_image_request" =>
    current[i].made = "recover_image_request"

=============================================================================
