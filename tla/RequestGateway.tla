--------------------------- MODULE RequestGateway ---------------------------
(***************************************************************************)
(* The hops of the requests of one service (transport/gateway.py).  Every  *)
(* request takes a slot of the service, of its origin and of its site, in  *)
(* that order, waits for its turn in the global send interval, sends, and  *)
(* keeps its slots until the response is read or closed.  A redirect gives *)
(* them back, is checked, and starts the next hop.  Failed attempts are    *)
(* repeated after a delay in which nothing is held.                        *)
(*                                                                         *)
(* An action is what happens between two awaits of the event loop.  The    *)
(* server is external: it may answer anything, and httpx derives the next  *)
(* request of a redirect from the one that was sent.                       *)
(***************************************************************************)
EXTENDS Integers, FiniteSets

CONSTANTS Requests,
          Specs,         \* Specs[r]: what the caller of r may ask for
          Origins,
          Secure,        \* the origins whose scheme is https
          SiteOf,        \* registrable domain of an origin
          GlobalLimit,   \* network.request_concurrency
          HostLimit,     \* network.origin_request_concurrency
          SiteLimit,     \* network.registrable_domain_request_concurrency
          Interval,      \* network.global_request_interval_seconds, in ticks
          MaxAttempts,   \* network.max_attempts
          MaxRedirects,  \* httpx: client.max_redirects
          None

Methods == {"GET", "POST"}

Sites == {SiteOf[o] : o \in Origins}

\* allowed is the set of origins an authenticated request may be redirected
\* to, None for a request without authentication.
SpecType == [origin : Origins, method : Methods, body : BOOLEAN, retry : BOOLEAN,
             allowed : SUBSET Origins \cup {None}]

GatewayAssumption ==
  /\ DOMAIN SiteOf = Origins
  /\ Secure \subseteq Origins
  /\ Specs \in [Requests -> SUBSET SpecType]
  /\ None \notin Requests /\ None \notin Origins /\ None \notin SpecType
  /\ {GlobalLimit, HostLimit, SiteLimit, MaxAttempts} \subseteq Nat \ {0}
  /\ Interval \in Nat
  /\ MaxRedirects \in Nat

\* The steps of a hop, by the slots that are held in them.
WithGlobal == {"host", "site", "interval", "pacing", "sending", "reading"}
WithHost == WithGlobal \ {"host"}
WithSite == WithHost \ {"site"}
Ended == {"done", "failed", "cancelled"}
Steps == {"new", "global", "backoff"} \cup WithGlobal \cup Ended

VARIABLES
  step,     \* step[r]: the await request r is suspended in
  spec,     \* spec[r]: what its caller asked for
  at,       \* at[r]: the origin of the current hop
  method,   \* method[r]: of the current hop
  headers,  \* headers[r]: the current hop carries the caller's headers
  hops,     \* hops[r]: redirects followed in this attempt
  attempt,  \* attempt[r]: attempts that failed
  wake,     \* wake[r]: ticks left to sleep for the send interval
  globals,  \* who holds a slot of the service
  hosts,    \* hosts[o]: who holds a slot of the origin
  sites,    \* sites[s]: who holds a slot of the site
  turn,     \* who holds the interval lock
  age       \* ticks since _last_request, Interval when at least that many

hop == <<at, method, headers, hops>>
slots == <<globals, hosts, sites>>
clock == <<turn, age>>
vars == <<step, spec, hop, attempt, wake, slots, clock>>

Init ==
  /\ step = [r \in Requests |-> "new"]
  /\ spec = [r \in Requests |-> None]
  /\ at = [r \in Requests |-> None]
  /\ method = [r \in Requests |-> "GET"]
  /\ headers = [r \in Requests |-> FALSE]
  /\ hops = [r \in Requests |-> 0]
  /\ attempt = [r \in Requests |-> 0]
  /\ wake = [r \in Requests |-> 0]
  /\ globals = {}
  /\ hosts = [o \in Origins |-> {}]
  /\ sites = [s \in Sites |-> {}]
  /\ turn = None
  /\ age = Interval

----------------------------------------------------------------------------

Goto(r, s) == step' = [step EXCEPT ![r] = s]
Move(r, s, t) == step[r] = s /\ Goto(r, t)

\* Leaving the hop: the response is closed, the semaphores are released.
Release(r) ==
  /\ globals' = globals \ {r}
  /\ hosts' = [o \in Origins |-> hosts[o] \ {r}]
  /\ sites' = [s \in Sites |-> sites[s] \ {r}]

\* _transport: only methods without side effects, unless the caller says so.
AttemptsFor(s) == IF s.method = "GET" \/ s.retry THEN MaxAttempts ELSE 1

\* _build_request
FirstHop(r, s) ==
  /\ at' = [at EXCEPT ![r] = s.origin]
  /\ method' = [method EXCEPT ![r] = s.method]
  /\ headers' = [headers EXCEPT ![r] = TRUE]
  /\ hops' = [hops EXCEPT ![r] = 0]

Start(r) ==
  /\ Move(r, "new", "global")
  /\ \E s \in Specs[r] : spec' = [spec EXCEPT ![r] = s] /\ FirstHop(r, s)
  /\ UNCHANGED <<attempt, wake, slots, clock>>

EnterGlobal(r) ==
  /\ Move(r, "global", "host")
  /\ Cardinality(globals) < GlobalLimit
  /\ globals' = globals \cup {r}
  /\ UNCHANGED <<spec, hop, attempt, wake, hosts, sites, clock>>

EnterHost(r) ==
  /\ Move(r, "host", "site")
  /\ Cardinality(hosts[at[r]]) < HostLimit
  /\ hosts' = [hosts EXCEPT ![at[r]] = @ \cup {r}]
  /\ UNCHANGED <<spec, hop, attempt, wake, globals, sites, clock>>

EnterSite(r) ==
  LET s == SiteOf[at[r]] IN
  /\ Move(r, "site", "interval")
  /\ Cardinality(sites[s]) < SiteLimit
  /\ sites' = [sites EXCEPT ![s] = @ \cup {r}]
  /\ UNCHANGED <<spec, hop, attempt, wake, globals, hosts, clock>>

Stamp(r) ==
  /\ Goto(r, "sending")
  /\ age' = 0

\* The interval has passed: the send begins at once.
SendNow(r) ==
  /\ step[r] = "interval"
  /\ turn = None
  /\ age = Interval
  /\ Stamp(r)
  /\ UNCHANGED <<spec, hop, attempt, wake, slots, turn>>

\* Mutant: the lock is not kept for the sleep.
PaceUnlocked(r) ==
  /\ Move(r, "interval", "pacing")
  /\ turn = None
  /\ age < Interval
  /\ wake' = [wake EXCEPT ![r] = Interval - age]
  /\ UNCHANGED <<spec, hop, attempt, slots, clock>>

\* The interval lock is kept while the rest of the interval is slept.
Pace(r) ==
  /\ Move(r, "interval", "pacing")
  /\ turn = None
  /\ age < Interval
  /\ turn' = r
  /\ wake' = [wake EXCEPT ![r] = Interval - age]
  /\ UNCHANGED <<spec, hop, attempt, slots, age>>

SendPaced(r) ==
  /\ step[r] = "pacing"
  /\ wake[r] = 0
  /\ turn' = None
  /\ Stamp(r)
  /\ UNCHANGED <<spec, hop, attempt, wake, slots>>

----------------------------------------------------------------------------

\* Mutant: the caller's headers follow every redirect.
CarriesAll(r, o) == headers[r]

\* The caller's headers stay with the origin, or with the origins that its
\* authentication covers.  Once dropped they do not come back: httpx builds
\* the next hop from the headers of the last.
Carries(r, o) == headers[r] /\ (o = at[r] \/ spec[r].allowed # None)

\* _checked_redirect: the same origin is followed; authentication stays inside
\* its origins and does not fall back to http; without authentication another
\* origin is asked with a GET and without a body only.
MayFollow(r, o, m) ==
  \/ o = at[r]
  \/ spec[r].allowed # None /\ o \in spec[r].allowed /\ ~(at[r] \in Secure /\ o \notin Secure)
  \/ spec[r].allowed = None /\ m = "GET" /\ ~spec[r].body

\* A redirected GET is a GET; a POST is kept or becomes a GET, as the status says.
NextMethods(r) == {"GET", method[r]}

\* Mutant: the slots of the origin and its site are kept for the next hop.
RedirectKeepingSlots(r) ==
  /\ Move(r, "sending", "global")
  /\ hops[r] < MaxRedirects
  /\ \E o \in Origins, m \in NextMethods(r) :
       /\ MayFollow(r, o, m)
       /\ at' = [at EXCEPT ![r] = o]
       /\ method' = [method EXCEPT ![r] = m]
       /\ headers' = [headers EXCEPT ![r] = Carries(r, o)]
  /\ hops' = [hops EXCEPT ![r] = @ + 1]
  /\ globals' = globals \ {r}
  /\ UNCHANGED <<spec, attempt, wake, hosts, sites, clock>>

\* The next hop takes its slots anew, those of its own origin.
Redirect(r) ==
  /\ Move(r, "sending", "global")
  /\ hops[r] < MaxRedirects
  /\ \E o \in Origins, m \in NextMethods(r) :
       /\ MayFollow(r, o, m)
       /\ at' = [at EXCEPT ![r] = o]
       /\ method' = [method EXCEPT ![r] = m]
       /\ headers' = [headers EXCEPT ![r] = Carries(r, o)]
  /\ hops' = [hops EXCEPT ![r] = @ + 1]
  /\ Release(r)
  /\ UNCHANGED <<spec, attempt, wake, clock>>

\* Past the redirect limit, or against the policy: the request fails for good.
RefuseRedirect(r) ==
  /\ Move(r, "sending", "failed")
  /\ \/ hops[r] >= MaxRedirects
     \/ \E o \in Origins, m \in NextMethods(r) : ~MayFollow(r, o, m)
  /\ Release(r)
  /\ UNCHANGED <<spec, hop, attempt, wake, clock>>

\* A response that is no redirect, or redirects are not to be followed.
Respond(r) ==
  /\ Move(r, "sending", "reading")
  /\ UNCHANGED <<spec, hop, attempt, wake, slots, clock>>

\* The body is read; a status that is final, or the last attempt's.
Finish(r) ==
  /\ Move(r, "reading", "done")
  /\ Release(r)
  /\ UNCHANGED <<spec, hop, attempt, wake, clock>>

\* A body past the size limit or an event stream: not repeated.
RefuseResponse(r) ==
  /\ Move(r, "reading", "failed")
  /\ Release(r)
  /\ UNCHANGED <<spec, hop, attempt, wake, clock>>

\* A retryable status (response: read to its end) or a transport error.
AttemptFails(r) ==
  /\ step[r] \in {"sending", "reading"}
  /\ Release(r)
  /\ \/ attempt[r] + 1 < AttemptsFor(spec[r]) /\ Goto(r, "backoff")
     \/ attempt[r] + 1 >= AttemptsFor(spec[r]) /\ Goto(r, "failed")
  /\ UNCHANGED <<spec, hop, attempt, wake, clock>>

\* The delay is over: the request is built anew from what the caller asked.
Retry(r) ==
  /\ Move(r, "backoff", "global")
  /\ attempt' = [attempt EXCEPT ![r] = @ + 1]
  /\ FirstHop(r, spec[r])
  /\ UNCHANGED <<spec, wake, slots, clock>>

\* Mutant: a cancelled sleeper leaves the interval lock locked.
CancelKeepingTurn(r) ==
  /\ step[r] \notin Ended \cup {"new"}
  /\ Goto(r, "cancelled")
  /\ Release(r)
  /\ wake' = [wake EXCEPT ![r] = 0]
  /\ UNCHANGED <<spec, hop, attempt, clock>>

\* The image job is cancelled at an await: what it holds is released, and
\* _last_request is as it was.
Cancel(r) ==
  /\ step[r] \notin Ended \cup {"new"}
  /\ Goto(r, "cancelled")
  /\ Release(r)
  /\ turn' = IF turn = r THEN None ELSE turn
  /\ wake' = [wake EXCEPT ![r] = 0]
  /\ UNCHANGED <<spec, hop, attempt, age>>

Step(r) ==
  \/ Start(r) \/ EnterGlobal(r) \/ EnterHost(r) \/ EnterSite(r)
  \/ SendNow(r) \/ Pace(r) \/ SendPaced(r)
  \/ Redirect(r) \/ RefuseRedirect(r) \/ Respond(r)
  \/ Finish(r) \/ RefuseResponse(r) \/ AttemptFails(r) \/ Retry(r)

\* Time passes; what is longer ago than the interval makes no difference.
Tick ==
  /\ age < Interval
  /\ age' = age + 1
  /\ wake' = [r \in Requests |-> IF wake[r] = 0 THEN 0 ELSE wake[r] - 1]
  /\ UNCHANGED <<step, spec, hop, attempt, slots, turn>>

Next == Tick \/ \E r \in Requests : Step(r) \/ Cancel(r)

\* Every await of a hop comes to its end: a slot once it is free, the send and
\* the read by their timeouts, a sleep by the clock.
Fairness == WF_vars(Tick) /\ \A r \in Requests : WF_vars(Step(r))

Spec == Init /\ [][Next]_vars
FairSpec == Spec /\ Fairness

----------------------------------------------------------------------------

\* Every variable has its type.
TypeOK ==
  /\ step \in [Requests -> Steps]
  /\ \A r \in Requests : spec[r] \in Specs[r] \cup {None}
  /\ DOMAIN spec = Requests
  /\ \A r \in Requests : spec[r] = None <=> step[r] = "new"
  /\ at \in [Requests -> Origins \cup {None}]
  /\ method \in [Requests -> Methods]
  /\ headers \in [Requests -> BOOLEAN]
  /\ hops \in [Requests -> 0..MaxRedirects]
  /\ attempt \in [Requests -> 0..(MaxAttempts - 1)]
  /\ wake \in [Requests -> 0..Interval]
  /\ globals \in SUBSET Requests
  /\ hosts \in [Origins -> SUBSET Requests]
  /\ sites \in [Sites -> SUBSET Requests]
  /\ turn \in Requests \cup {None}
  /\ age \in 0..Interval

\* However a hop is left (redirect, retry, error, cancellation), a slot belongs
\* to a request that is inside a hop to that very origin, and no limit is
\* exceeded: a slot that leaked would be missing for as long as the service runs.
SlotsAreInUse ==
  /\ globals = {r \in Requests : step[r] \in WithGlobal}
  /\ \A o \in Origins : hosts[o] = {r \in Requests : step[r] \in WithHost /\ at[r] = o}
  /\ \A s \in Sites : sites[s] = {r \in Requests : step[r] \in WithSite /\ SiteOf[at[r]] = s}
  /\ Cardinality(globals) <= GlobalLimit
  /\ \A o \in Origins : Cardinality(hosts[o]) <= HostLimit
  /\ \A s \in Sites : Cardinality(sites[s]) <= SiteLimit

\* No two hops of the service begin within the interval, whatever was
\* cancelled while it slept and whoever waited for the lock.
SendsAreSpaced ==
  [][\A r \in Requests : step[r] # "sending" /\ step'[r] = "sending" => age = Interval]_vars

\* Over any chain of redirects the caller's headers and body only reach the
\* origin it asked for and the origins its authentication covers, and a chain
\* that was authenticated over https stays there.
CallerDataStaysHome ==
  \A r \in Requests : step[r] \in {"sending", "reading"} =>
    LET home == {spec[r].origin} \cup IF spec[r].allowed = None THEN {} ELSE spec[r].allowed IN
    /\ headers[r] => at[r] \in home
    /\ method[r] = "POST" /\ spec[r].body => at[r] \in home
    /\ spec[r].allowed # None /\ spec[r].origin \in Secure => at[r] \in Secure

AllEnded == \A r \in Requests : step[r] \in Ended

\* No slot is waited for in a circle and no delay keeps one: every request is
\* answered, fails or is cancelled.
EveryRequestEnds == <>AllEnded

=============================================================================
