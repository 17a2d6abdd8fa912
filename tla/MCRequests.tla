----------------------------- MODULE MCRequests -----------------------------
(* The way of an image's bytes: two images of one operation are fetched with *)
(* its plugin's hooks and authentication, and the hooks of one of them make  *)
(* a request of their own; or three requests go through the gateway of the   *)
(* service.  What the first sends is one send there and what the second      *)
(* transmits is any request, so in a behaviour only one moves.               *)
(*                                                                           *)
(* The gateway knows two origins of one site, one of them http, and one of   *)
(* another site.  Of its three callers one posts without authentication, one *)
(* gets, and one posts under an authentication that covers all three         *)
(* origins.  Two slots of the service, one of each origin and site: requests *)
(* wait for each other at every semaphore, also when redirects cross.        *)
EXTENDS OperationRequests

CONSTANTS r1, r2, r3,
          Sent, Specs, Origins, Secure, SiteOf, GlobalLimit, HostLimit, SiteLimit,
          Interval, MaxAttempts, MaxRedirects

VARIABLES
  mover,  \* the one that moves in this behaviour
  hop, asked, at, method, headers, hops, attempt, wake, globals, hosts, sites, turn, age

Gateway == INSTANCE RequestGateway WITH Requests <- Sent, step <- hop, spec <- asked

ASSUME GatewayHolds == Gateway!GatewayAssumption

gatewayVars == <<hop, asked, at, method, headers, hops, attempt, wake, globals, hosts, sites,
                 turn, age>>
allVars == <<mover, vars, gatewayVars>>

AllInit == mover \in {"operation", "gateway"} /\ Init /\ Gateway!Init

AllNext ==
  \/ mover = "operation" /\ Next /\ UNCHANGED <<mover, gatewayVars>>
  \/ mover = "gateway" /\ Gateway!Next /\ UNCHANGED <<mover, vars>>

\* The fairness of each, while it moves.
AllFairness ==
  /\ \A c \in Calls : WF_vars(mover = "operation" /\ Step(c))
  /\ WF_gatewayVars(mover = "gateway" /\ Gateway!Tick)
  /\ \A r \in Sent : WF_gatewayVars(mover = "gateway" /\ Gateway!Step(r))

AllSpec == AllInit /\ [][AllNext]_allVars /\ AllFairness

\* See OperationRequests and RequestGateway.
SlotsAreInUse == Gateway!SlotsAreInUse
SendsAreSpaced == Gateway!SendsAreSpaced
CallerDataStaysHome == Gateway!CallerDataStaysHome

\* EveryRequestEnds of the one that moves.
AllRequestsEnd ==
  <>[](\/ mover = "operation" /\ Settled
       \/ mover = "gateway" /\ Gateway!AllEnded)

MCOrigins == {"https://a.one", "http://b.one", "https://two"}
MCSecure == {"https://a.one", "https://two"}
MCSiteOf == [o \in MCOrigins |-> IF o = "https://two" THEN "two" ELSE "one"]

Asks(m, allowed) == [origin |-> "https://a.one", method |-> m, body |-> m = "POST",
                     retry |-> FALSE, allowed |-> allowed]
MCSpecs == [r \in Sent |-> CASE r = r1 -> {Asks("POST", None)}
                           [] r = r2 -> {Asks("GET", None)}
                           [] r = r3 -> {Asks("POST", MCOrigins)}]
=============================================================================
