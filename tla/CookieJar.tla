----------------------------- MODULE CookieJar -----------------------------
(***************************************************************************)
(* storage/cookies.py: the stored cookies of a profile, shared by services *)
(* that run at the same time.  A service loads them when it is composed,   *)
(* its HTTP client changes its own copy, and at its close it applies the   *)
(* difference to what is stored then.  Imports merge a file or a browser's *)
(* cookies.  Each access holds the cookie lock from its read to its write, *)
(* so it is one action here; Vault has the steps of such a write.          *)
(*                                                                         *)
(* A cookie is its value and its expiry; the other fields follow the value.*)
(***************************************************************************)
EXTENDS Integers

CONSTANTS Services,
          Names,     \* a cookie's domain, path and name
          Values,
          Session,   \* the expiry of a cookie that names none
          Horizon,   \* bound: time is in 0..Horizon, expiries up to Horizon + 1
          None

CookieAssumption ==
  /\ Horizon \in Nat
  /\ Session \notin Nat

Expiries == 1..(Horizon + 1) \cup {Session}
Cookies == [value : Values, expires : Expiries]

VARIABLES
  now,       \* the clock
  stored,    \* stored[k]: cookies.v2.enc
  baseline,  \* baseline[s]: the snapshot that service s took when it loaded
  current,   \* current[s]: the jar of its client, None while it is not open
  touched    \* history: the cookies that servers set or deleted in s

vars == <<now, stored, baseline, current, touched>>

Jars == [Names -> Cookies \cup {None}]

Init ==
  /\ now = 0
  /\ stored = [k \in Names |-> None]
  /\ baseline = [s \in Services |-> None]
  /\ current = [s \in Services |-> None]
  /\ touched = [s \in Services |-> {}]

Expired(c) == c # None /\ c.expires # Session /\ c.expires <= now

\* clear_expired_cookies
Fresh(jar) == [k \in Names |-> IF Expired(jar[k]) THEN None ELSE jar[k]]

\* _resolved_cookie: the same value keeps the longer expiry; that of a session
\* cookie is the shortest.
Resolved(c, latest) ==
  IF /\ latest # None /\ latest.value = c.value
     /\ latest.expires # Session
     /\ c.expires = Session \/ latest.expires > c.expires
  THEN [c EXCEPT !.expires = latest.expires]
  ELSE c

----------------------------------------------------------------------------

\* A service is composed: load() and snapshot().
Open(s) ==
  /\ current[s] = None
  /\ current' = [current EXCEPT ![s] = Fresh(stored)]
  /\ baseline' = [baseline EXCEPT ![s] = Fresh(stored)]
  /\ touched' = [touched EXCEPT ![s] = {}]
  /\ UNCHANGED <<now, stored>>

\* A response sets cookie k, or deletes it.
Receive(s, k) ==
  /\ current[s] # None
  /\ \E c \in {d \in Cookies : ~Expired(d)} \cup {None} :
       current' = [current EXCEPT ![s] = [@ EXCEPT ![k] = c]]
  /\ touched' = [touched EXCEPT ![s] = @ \cup {k}]
  /\ UNCHANGED <<now, stored, baseline>>

\* A request is sent: the client drops what has expired.
Request(s) ==
  /\ current[s] # None
  /\ current' = [current EXCEPT ![s] = Fresh(@)]
  /\ UNCHANGED <<now, stored, baseline, touched>>

Differs(s, k) == current[s][k] # baseline[s][k]

\* Mutant: a cookie that has expired meanwhile counts as deleted.
DeletesExpired(s) ==
  {k \in Names : /\ Differs(s, k)
                 /\ current[s][k] = None \/ Expired(current[s][k])
                 /\ baseline[s][k] # None}

\* What expired by itself is no deletion.
Deletes(s) ==
  {k \in Names : /\ Differs(s, k)
                 /\ current[s][k] = None \/ Expired(current[s][k])
                 /\ baseline[s][k] # None
                 /\ current[s][k] # None \/ ~Expired(baseline[s][k])}

Changes(s) ==
  {k \in Names : Differs(s, k) /\ current[s][k] # None /\ ~Expired(current[s][k])}

\* persist_delta: the cookies of this service's changes, applied to the latest.
Persisted(s) ==
  LET latest == Fresh(stored) IN
  [k \in Names |-> IF k \in Deletes(s) THEN None
                  ELSE IF k \in Changes(s) THEN Resolved(current[s][k], latest[k])
                  ELSE latest[k]]

Closed(s) ==
  /\ current' = [current EXCEPT ![s] = None]
  /\ baseline' = [baseline EXCEPT ![s] = None]
  /\ touched' = [touched EXCEPT ![s] = {}]
  /\ UNCHANGED now

\* The service is closed; without a difference nothing is read or written.
Persist(s) ==
  /\ current[s] # None
  /\ stored' = IF Deletes(s) \cup Changes(s) = {} THEN stored ELSE Persisted(s)
  /\ Closed(s)

\* It fails to persist, was composed not to, or its process dies.
Drop(s) ==
  /\ current[s] # None
  /\ UNCHANGED stored
  /\ Closed(s)

\* import_file and import_browser: _merge of the cookies that have not expired.
\* An import from a browser that changes nothing writes nothing.
Import(k, c) ==
  LET latest == Fresh(stored)
      merged == [latest EXCEPT ![k] = Resolved(c, @)]
  IN
  /\ ~Expired(c)
  /\ stored' = merged \/ (merged = latest /\ UNCHANGED stored)
  /\ UNCHANGED <<now, baseline, current, touched>>

Tick ==
  /\ now < Horizon
  /\ now' = now + 1
  /\ UNCHANGED <<stored, baseline, current, touched>>

Next ==
  \/ \E s \in Services : \/ Open(s) \/ Request(s) \/ Persist(s) \/ Drop(s)
                         \/ \E k \in Names : Receive(s, k)
  \/ \E k \in Names, c \in Cookies : Import(k, c)
  \/ Tick

Spec == Init /\ [][Next]_vars

----------------------------------------------------------------------------

\* Every variable has its type.
TypeOK ==
  /\ now \in 0..Horizon
  /\ stored \in Jars
  /\ baseline \in [Services -> Jars \cup {None}]
  /\ current \in [Services -> Jars \cup {None}]
  /\ touched \in [Services -> SUBSET Names]

\* The close of a service changes, deletes or brings back a stored cookie only
\* when a server set or deleted it in that session; otherwise it drops at most
\* what has expired.  Cookies that only expired in its memory, that another
\* service has stored since it loaded them or that another one has deleted since
\* are left as they are (persist_delta).
OnlyOwnChanges ==
  [][\A s \in Services, k \in Names :
       /\ Persist(s) /\ stored'[k] # stored[k]
       /\ ~(Expired(stored[k]) /\ stored'[k] = None)
       => k \in touched[s]]_vars

Later(e, f) == f = Session \/ (e # Session /\ e >= f)

\* As long as a cookie keeps its value, neither a service nor an import that
\* knows an older expiry makes it expire sooner.
NeverShortened ==
  [][\A k \in Names :
       stored[k] # None /\ ~Expired(stored[k]) /\ stored'[k] # None /\ stored'[k].value = stored[k].value
       => Later(stored'[k].expires, stored[k].expires)]_vars
=============================================================================
