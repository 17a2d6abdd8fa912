---------------------- MODULE OperationRequests_proofs ----------------------
(***************************************************************************)
(* For any number of images and of requests of their hooks, any limit and  *)
(* any number of attempts: the request limit holds, no request is sent     *)
(* with credentials that were refused to it, and its sends are bounded.    *)
(*                                                                         *)
(* For any number of requests of any kind among any origins, whose sends   *)
(* are an instance of RequestGateway in MCRequests: slots are held by hops *)
(* that are under way only, sends are spaced, and what belongs to an       *)
(* origin stays there.                                                     *)
(***************************************************************************)
EXTENDS MCRequests, FiniteSetTheorems, TLAPS

\* From its first hook's return to its end a call has a request.
HasRequest ==
  \A i \in Calls : step[i] \notin {"new", "create"} \cup Ended =>
    spec[i] \in Requests /\ current[i] \in Requests

\* The steps between the granting of a slot and what follows the answer.
Granted == {"send", "lock", "refresh", "refreshed"}

Recoveries(i) == IF recovered[i] THEN 1 ELSE 0

\* A request about to be sent has been sent once for every attempt and recovery;
\* one that was sent, once more at most.
SendsCounted ==
  \A i \in Calls :
    /\ sends[i] <= attempts[i] + Recoveries(i) + 1
    /\ step[i] \notin Granted \cup Ended => sends[i] <= attempts[i] + Recoveries(i)
    /\ step[i] \in {"lock", "refresh", "refreshed"} => attempts[i] < Attempts

\* Only the call that refreshes holds the lock.
LockHeld == \A i \in Calls : lock = i <=> step[i] \in {"refresh", "refreshed"}

\* What carries credentials observed a generation at least as new, and the
\* generation has moved on since the last refusal whenever a request is made.
Freshness ==
  \A i \in Calls :
    /\ observed[i] <= generation
    /\ refused[i] <= observed[i]
    /\ step[i] = "refresh" => observed[i] = generation
    /\ step[i] \in {"new", "create", "apply", "applied", "limit", "send", "recover", "refreshed"} =>
         refused[i] < generation
    /\ step[i] = "applied" /\ current[i].auth =>
         refused[i] < current[i].credentials /\ current[i].credentials <= generation
    /\ step[i] = "limit" /\ current[i].auth =>
         refused[i] < current[i].credentials /\ current[i].credentials <= observed[i]
    /\ step[i] = "send" /\ current[i].auth => current[i].credentials <= observed[i]

\* The inductive invariant.
Inv ==
  /\ TypeOK /\ IsFiniteSet(slots)
  /\ HasRequest /\ SendsCounted /\ LockHeld /\ Freshness

\* A slot more than fewer than Limit, or a slot less, is within the limit.
LEMMA SlotCounts ==
  ASSUME IsFiniteSet(slots), Cardinality(slots) <= Limit, NEW i
  PROVE  /\ IsFiniteSet(slots \cup {i}) /\ IsFiniteSet(slots \ {i})
         /\ Cardinality(slots) < Limit => Cardinality(slots \cup {i}) <= Limit
         /\ Cardinality(slots \ {i}) <= Limit
<1>1. Cardinality(slots) \in Nat
  BY FS_CardinalityType
<1>2. IsFiniteSet(slots \cup {i}) /\ Cardinality(slots \cup {i}) <= Cardinality(slots) + 1
  BY <1>1, FS_AddElement
<1>3. IsFiniteSet(slots \ {i}) /\ Cardinality(slots \ {i}) <= Cardinality(slots)
  BY <1>1, FS_RemoveElement
<1>4. Cardinality(slots \cup {i}) \in Nat /\ Cardinality(slots \ {i}) \in Nat
  BY <1>2, <1>3, FS_CardinalityType
<1> QED
  BY <1>1, <1>2, <1>3, <1>4, OperationAssumption

\* However calls end: what they hold is free and the others are not disturbed.
LEMMA EndsKeepInv ==
  ASSUME Inv, NEW S \in SUBSET Calls, NEW how \in Ended,
         step' = Clear(step, S, how), Leave(S),
         BringNothing(S) \/ UNCHANGED <<current, data>>,
         generation' = generation,
         lock' = IF lock \in S THEN None ELSE lock,
         slots' \subseteq slots
  PROVE  Inv'
<1> USE DEF Inv, Leave, Clear, Ended
<1>1. /\ step' \in [Calls -> Steps]
      /\ \A c \in S : step'[c] \in Ended
      /\ \A c \in Calls \ S : step'[c] = step[c]
  BY DEF TypeOK, Steps
<1>2. slots' \in SUBSET Calls /\ IsFiniteSet(slots') /\ Cardinality(slots') <= Limit
  <2>1. IsFiniteSet(slots') /\ Cardinality(slots') <= Cardinality(slots)
    BY FS_Subset
  <2>2. Cardinality(slots') \in Nat /\ Cardinality(slots) \in Nat
    BY <2>1, FS_CardinalityType
  <2> QED
    BY <2>1, <2>2, OperationAssumption DEF TypeOK
<1>3. /\ current' \in [Calls -> Requests \cup {None}] /\ data' \in [Calls -> Makers \cup {None}]
      /\ \A c \in Calls \ S : current'[c] = current[c]
  BY DEF BringNothing, TypeOK
<1>4. /\ spec' \in [Calls -> Requests \cup {None}]
      /\ \A c \in Calls \ S : spec'[c] = spec[c]
  BY DEF TypeOK
<1>5. /\ observed' \in [Calls -> Nat] /\ attempts' \in [Calls -> 0..Attempts]
      /\ recovered' \in [Calls -> BOOLEAN]
      /\ refused' \in [Calls -> Int] /\ sends' \in [Calls -> Nat]
      /\ callers' \in [Calls -> SUBSET Calls]
  <2>1. /\ observed \in [Calls -> Nat] /\ attempts \in [Calls -> 0..Attempts]
        /\ recovered \in [Calls -> BOOLEAN]
        /\ refused \in [Calls -> Int] /\ sends \in [Calls -> Nat]
        /\ callers \in [Calls -> SUBSET Calls]
    BY DEF TypeOK
  <2>2. 0 \in Nat /\ 0 \in 0..Attempts /\ NoCredentials \in Int
    BY OperationAssumption DEF NoCredentials
  <2>3. observed' \in [Calls -> Nat] /\ attempts' \in [Calls -> 0..Attempts]
    BY <2>1, <2>2
  <2>4. recovered' \in [Calls -> BOOLEAN]
    BY <2>1
  <2>5. refused' \in [Calls -> Int] /\ sends' \in [Calls -> Nat]
    BY <2>1, <2>2
  <2>6. callers' \in [Calls -> SUBSET Calls]
    BY <2>1
  <2> QED
    BY <2>3, <2>4, <2>5, <2>6
<1>6. \A c \in Calls \ S : /\ observed'[c] = observed[c] /\ attempts'[c] = attempts[c]
                           /\ recovered'[c] = recovered[c]
                           /\ refused'[c] = refused[c] /\ sends'[c] = sends[c]
  BY DEF TypeOK
<1>7. \A c \in S : /\ observed'[c] = 0 /\ attempts'[c] = 0 /\ recovered'[c] = FALSE
                   /\ refused'[c] = -1 /\ sends'[c] = 0
  BY DEF TypeOK, NoCredentials
<1>8. generation' \in Nat /\ lock' \in Calls \cup {None}
  BY DEF TypeOK
<1> HIDE DEF Leave, Clear
<1>9. TypeOK'
  BY <1>1, <1>2, <1>3, <1>4, <1>5, <1>8 DEF TypeOK
<1>10. HasRequest'
  BY <1>1, <1>3, <1>4 DEF HasRequest
<1>11. SendsCounted'
  BY <1>1, <1>5, <1>6, <1>7, OperationAssumption DEF SendsCounted, Recoveries, Granted
<1>12. LockHeld'
  BY <1>1, OperationAssumption DEF LockHeld, TypeOK
<1>13. Freshness'
  BY <1>1, <1>3, <1>6, <1>7, <1>8 DEF Freshness
<1> QED
  BY <1>2, <1>9, <1>10, <1>11, <1>12, <1>13

LEMMA NextInv == Inv /\ [Next]_vars => Inv'
<1> SUFFICES ASSUME Inv, [Next]_vars PROVE Inv'
  OBVIOUS
<1> USE OperationAssumption DEF Requests, Makers, Steps, HookSteps, Ended, Granted, NoCredentials
<1>0. CASE UNCHANGED vars
  BY <1>0 DEF vars, session, request, counters, Inv, TypeOK, HasRequest, SendsCounted, LockHeld, Freshness, Recoveries
<1>1. ASSUME NEW i \in Calls, Start(i) PROVE Inv'
  <2> USE <1>1 DEF Start, Goto, Move, session, request, counters, Inv
  <2>1. TypeOK' /\ IsFiniteSet(slots')
    BY DEF TypeOK
  <2>2. HasRequest'
    BY DEF TypeOK, HasRequest
  <2>3. SendsCounted'
    BY DEF TypeOK, SendsCounted, Recoveries
  <2>4. LockHeld'
    BY DEF TypeOK, LockHeld
  <2>5. Freshness'
    BY DEF TypeOK, Freshness, LockHeld, HasRequest
  <2> QED
    BY <2>1, <2>2, <2>3, <2>4, <2>5
<1>2. ASSUME NEW i \in Calls, HookAsks(i) PROVE Inv'
  <2> USE <1>2 DEF HookAsks, Goto, Move, session, request, counters, Inv
  <2>1. TypeOK' /\ IsFiniteSet(slots')
    BY DEF TypeOK
  <2>2. HasRequest'
    BY DEF TypeOK, HasRequest
  <2>3. SendsCounted'
    BY DEF TypeOK, SendsCounted, Recoveries
  <2>4. LockHeld'
    BY DEF TypeOK, LockHeld
  <2>5. Freshness'
    BY DEF TypeOK, Freshness, LockHeld, HasRequest
  <2> QED
    BY <2>1, <2>2, <2>3, <2>4, <2>5
<1>3. ASSUME NEW i \in Calls, CreateReturns(i) PROVE Inv'
  <2> USE <1>3 DEF CreateReturns, Goto, Move, session, request, counters, Inv
  <2>1. TypeOK' /\ IsFiniteSet(slots')
    BY DEF TypeOK
  <2>2. HasRequest'
    BY DEF TypeOK, HasRequest
  <2>3. SendsCounted'
    BY DEF TypeOK, SendsCounted, Recoveries
  <2>4. LockHeld'
    BY DEF TypeOK, LockHeld
  <2>5. Freshness'
    BY DEF TypeOK, Freshness, LockHeld, HasRequest
  <2> QED
    BY <2>1, <2>2, <2>3, <2>4, <2>5
<1>4. ASSUME NEW i \in Calls, Apply(i) PROVE Inv'
  <2> USE <1>4 DEF Apply, Goto, Move, session, request, counters, Inv
  <2>1. TypeOK' /\ IsFiniteSet(slots')
    <3> DEFINE c == IF current[i].auth THEN generation ELSE NoCredentials
    <3>1. current[i] \in Requests /\ c \in Int
      BY DEF HasRequest, TypeOK
    <3>2. [current[i] EXCEPT !.credentials = c] \in Requests
      BY <3>1
    <3>3. current' = [current EXCEPT ![i] = [current[i] EXCEPT !.credentials = c]]
      OBVIOUS
    <3>4. current' \in [Calls -> Requests \cup {None}]
      <4> HIDE DEF c
      <4> QED
        BY ONLY <3>2, <3>3, TypeOK DEF TypeOK
    <3> HIDE DEF c
    <3> QED
      BY <3>4 DEF TypeOK
  <2>2. HasRequest'
    <3> DEFINE c == IF current[i].auth THEN generation ELSE NoCredentials
    <3>1. current[i] \in Requests /\ spec[i] \in Requests /\ c \in Int
      BY DEF HasRequest, TypeOK
    <3>2. [current[i] EXCEPT !.credentials = c] \in Requests
      BY <3>1
    <3>3. /\ current' = [current EXCEPT ![i] = [current[i] EXCEPT !.credentials = c]]
          /\ step' = [step EXCEPT ![i] = "applied"] /\ spec' = spec
      OBVIOUS
    <3>4. step \in [Calls -> Steps] /\ current \in [Calls -> Requests \cup {None}]
      BY DEF TypeOK
    <3> HIDE DEF c, Apply
    <3> QED
      BY <3>1, <3>2, <3>3, <3>4 DEF HasRequest
  <2>3. SendsCounted'
    BY DEF TypeOK, SendsCounted, Recoveries
  <2>4. LockHeld'
    BY DEF TypeOK, LockHeld
  <2>5. Freshness'
    BY DEF TypeOK, Freshness, LockHeld, HasRequest
  <2> QED
    BY <2>1, <2>2, <2>3, <2>4, <2>5
<1>5. ASSUME NEW i \in Calls, ObserveGeneration(i) PROVE Inv'
  <2> USE <1>5 DEF ObserveGeneration, Goto, Move, session, request, counters, Inv
  <2>1. TypeOK' /\ IsFiniteSet(slots')
    BY DEF TypeOK
  <2>2. HasRequest'
    BY DEF TypeOK, HasRequest
  <2>3. SendsCounted'
    BY DEF TypeOK, SendsCounted, Recoveries
  <2>4. LockHeld'
    BY DEF TypeOK, LockHeld
  <2>5. Freshness'
    BY DEF TypeOK, Freshness, LockHeld, HasRequest
  <2> QED
    BY <2>1, <2>2, <2>3, <2>4, <2>5
<1>6. ASSUME NEW i \in Calls, Send(i) PROVE Inv'
  <2> USE <1>6 DEF Send, Goto, Move, session, request, counters, Inv
  <2>0. slots' \in SUBSET Calls /\ IsFiniteSet(slots') /\ Cardinality(slots') <= Limit
    BY SlotCounts DEF TypeOK
  <2>1. TypeOK' /\ IsFiniteSet(slots')
    BY <2>0 DEF TypeOK
  <2>2. HasRequest'
    BY DEF TypeOK, HasRequest
  <2>3. SendsCounted'
    BY DEF TypeOK, SendsCounted, Recoveries
  <2>4. LockHeld'
    BY DEF TypeOK, LockHeld
  <2>5. Freshness'
    BY DEF TypeOK, Freshness, LockHeld, HasRequest
  <2> QED
    BY <2>1, <2>2, <2>3, <2>4, <2>5
<1>7. ASSUME NEW i \in Calls, Refused(i) PROVE Inv'
  <2> USE <1>7 DEF Refused, Answered, Goto, Move, session, request, counters, Inv
  <2>0. slots' \in SUBSET Calls /\ IsFiniteSet(slots') /\ Cardinality(slots') <= Limit
    BY SlotCounts DEF TypeOK
  <2>1. TypeOK' /\ IsFiniteSet(slots')
    BY <2>0 DEF TypeOK, HasRequest
  <2>2. HasRequest'
    BY DEF TypeOK, HasRequest
  <2>3. SendsCounted'
    BY DEF TypeOK, SendsCounted, Recoveries
  <2>4. LockHeld'
    BY DEF TypeOK, LockHeld
  <2>5. Freshness'
    BY DEF TypeOK, Freshness, LockHeld, HasRequest
  <2> QED
    BY <2>1, <2>2, <2>3, <2>4, <2>5
<1>8. ASSUME NEW i \in Calls, BeginRefresh(i) PROVE Inv'
  <2> USE <1>8 DEF BeginRefresh, Goto, Move, session, request, counters, Inv
  <2>1. TypeOK' /\ IsFiniteSet(slots')
    BY DEF TypeOK
  <2>2. HasRequest'
    BY DEF TypeOK, HasRequest
  <2>3. SendsCounted'
    BY DEF TypeOK, SendsCounted, Recoveries
  <2>4. LockHeld'
    BY DEF TypeOK, LockHeld
  <2>5. Freshness'
    BY DEF TypeOK, Freshness, LockHeld, HasRequest
  <2> QED
    BY <2>1, <2>2, <2>3, <2>4, <2>5
<1>9. ASSUME NEW i \in Calls, UseRefreshed(i) PROVE Inv'
  <2> USE <1>9 DEF UseRefreshed, Goto, Move, session, request, counters, Inv
  <2>1. TypeOK' /\ IsFiniteSet(slots')
    BY DEF TypeOK, HasRequest, SendsCounted
  <2>2. HasRequest'
    BY DEF TypeOK, HasRequest
  <2>3. SendsCounted'
    BY DEF TypeOK, SendsCounted, Recoveries
  <2>4. LockHeld'
    BY DEF TypeOK, LockHeld
  <2>5. Freshness'
    <3>1. refused[i] \in Int /\ observed[i] \in Nat /\ generation \in Nat
      BY DEF TypeOK
    <3>2. refused[i] < generation
      BY <3>1 DEF Freshness
    <3>3. /\ step' = [step EXCEPT ![i] = "apply"] /\ current' = [current EXCEPT ![i] = spec[i]]
          /\ step \in [Calls -> Steps] /\ current \in [Calls -> Requests \cup {None}]
      BY DEF TypeOK
    <3> QED
      BY <3>2, <3>3 DEF Freshness
  <2> QED
    BY <2>1, <2>2, <2>3, <2>4, <2>5
<1>10. ASSUME NEW i \in Calls, RefreshReturns(i) PROVE Inv'
  <2> USE <1>10 DEF RefreshReturns, Goto, Move, session, request, counters, Inv
  <2>1. TypeOK' /\ IsFiniteSet(slots')
    BY DEF TypeOK, Freshness
  <2>2. HasRequest'
    BY DEF TypeOK, HasRequest
  <2>3. SendsCounted'
    BY DEF TypeOK, SendsCounted, Recoveries
  <2>4. LockHeld'
    BY DEF TypeOK, LockHeld
  <2>5. Freshness'
    BY DEF TypeOK, Freshness, LockHeld, HasRequest
  <2> QED
    BY <2>1, <2>2, <2>3, <2>4, <2>5
<1>11. ASSUME NEW i \in Calls, RefreshEnds(i) PROVE Inv'
  <2> USE <1>11 DEF RefreshEnds, Goto, Move, session, request, counters, Inv
  <2>1. TypeOK' /\ IsFiniteSet(slots')
    BY DEF TypeOK, SendsCounted
  <2>2. HasRequest'
    BY DEF TypeOK, HasRequest
  <2>3. SendsCounted'
    BY DEF TypeOK, SendsCounted, Recoveries
  <2>4. LockHeld'
    BY DEF TypeOK, LockHeld
  <2>5. Freshness'
    BY DEF TypeOK, Freshness, LockHeld, HasRequest
  <2> QED
    BY <2>1, <2>2, <2>3, <2>4, <2>5
<1>12. ASSUME NEW i \in Calls, BeginRecovery(i) PROVE Inv'
  <2> USE <1>12 DEF BeginRecovery, Answered, Goto, Move, session, request, counters, Inv
  <2>0. slots' \in SUBSET Calls /\ IsFiniteSet(slots') /\ Cardinality(slots') <= Limit
    BY SlotCounts DEF TypeOK
  <2>1. TypeOK' /\ IsFiniteSet(slots')
    BY <2>0 DEF TypeOK
  <2>2. HasRequest'
    BY DEF TypeOK, HasRequest
  <2>3. SendsCounted'
    BY DEF TypeOK, SendsCounted, Recoveries
  <2>4. LockHeld'
    BY DEF TypeOK, LockHeld
  <2>5. Freshness'
    BY DEF TypeOK, Freshness, LockHeld, HasRequest
  <2> QED
    BY <2>1, <2>2, <2>3, <2>4, <2>5
<1>13. ASSUME NEW i \in Calls, RecoverReturns(i) PROVE Inv'
  <2> USE <1>13 DEF RecoverReturns, Goto, Move, session, request, counters, Inv
  <2>1. TypeOK' /\ IsFiniteSet(slots')
    BY DEF TypeOK, HasRequest
  <2>2. HasRequest'
    BY DEF TypeOK, HasRequest
  <2>3. SendsCounted'
    BY DEF TypeOK, SendsCounted, Recoveries
  <2>4. LockHeld'
    BY DEF TypeOK, LockHeld
  <2>5. Freshness'
    BY DEF TypeOK, Freshness, LockHeld, HasRequest
  <2> QED
    BY <2>1, <2>2, <2>3, <2>4, <2>5
<1>14. ASSUME NEW i \in Calls, Succeeds(i) PROVE Inv'
  <2>1. step' = Clear(step, {i}, "done")
    BY <1>14 DEF Succeeds, Answered, Move, Goto, Clear, Inv, TypeOK
  <2>2. lock' = IF lock \in {i} THEN None ELSE lock
    BY <1>14 DEF Succeeds, Answered, Move, Inv, LockHeld, session
  <2>3. Leave({i}) /\ (BringNothing({i}) \/ UNCHANGED <<current, data>>)
    BY <1>14 DEF Succeeds
  <2>4. generation' = generation /\ slots' \subseteq slots
    BY <1>14 DEF Succeeds, Answered, session
  <2> QED
    BY <2>1, <2>2, <2>3, <2>4, EndsKeepInv
<1>15. ASSUME NEW i \in Calls, GivesUp(i) PROVE Inv'
  <2>1. step' = Clear(step, {i}, "failed")
    BY <1>15 DEF GivesUp, Answered, Move, Goto, Clear, Inv, TypeOK
  <2>2. lock' = IF lock \in {i} THEN None ELSE lock
    BY <1>15 DEF GivesUp, Answered, Move, Inv, LockHeld, session
  <2>3. Leave({i}) /\ (BringNothing({i}) \/ UNCHANGED <<current, data>>)
    BY <1>15 DEF GivesUp
  <2>4. generation' = generation /\ slots' \subseteq slots
    BY <1>15 DEF GivesUp, Answered, session
  <2> QED
    BY <2>1, <2>2, <2>3, <2>4, EndsKeepInv
<1>16. ASSUME NEW i \in Calls, RefreshFails(i) PROVE Inv'
  <2>1. step' = Clear(step, {i}, "failed")
    BY <1>16 DEF RefreshFails, Move, Goto, Clear, Inv, TypeOK
  <2>2. lock' = IF lock \in {i} THEN None ELSE lock
    BY <1>16 DEF RefreshFails, Move, Inv, LockHeld, session
  <2>3. Leave({i}) /\ (BringNothing({i}) \/ UNCHANGED <<current, data>>)
    BY <1>16 DEF RefreshFails
  <2>4. generation' = generation /\ slots' \subseteq slots
    BY <1>16 DEF RefreshFails, session
  <2> QED
    BY <2>1, <2>2, <2>3, <2>4, EndsKeepInv
<1>17. ASSUME NEW i \in Calls, RecoverDeclines(i) PROVE Inv'
  <2>1. step' = Clear(step, {i}, "failed")
    BY <1>17 DEF RecoverDeclines, Move, Goto, Clear, Inv, TypeOK
  <2>2. lock' = IF lock \in {i} THEN None ELSE lock
    BY <1>17 DEF RecoverDeclines, Move, Inv, LockHeld, session
  <2>3. Leave({i}) /\ (BringNothing({i}) \/ UNCHANGED <<current, data>>)
    BY <1>17 DEF RecoverDeclines
  <2>4. generation' = generation /\ slots' \subseteq slots
    BY <1>17 DEF RecoverDeclines, session
  <2> QED
    BY <2>1, <2>2, <2>3, <2>4, EndsKeepInv
<1>18. ASSUME NEW i \in Calls, Breaks(i) PROVE Inv'
  <2>1. step' = Clear(step, {i}, "failed")
    BY <1>18 DEF Breaks, Move, Goto, Clear, Inv, TypeOK
  <2>2. lock' = IF lock \in {i} THEN None ELSE lock
    BY <1>18 DEF Breaks, Move, Inv, LockHeld, session
  <2>3. Leave({i}) /\ (BringNothing({i}) \/ UNCHANGED <<current, data>>)
    BY <1>18 DEF Breaks
  <2>4. generation' = generation /\ slots' \subseteq slots
    BY <1>18 DEF Breaks, session
  <2> QED
    BY <2>1, <2>2, <2>3, <2>4, EndsKeepInv
<1>19. ASSUME NEW i \in Images, Cancel(i) PROVE Inv'
  <2> DEFINE Own == {c \in Calls : Image(c) = i}
  <2>1. /\ step' = Clear(step, Own, "cancelled") /\ Leave(Own) /\ BringNothing(Own)
        /\ lock' = (IF lock \in Own THEN None ELSE lock)
        /\ slots' \subseteq slots /\ generation' = generation
    BY <1>19 DEF Cancel
  <2>2. Own \in SUBSET Calls
    OBVIOUS
  <2> HIDE DEF Own
  <2> QED
    BY <2>1, <2>2, EndsKeepInv
<1> QED
  BY <1>0, <1>1, <1>2, <1>3, <1>4, <1>5, <1>6, <1>7, <1>8, <1>9, <1>10, <1>11, <1>12, <1>13, <1>14, <1>15, <1>16, <1>17, <1>18, <1>19 DEF Next, Step

THEOREM Invariance == Spec => []Inv
<1>1. Init => Inv
  <2> SUFFICES ASSUME Init PROVE Inv
    OBVIOUS
  <2>1. IsFiniteSet(slots) /\ Cardinality(slots) = 0
    BY FS_EmptySet DEF Init
  <2>2. TypeOK
    BY <2>1, OperationAssumption DEF Init, TypeOK, Steps, HookSteps, NoCredentials
  <2>3. HasRequest /\ SendsCounted /\ LockHeld /\ Freshness
    BY OperationAssumption DEF Init, HasRequest, SendsCounted, LockHeld, Freshness, Recoveries, NoCredentials, Granted, Ended
  <2> QED
    BY <2>1, <2>2, <2>3 DEF Inv
<1> QED
  BY <1>1, NextInv, PTL DEF Spec

\* Every variable keeps its type and the request limit holds.
THEOREM TypeCorrect == Spec => []TypeOK
<1>1. Inv => TypeOK
  BY DEF Inv
<1> QED
  BY <1>1, Invariance, PTL

\* No request is sent more often than its refreshes and its recovery allow.
THEOREM SendsBounded == Spec => []SendsAreBounded
<1>1. Inv => SendsAreBounded
  BY OperationAssumption DEF Inv, TypeOK, SendsCounted, SendsAreBounded, Recoveries
<1> QED
  BY <1>1, Invariance, PTL

LEMMA OnlySendSends ==
  Inv /\ [Next]_vars => \A i \in Calls : sends'[i] > sends[i] => Send(i)
<1> SUFFICES ASSUME Inv, [Next]_vars, NEW j \in Calls, sends'[j] > sends[j] PROVE Send(j)
  OBVIOUS
<1>0. sends \in [Calls -> Nat]
  BY DEF Inv, TypeOK
<1>1. sends' # sends
  BY <1>0
<1>2. CASE \E S : Leave(S)
  BY <1>2 DEF Leave, Clear, Inv, TypeOK
<1>3. CASE \E i \in Calls : Step(i)
  <2>1. PICK i \in Calls : Step(i)
    BY <1>3
  <2>2. CASE Send(i)
    <3>1. sends' = [sends EXCEPT ![i] = sends[i] + 1]
      BY <2>2 DEF Send
    <3>2. i = j
      BY <1>0, <3>1
    <3> QED
      BY <2>2, <3>2
  <2>3. CASE Succeeds(i) \/ GivesUp(i) \/ RefreshFails(i) \/ RecoverDeclines(i) \/ Breaks(i)
    BY <1>2, <2>3 DEF Succeeds, GivesUp, RefreshFails, RecoverDeclines, Breaks
  <2>4. ~(Send(i) \/ Succeeds(i) \/ GivesUp(i) \/ RefreshFails(i) \/ RecoverDeclines(i) \/ Breaks(i))
        => sends' = sends
    BY <2>1 DEF Step, Start, HookAsks, CreateReturns, Apply, ObserveGeneration, Refused, BeginRefresh,
      UseRefreshed, RefreshReturns, RefreshEnds, BeginRecovery, RecoverReturns, session, counters, request
  <2> QED
    BY <1>1, <2>2, <2>3, <2>4
<1>4. CASE \E i \in Images : Cancel(i)
  BY <1>2, <1>4 DEF Cancel
<1> QED
  BY <1>1, <1>3, <1>4 DEF Next, vars

\* No request is sent with credentials that were already refused to it.
THEOREM NothingRefusedIsResent == Spec => NeverSentWithRefused
<1>1. Inv /\ [Next]_vars =>
       [\A c \in Calls : sends'[c] > sends[c] /\ current[c].auth =>
          current[c].credentials > refused[c]]_vars
  <2> SUFFICES ASSUME Inv, [Next]_vars, NEW i \in Calls, sends'[i] > sends[i], current[i].auth
               PROVE  current[i].credentials > refused[i]
    OBVIOUS
  <2>1. step[i] = "limit" /\ current[i] \in Requests
    BY OnlySendSends DEF Send, Move, Inv, HasRequest, Ended
  <2> QED
    BY <2>1 DEF Inv, TypeOK, Freshness, Requests
<1> QED
  BY <1>1, Invariance, PTL DEF Spec, NeverSentWithRefused


-----------------------------------------------------------------------------

(***************************************************************************)
(* The gateway of the service.                                             *)
(***************************************************************************)

\* Each of the slots, seen from the request that may hold it.
SlotsHeld ==
  \A r \in Sent :
    /\ r \in globals <=> hop[r] \in Gateway!WithGlobal
    /\ \A o \in Origins : r \in hosts[o] <=> hop[r] \in Gateway!WithHost /\ at[r] = o
    /\ \A s \in Gateway!Sites : r \in sites[s] <=> hop[r] \in Gateway!WithSite /\ SiteOf[at[r]] = s

Within(S, n) == IsFiniteSet(S) /\ Cardinality(S) <= n

LimitsKept ==
  /\ Within(globals, GlobalLimit)
  /\ \A o \in Origins : Within(hosts[o], HostLimit)
  /\ \A s \in Gateway!Sites : Within(sites[s], SiteLimit)

\* A request past its start knows where it goes; one that waits for its next
\* attempt has one left.
OnItsWay ==
  \A r \in Sent :
    /\ hop[r] # "new" => at[r] \in Origins
    /\ hop[r] = "backoff" => attempt[r] + 1 < Gateway!AttemptsFor(asked[r])

\* Whoever sleeps for the interval holds its lock, and for what is left of it.
Paced ==
  \A r \in Sent :
    /\ turn = r <=> hop[r] = "pacing"
    /\ hop[r] = "pacing" => wake[r] + age = Interval

\* What the next hop of a request may carry is at home where it goes.
Home(r) ==
  {asked[r].origin} \cup IF asked[r].allowed = None THEN {} ELSE asked[r].allowed

AtHome ==
  \A r \in Sent : hop[r] # "new" =>
    /\ headers[r] => at[r] \in Home(r)
    /\ method[r] = "POST" /\ asked[r].body => at[r] \in Home(r)
    /\ asked[r].allowed # None /\ asked[r].origin \in Secure => at[r] \in Secure

\* The inductive invariant.
GatewayInv ==
  Gateway!TypeOK /\ SlotsHeld /\ LimitsKept /\ OnItsWay /\ Paced /\ AtHome

\* The instance has the operators of the modules it extends for itself.
LEMMA GatewayCounts == \A S : Gateway!Cardinality(S) = Cardinality(S)
BY DEF Cardinality, Gateway!Cardinality

\* One taken out of a set, or one added to a set that is not full.
LEMMA StaysWithin ==
  ASSUME NEW S, NEW n \in Nat, Within(S, n), NEW x
  PROVE  /\ Within(S \ {x}, n)
         /\ Cardinality(S) < n => Within(S \cup {x}, n)
<1>1. Cardinality(S) \in Nat
  BY FS_CardinalityType DEF Within
<1>2. IsFiniteSet(S \cup {x}) /\ Cardinality(S \cup {x}) <= Cardinality(S) + 1
  BY <1>1, FS_AddElement DEF Within
<1>3. IsFiniteSet(S \ {x}) /\ Cardinality(S \ {x}) <= Cardinality(S)
  BY <1>1, FS_RemoveElement DEF Within
<1>4. Cardinality(S \cup {x}) \in Nat /\ Cardinality(S \ {x}) \in Nat
  BY <1>2, <1>3, FS_CardinalityType
<1> QED
  BY <1>1, <1>2, <1>3, <1>4 DEF Within

LEMMA GatewayStarts == Gateway!Init => GatewayInv
<1> SUFFICES ASSUME Gateway!Init PROVE GatewayInv
  OBVIOUS
<1> USE GatewayHolds DEF Gateway!Init, Gateway!GatewayAssumption
<1>1. Gateway!TypeOK
  BY DEF Gateway!TypeOK, Gateway!Steps, Gateway!Methods
<1>2. SlotsHeld
  BY DEF SlotsHeld, Gateway!WithGlobal, Gateway!WithHost, Gateway!WithSite
<1>3. Within({}, GlobalLimit) /\ Within({}, HostLimit) /\ Within({}, SiteLimit)
  BY FS_EmptySet DEF Within
<1>4. LimitsKept
  BY <1>3 DEF LimitsKept
<1>5. OnItsWay /\ Paced /\ AtHome
  BY DEF OnItsWay, Paced, AtHome
<1> QED
  BY <1>1, <1>2, <1>4, <1>5 DEF GatewayInv

LEMMA StepTyped ==
  ASSUME GatewayInv, NEW r \in Sent, Gateway!Step(r) \/ Gateway!Cancel(r)
  PROVE  Gateway!TypeOK'
<1> USE GatewayHolds DEF GatewayInv, Gateway!GatewayAssumption, Gateway!Goto, Gateway!Move, Gateway!hop,
       Gateway!slots, Gateway!clock, Gateway!TypeOK, Gateway!Steps, Gateway!Methods, Gateway!Ended,
       Gateway!WithGlobal, OnItsWay, Gateway!AttemptsFor, Gateway!SpecType
<1>1. CASE Gateway!Start(r)
  <2> PICK s \in Specs[r] : asked' = [asked EXCEPT ![r] = s] /\ Gateway!FirstHop(r, s)
    BY <1>1 DEF Gateway!Start
  <2>1. s \in Gateway!SpecType
    OBVIOUS
  <2>2. at' \in [Sent -> Origins \cup {None}] /\ method' \in [Sent -> {"GET", "POST"}]
        /\ headers' \in [Sent -> BOOLEAN] /\ hops' \in [Sent -> 0..MaxRedirects]
    BY <2>1 DEF Gateway!FirstHop
  <2>3. DOMAIN asked' = Sent /\ hop'[r] = "global"
        /\ \A q \in Sent : asked'[q] \in Specs[q] \cup {None} /\ (asked'[q] = None <=> hop'[q] = "new")
    BY <1>1, <2>1 DEF Gateway!Start
  <2> QED
    BY <1>1, <2>2, <2>3 DEF Gateway!Start
<1>2. CASE Gateway!EnterGlobal(r)
  BY <1>2 DEF Gateway!EnterGlobal
<1>3. CASE Gateway!EnterHost(r)
  BY <1>3 DEF Gateway!EnterHost
<1>4. CASE Gateway!EnterSite(r)
  BY <1>4 DEF Gateway!EnterSite, Gateway!Sites
<1>5. CASE Gateway!SendNow(r)
  BY <1>5 DEF Gateway!SendNow, Gateway!Stamp
<1>6. CASE Gateway!Pace(r)
  BY <1>6 DEF Gateway!Pace
<1>7. CASE Gateway!SendPaced(r)
  BY <1>7 DEF Gateway!SendPaced, Gateway!Stamp
<1>8. CASE Gateway!Redirect(r)
  <2>1. at' \in [Sent -> Origins \cup {None}] /\ method' \in [Sent -> {"GET", "POST"}]
        /\ headers' \in [Sent -> BOOLEAN]
    BY <1>8 DEF Gateway!Redirect, Gateway!NextMethods, Gateway!Carries
  <2> QED
    BY <1>8, <2>1 DEF Gateway!Redirect, Gateway!Release
<1>9. CASE Gateway!RefuseRedirect(r)
  BY <1>9 DEF Gateway!RefuseRedirect, Gateway!Release
<1>10. CASE Gateway!Respond(r)
  BY <1>10 DEF Gateway!Respond
<1>11. CASE Gateway!Finish(r)
  BY <1>11 DEF Gateway!Finish, Gateway!Release
<1>12. CASE Gateway!RefuseResponse(r)
  BY <1>12 DEF Gateway!RefuseResponse, Gateway!Release
<1>13. CASE Gateway!AttemptFails(r)
  BY <1>13 DEF Gateway!AttemptFails, Gateway!Release
<1>14. CASE Gateway!Retry(r)
  BY <1>14 DEF Gateway!Retry, Gateway!FirstHop
<1>15. CASE Gateway!Cancel(r)
  BY <1>15 DEF Gateway!Cancel, Gateway!Release
<1> QED
  BY <1>1, <1>2, <1>3, <1>4, <1>5, <1>6, <1>7, <1>8, <1>9, <1>10, <1>11, <1>12, <1>13, <1>14, <1>15 DEF Gateway!Step

LEMMA StepOnItsWay ==
  ASSUME GatewayInv, NEW r \in Sent, Gateway!Step(r) \/ Gateway!Cancel(r)
  PROVE  OnItsWay'
<1> USE GatewayHolds DEF GatewayInv, Gateway!GatewayAssumption, Gateway!Goto, Gateway!Move, Gateway!hop,
       Gateway!slots, Gateway!clock, Gateway!TypeOK, Gateway!Methods, Gateway!Ended,
       OnItsWay, Gateway!AttemptsFor, Gateway!SpecType
<1>1. CASE Gateway!Start(r)
  BY <1>1 DEF Gateway!Start, Gateway!FirstHop
<1>2. CASE Gateway!EnterGlobal(r)
  BY <1>2 DEF Gateway!EnterGlobal
<1>3. CASE Gateway!EnterHost(r)
  BY <1>3 DEF Gateway!EnterHost
<1>4. CASE Gateway!EnterSite(r)
  BY <1>4 DEF Gateway!EnterSite
<1>5. CASE Gateway!SendNow(r)
  BY <1>5 DEF Gateway!SendNow, Gateway!Stamp
<1>6. CASE Gateway!Pace(r)
  BY <1>6 DEF Gateway!Pace
<1>7. CASE Gateway!SendPaced(r)
  BY <1>7 DEF Gateway!SendPaced, Gateway!Stamp
<1>8. CASE Gateway!Redirect(r)
  BY <1>8 DEF Gateway!Redirect, Gateway!Release
<1>9. CASE Gateway!RefuseRedirect(r)
  BY <1>9 DEF Gateway!RefuseRedirect, Gateway!Release
<1>10. CASE Gateway!Respond(r)
  BY <1>10 DEF Gateway!Respond
<1>11. CASE Gateway!Finish(r)
  BY <1>11 DEF Gateway!Finish, Gateway!Release
<1>12. CASE Gateway!RefuseResponse(r)
  BY <1>12 DEF Gateway!RefuseResponse, Gateway!Release
<1>13. CASE Gateway!AttemptFails(r)
  BY <1>13 DEF Gateway!AttemptFails, Gateway!Release
<1>14. CASE Gateway!Retry(r)
  BY <1>14 DEF Gateway!Retry, Gateway!FirstHop
<1>15. CASE Gateway!Cancel(r)
  BY <1>15 DEF Gateway!Cancel, Gateway!Release
<1> QED
  BY <1>1, <1>2, <1>3, <1>4, <1>5, <1>6, <1>7, <1>8, <1>9, <1>10, <1>11, <1>12, <1>13, <1>14, <1>15 DEF Gateway!Step

LEMMA StepHeld ==
  ASSUME GatewayInv, NEW r \in Sent, Gateway!Step(r) \/ Gateway!Cancel(r)
  PROVE  SlotsHeld'
<1> USE GatewayHolds DEF GatewayInv, Gateway!GatewayAssumption, Gateway!Goto, Gateway!Move, Gateway!hop,
       Gateway!slots, Gateway!clock, Gateway!TypeOK, Gateway!Ended, Gateway!WithGlobal,
       Gateway!WithHost, Gateway!WithSite, OnItsWay, SlotsHeld
<1>1. CASE Gateway!Start(r)
  BY <1>1 DEF Gateway!Start, Gateway!FirstHop
<1>2. CASE Gateway!EnterGlobal(r)
  BY <1>2 DEF Gateway!EnterGlobal
<1>3. CASE Gateway!EnterHost(r)
  BY <1>3 DEF Gateway!EnterHost
<1>4. CASE Gateway!EnterSite(r)
  BY <1>4 DEF Gateway!EnterSite
<1>5. CASE Gateway!SendNow(r)
  BY <1>5 DEF Gateway!SendNow, Gateway!Stamp
<1>6. CASE Gateway!Pace(r)
  BY <1>6 DEF Gateway!Pace
<1>7. CASE Gateway!SendPaced(r)
  BY <1>7 DEF Gateway!SendPaced, Gateway!Stamp
<1>8. CASE Gateway!Redirect(r)
  BY <1>8 DEF Gateway!Redirect, Gateway!Release
<1>9. CASE Gateway!RefuseRedirect(r)
  BY <1>9 DEF Gateway!RefuseRedirect, Gateway!Release
<1>10. CASE Gateway!Respond(r)
  BY <1>10 DEF Gateway!Respond
<1>11. CASE Gateway!Finish(r)
  BY <1>11 DEF Gateway!Finish, Gateway!Release
<1>12. CASE Gateway!RefuseResponse(r)
  BY <1>12 DEF Gateway!RefuseResponse, Gateway!Release
<1>13. CASE Gateway!AttemptFails(r)
  BY <1>13 DEF Gateway!AttemptFails, Gateway!Release
<1>14. CASE Gateway!Retry(r)
  BY <1>14 DEF Gateway!Retry, Gateway!FirstHop
<1>15. CASE Gateway!Cancel(r)
  BY <1>15 DEF Gateway!Cancel, Gateway!Release
<1> QED
  BY <1>1, <1>2, <1>3, <1>4, <1>5, <1>6, <1>7, <1>8, <1>9, <1>10, <1>11, <1>12, <1>13, <1>14, <1>15 DEF Gateway!Step

LEMMA StepPaced ==
  ASSUME GatewayInv, NEW r \in Sent, Gateway!Step(r) \/ Gateway!Cancel(r)
  PROVE  Paced'
<1> USE GatewayHolds DEF GatewayInv, Gateway!GatewayAssumption, Gateway!Goto, Gateway!Move, Gateway!hop,
       Gateway!slots, Gateway!clock, Gateway!TypeOK, Gateway!Ended, Paced
<1>1. CASE Gateway!Start(r)
  BY <1>1 DEF Gateway!Start, Gateway!FirstHop
<1>2. CASE Gateway!EnterGlobal(r)
  BY <1>2 DEF Gateway!EnterGlobal
<1>3. CASE Gateway!EnterHost(r)
  BY <1>3 DEF Gateway!EnterHost
<1>4. CASE Gateway!EnterSite(r)
  BY <1>4 DEF Gateway!EnterSite
<1>5. CASE Gateway!SendNow(r)
  BY <1>5 DEF Gateway!SendNow, Gateway!Stamp
<1>6. CASE Gateway!Pace(r)
  BY <1>6 DEF Gateway!Pace
<1>7. CASE Gateway!SendPaced(r)
  BY <1>7 DEF Gateway!SendPaced, Gateway!Stamp
<1>8. CASE Gateway!Redirect(r)
  BY <1>8 DEF Gateway!Redirect, Gateway!Release
<1>9. CASE Gateway!RefuseRedirect(r)
  BY <1>9 DEF Gateway!RefuseRedirect, Gateway!Release
<1>10. CASE Gateway!Respond(r)
  BY <1>10 DEF Gateway!Respond
<1>11. CASE Gateway!Finish(r)
  BY <1>11 DEF Gateway!Finish, Gateway!Release
<1>12. CASE Gateway!RefuseResponse(r)
  BY <1>12 DEF Gateway!RefuseResponse, Gateway!Release
<1>13. CASE Gateway!AttemptFails(r)
  BY <1>13 DEF Gateway!AttemptFails, Gateway!Release
<1>14. CASE Gateway!Retry(r)
  BY <1>14 DEF Gateway!Retry, Gateway!FirstHop
<1>15. CASE Gateway!Cancel(r)
  BY <1>15 DEF Gateway!Cancel, Gateway!Release
<1> QED
  BY <1>1, <1>2, <1>3, <1>4, <1>5, <1>6, <1>7, <1>8, <1>9, <1>10, <1>11, <1>12, <1>13, <1>14, <1>15 DEF Gateway!Step

LEMMA StepAtHome ==
  ASSUME GatewayInv, NEW r \in Sent, Gateway!Step(r) \/ Gateway!Cancel(r)
  PROVE  AtHome'
<1> USE GatewayHolds DEF GatewayInv, Gateway!GatewayAssumption, Gateway!Goto, Gateway!Move, Gateway!hop,
       Gateway!slots, Gateway!clock, Gateway!TypeOK, Gateway!Methods, Gateway!Ended, Gateway!SpecType,
       OnItsWay, AtHome, Home, Gateway!MayFollow, Gateway!Carries, Gateway!NextMethods
<1>1. CASE Gateway!Start(r)
  BY <1>1 DEF Gateway!Start, Gateway!FirstHop
<1>2. CASE Gateway!EnterGlobal(r)
  BY <1>2 DEF Gateway!EnterGlobal
<1>3. CASE Gateway!EnterHost(r)
  BY <1>3 DEF Gateway!EnterHost
<1>4. CASE Gateway!EnterSite(r)
  BY <1>4 DEF Gateway!EnterSite
<1>5. CASE Gateway!SendNow(r)
  BY <1>5 DEF Gateway!SendNow, Gateway!Stamp
<1>6. CASE Gateway!Pace(r)
  BY <1>6 DEF Gateway!Pace
<1>7. CASE Gateway!SendPaced(r)
  BY <1>7 DEF Gateway!SendPaced, Gateway!Stamp
<1>8. CASE Gateway!Redirect(r)
  BY <1>8 DEF Gateway!Redirect, Gateway!Release
<1>9. CASE Gateway!RefuseRedirect(r)
  BY <1>9 DEF Gateway!RefuseRedirect, Gateway!Release
<1>10. CASE Gateway!Respond(r)
  BY <1>10 DEF Gateway!Respond
<1>11. CASE Gateway!Finish(r)
  BY <1>11 DEF Gateway!Finish, Gateway!Release
<1>12. CASE Gateway!RefuseResponse(r)
  BY <1>12 DEF Gateway!RefuseResponse, Gateway!Release
<1>13. CASE Gateway!AttemptFails(r)
  BY <1>13 DEF Gateway!AttemptFails, Gateway!Release
<1>14. CASE Gateway!Retry(r)
  BY <1>14 DEF Gateway!Retry, Gateway!FirstHop
<1>15. CASE Gateway!Cancel(r)
  BY <1>15 DEF Gateway!Cancel, Gateway!Release
<1> QED
  BY <1>1, <1>2, <1>3, <1>4, <1>5, <1>6, <1>7, <1>8, <1>9, <1>10, <1>11, <1>12, <1>13, <1>14, <1>15 DEF Gateway!Step

\* Slots are given back, or one is taken that was free.
LEMMA StepWithin ==
  ASSUME GatewayInv, NEW r \in Sent, Gateway!Step(r) \/ Gateway!Cancel(r)
  PROVE  LimitsKept'
<1>0. GlobalLimit \in Nat /\ HostLimit \in Nat /\ SiteLimit \in Nat
  BY GatewayHolds DEF Gateway!GatewayAssumption
<1>1. CASE UNCHANGED <<globals, hosts, sites>>
  BY <1>1 DEF GatewayInv, LimitsKept
<1>2. CASE Gateway!Release(r)
  <2>1. Within(globals \ {r}, GlobalLimit)
    BY <1>0, StaysWithin DEF GatewayInv, LimitsKept
  <2>2. \A o \in Origins : Within(hosts[o] \ {r}, HostLimit)
    BY <1>0, StaysWithin DEF GatewayInv, LimitsKept
  <2>3. \A s \in Gateway!Sites : Within(sites[s] \ {r}, SiteLimit)
    BY <1>0, StaysWithin DEF GatewayInv, LimitsKept
  <2> QED
    BY <1>2, <2>1, <2>2, <2>3 DEF Gateway!Release, LimitsKept, Gateway!Sites
<1>3. CASE Gateway!EnterGlobal(r)
  <2>1. Within(globals \cup {r}, GlobalLimit)
    BY <1>0, <1>3, StaysWithin, GatewayCounts DEF GatewayInv, LimitsKept, Gateway!EnterGlobal
  <2> QED
    BY <1>3, <2>1 DEF GatewayInv, LimitsKept, Gateway!EnterGlobal
<1>4. CASE Gateway!EnterHost(r)
  <2>1. at[r] \in Origins
    BY <1>4 DEF GatewayInv, OnItsWay, Gateway!EnterHost, Gateway!Move
  <2>2. Within(hosts[at[r]] \cup {r}, HostLimit)
    BY <1>0, <1>4, <2>1, StaysWithin, GatewayCounts DEF GatewayInv, LimitsKept, Gateway!EnterHost
  <2>3. \A o \in Origins : hosts'[o] = IF o = at[r] THEN hosts[o] \cup {r} ELSE hosts[o]
    BY <1>4 DEF GatewayInv, Gateway!TypeOK, Gateway!EnterHost
  <2> QED
    BY <1>4, <2>2, <2>3 DEF GatewayInv, LimitsKept, Gateway!EnterHost
<1>5. CASE Gateway!EnterSite(r)
  <2> DEFINE site == SiteOf[at[r]]
  <2>1. site \in Gateway!Sites
    BY <1>5 DEF GatewayInv, OnItsWay, Gateway!EnterSite, Gateway!Move, Gateway!Sites
  <2>2. Within(sites[site] \cup {r}, SiteLimit)
    BY <1>0, <1>5, <2>1, StaysWithin, GatewayCounts DEF GatewayInv, LimitsKept, Gateway!EnterSite
  <2>3. \A s \in Gateway!Sites : sites'[s] = IF s = site THEN sites[s] \cup {r} ELSE sites[s]
    BY <1>5 DEF GatewayInv, Gateway!TypeOK, Gateway!EnterSite
  <2> QED
    BY <1>5, <2>2, <2>3 DEF GatewayInv, LimitsKept, Gateway!EnterSite
<1> QED
  BY <1>1, <1>2, <1>3, <1>4, <1>5
  DEF Gateway!Step, Gateway!Start, Gateway!SendNow, Gateway!Pace, Gateway!SendPaced, Gateway!Redirect,
      Gateway!RefuseRedirect, Gateway!Respond, Gateway!Finish, Gateway!RefuseResponse,
      Gateway!AttemptFails, Gateway!Retry, Gateway!Cancel, Gateway!slots

LEMMA GatewayTicks == GatewayInv /\ Gateway!Tick => GatewayInv'
<1> SUFFICES ASSUME GatewayInv, Gateway!Tick PROVE GatewayInv'
  OBVIOUS
<1> USE GatewayHolds DEF GatewayInv, Gateway!GatewayAssumption, Gateway!Tick, Gateway!hop, Gateway!slots
<1>1. Gateway!TypeOK' /\ Paced'
  BY DEF Gateway!TypeOK, Paced
<1>2. SlotsHeld' /\ LimitsKept' /\ OnItsWay' /\ AtHome'
  BY DEF SlotsHeld, LimitsKept, OnItsWay, AtHome, Home
<1> QED
  BY <1>1, <1>2

LEMMA GatewayKept == GatewayInv /\ [Gateway!Next]_gatewayVars => GatewayInv'
<1>1. ASSUME GatewayInv, NEW r \in Sent, Gateway!Step(r) \/ Gateway!Cancel(r) PROVE GatewayInv'
  BY <1>1, StepTyped, StepOnItsWay, StepHeld, StepPaced, StepAtHome, StepWithin DEF GatewayInv
<1>2. GatewayInv /\ UNCHANGED gatewayVars => GatewayInv'
  BY DEF GatewayInv, gatewayVars, Gateway!TypeOK, SlotsHeld, LimitsKept, OnItsWay, Paced, AtHome, Home
<1> QED
  BY <1>1, <1>2, GatewayTicks DEF Gateway!Next

LEMMA GatewayInvariance == AllSpec => []GatewayInv
<1>1. AllInit => GatewayInv
  BY GatewayStarts DEF AllInit
<1>2. GatewayInv /\ [AllNext]_allVars => GatewayInv'
  BY GatewayKept DEF AllNext, allVars, gatewayVars
<1> QED
  BY <1>1, <1>2, PTL DEF AllSpec

\* However a hop is left (redirect, retry, error, cancellation at any await),
\* the slots it took are free again and no limit is ever exceeded: no slot
\* leaks, for any number of requests and any limits (transport/gateway.py).
THEOREM NoSlotLeaks == AllSpec => []SlotsAreInUse
<1>1. GatewayInv => SlotsAreInUse
  <2> SUFFICES ASSUME GatewayInv PROVE SlotsAreInUse
    OBVIOUS
  <2>1. /\ globals = {r \in Sent : hop[r] \in Gateway!WithGlobal}
        /\ \A o \in Origins : hosts[o] = {r \in Sent : hop[r] \in Gateway!WithHost /\ at[r] = o}
        /\ \A s \in Gateway!Sites : sites[s] = {r \in Sent : hop[r] \in Gateway!WithSite /\ SiteOf[at[r]] = s}
    BY DEF GatewayInv, SlotsHeld, Gateway!TypeOK
  <2>2. /\ Gateway!Cardinality(globals) <= GlobalLimit
        /\ \A o \in Origins : Gateway!Cardinality(hosts[o]) <= HostLimit
        /\ \A s \in Gateway!Sites : Gateway!Cardinality(sites[s]) <= SiteLimit
    BY GatewayCounts DEF GatewayInv, LimitsKept, Within
  <2> QED
    BY <2>1, <2>2 DEF SlotsAreInUse, Gateway!SlotsAreInUse
<1> QED
  BY <1>1, GatewayInvariance, PTL

\* The caller's headers and body reach its origin and those its authentication
\* covers only, and what was asked over https under an authentication stays
\* there, over redirect chains of any length among any origins.
THEOREM DataStaysHome == AllSpec => []CallerDataStaysHome
<1>1. GatewayInv => CallerDataStaysHome
  BY DEF GatewayInv, AtHome, Home, CallerDataStaysHome, Gateway!CallerDataStaysHome
<1> QED
  BY <1>1, GatewayInvariance, PTL

\* Two hops begin no less than the interval apart, whatever was cancelled while
\* it slept with the interval lock.
THEOREM Spacing == AllSpec => SendsAreSpaced
<1>1. GatewayInv /\ [Gateway!Next]_gatewayVars =>
        [\A r \in Sent : hop[r] # "sending" /\ hop'[r] = "sending" => age = Interval]_(Gateway!vars)
  <2> SUFFICES ASSUME GatewayInv, Gateway!Next, NEW r \in Sent, hop[r] # "sending", hop'[r] = "sending"
               PROVE  age = Interval
    BY DEF gatewayVars, Gateway!vars, Gateway!hop, Gateway!slots, Gateway!clock
  <2>1. hop' = hop => FALSE
    OBVIOUS
  <2>2. PICK q \in Sent : Gateway!Step(q) \/ Gateway!Cancel(q)
    BY <2>1 DEF Gateway!Next, Gateway!Tick
  <2>3. \E s : hop' = [hop EXCEPT ![q] = s]
    BY <2>2 DEF Gateway!Step, Gateway!Cancel, Gateway!Goto, Gateway!Move, Gateway!Stamp,
      Gateway!Start, Gateway!EnterGlobal, Gateway!EnterHost, Gateway!EnterSite, Gateway!SendNow,
      Gateway!Pace, Gateway!SendPaced, Gateway!Redirect, Gateway!RefuseRedirect, Gateway!Respond,
      Gateway!Finish, Gateway!RefuseResponse, Gateway!AttemptFails, Gateway!Retry
  <2>4. q = r
    BY <2>3 DEF GatewayInv, Gateway!TypeOK
  <2>5. Gateway!SendNow(r) \/ Gateway!SendPaced(r)
    BY <2>2, <2>4 DEF GatewayInv, Gateway!TypeOK, Gateway!Step, Gateway!Cancel, Gateway!Goto, Gateway!Move,
      Gateway!Start, Gateway!EnterGlobal, Gateway!EnterHost, Gateway!EnterSite,
      Gateway!Pace, Gateway!Redirect, Gateway!RefuseRedirect, Gateway!Respond,
      Gateway!Finish, Gateway!RefuseResponse, Gateway!AttemptFails, Gateway!Retry
  <2> QED
    BY <2>5, GatewayHolds
    DEF GatewayInv, Paced, Gateway!TypeOK, Gateway!SendNow, Gateway!SendPaced, Gateway!GatewayAssumption
<1>2. [AllNext]_allVars => [Gateway!Next]_gatewayVars
  BY DEF AllNext, allVars, gatewayVars
<1> QED
  BY <1>1, <1>2, GatewayInvariance, PTL DEF AllSpec, SendsAreSpaced, Gateway!SendsAreSpaced

=============================================================================
