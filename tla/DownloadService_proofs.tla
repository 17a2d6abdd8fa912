------------------------ MODULE DownloadService_proofs ------------------------
(***************************************************************************)
(* For any number of tasks and images, any limits and any resources that   *)
(* fail to close: nothing is closed under an operation, batches are full   *)
(* but bounded, one failure of several is raised whatever their timing,    *)
(* and the records of a run agree with what its caller gets.               *)
(***************************************************************************)
EXTENDS DownloadService, FiniteSetTheorems, TLAPS

\* One operation or the close holds the lock.
Exclusive ==
  /\ \A t \in Tasks : step[t] \in Busy <=> lock = t
  /\ task = "running" <=> lock = "close"
  /\ Closed => \A t \in Tasks : step[t] \notin Busy

\* How far the close is.
CloseProgress ==
  /\ task \in {"none", "queued"} => settled = <<>>
  /\ task = "done" => Len(settled) = Len(Resources)
  /\ \A t \in Tasks : step[t] \in Ended \cup {"correcting"} => task = "done"

\* The children in flight or awaiting collection.
InFlight == Batch!Active \cup Batch!Finished

\* bounded(): the children fill the limit, and no failure is collected before
\* the drain begins, which ends without children.
BatchInv ==
  /\ Batch!TypeOK
  /\ owner = "waiting" =>
       /\ Cardinality(InFlight) <= Limit
       /\ Cardinality(InFlight) = Limit \/ Batch!Queued = {}
       /\ \A j \in Batch!Failed : stage[j] = "finished"
  /\ owner \in Batch!Ended => Batch!Active = {}
  /\ Batch!RaisesPrimary

\* A batch exists while an operation runs its images.
BatchOfOperation ==
  /\ owner # None <=> \E t \in Tasks : step[t] = "running"
  /\ owner = None => stage = NoStage /\ outcome = NoOutcome /\ raised = 0
  /\ owner # None => BatchInv

\* Only images in flight are inside the pool, and those with a slot are known.
PoolOfBatch ==
  /\ Pool!TypeOK
  /\ slots = {j \in Jobs : use[j] = "submitted"}
  /\ \A j \in Jobs : use[j] \in {"waiting", "submitted"} => stage[j] \in {"running", "cancelling"}

\* What the records of a run say at each step of finish() and of its correction.
Recorded(r) ==
  LET res == result[r] lateTimeout == res.timedOut /\ res.cancelled IN
  /\ fin[r] = "working" => res.failure = "none"
  /\ fin[r] \in {"working", "saving"} => ~res.saved /\ r \notin hit
  /\ fin[r] \in {"amending", "revising", "relogging"} => res.failure = "cancelled" /\ res.cancelled
  /\ fin[r] \in {"logging", "exposed"} /\ res.saved /\ ~lateTimeout =>
       history[r] = Records!Entry(Records!ExitOf(res), res)
  /\ fin[r] = "relogging" /\ res.saved => history[r] = Records!Entry("130", res)
  /\ fin[r] = "exposed" /\ log[r] # Broken /\ ~lateTimeout =>
       log[r] = Records!Entry(Records!ExitOf(res), res)
  /\ fin[r] = "corrected" => Records!Agrees(r)
  /\ r \in hit => res.failure = "cancelled" /\ res.cancelled

\* How far the records of a task are, and which failure it carries.
Reported(t) ==
  /\ step[t] \in {"idle", "queued", "running"} => fin[t] = "working"
  /\ step[t] \in {"idle", "queued"} \cup Busy => failure[t] = "none"
  /\ step[t] = "finishing" => fin[t] \notin {"working", "correcting", "corrected"}
  /\ step[t] \in {"leaving", "closing", "noop"} =>
       /\ fin[t] \in {"working", "exposed"}
       /\ failure[t] \notin {"close_error", "close_fatal"}
       /\ fin[t] = "exposed" => failure[t] = result[t].failure
  /\ step[t] = "correcting" => fin[t] = "correcting" /\ failure[t] = Raises(t)
  /\ step[t] = "closed" =>
       /\ fin[t] \in {"working", "exposed", "corrected"}
       /\ fin[t] = "exposed" /\ result[t].failure # "none" => failure[t] = result[t].failure
       /\ fin[t] = "corrected" \/ failure[t] \in {"none", "close_error"} => failure[t] = Raises(t)

\* The inductive invariant.
Inv ==
  /\ TypeOK /\ Exclusive /\ CloseProgress /\ BatchOfOperation /\ PoolOfBatch
  /\ \A t \in Tasks : Recorded(t) /\ Reported(t)
----------------------------------------------------------------------------
(* Counting the children *)

\* The number of queued children start_next() starts, called n times: n, or
\* all there are.
LEMMA LaunchCount ==
  ASSUME NEW Q, Q \subseteq Int, IsFiniteSet(Q), NEW n \in Nat
  PROVE  LET L == {j \in Q : Cardinality({k \in Q : k < j}) < n} IN
         Cardinality(L) = IF n <= Cardinality(Q) THEN n ELSE Cardinality(Q)
<1> DEFINE m == Cardinality(Q)
           least == IF n <= m THEN n ELSE m
           before(j) == {k \in Q : k < j}
           rank == [j \in Q |-> Cardinality(before(j))]
           L == {j \in Q : Cardinality(before(j)) < n}
<1>1. m \in Nat /\ least \in Nat
  BY FS_CardinalityType
<1>2. ASSUME NEW j \in Q
      PROVE  IsFiniteSet(before(j)) /\ rank[j] \in 0..(m - 1)
  <2>1. before(j) \in SUBSET (Q \ {j}) /\ IsFiniteSet(Q \ {j}) /\ Cardinality(Q \ {j}) = m - 1
    BY FS_RemoveElement
  <2>2. IsFiniteSet(before(j)) /\ Cardinality(before(j)) <= m - 1
    BY <2>1, FS_Subset
  <2>3. Cardinality(before(j)) \in Nat
    BY <2>2, FS_CardinalityType
  <2> QED
    BY <1>1, <2>2, <2>3
<1>3. ASSUME NEW i \in Q, NEW j \in Q, i < j
      PROVE  rank[i] # rank[j]
  <2>1. before(i) \cup {i} \in SUBSET before(j) /\ i \notin before(i)
    <3>1. i \in Int /\ j \in Int /\ \A k \in Q : k \in Int
      OBVIOUS
    <3>2. \A k \in Q : k < i => k < j
      BY <1>3, <3>1
    <3>3. ~(i < i)
      BY <3>1
    <3> QED
      BY <1>3, <3>2, <3>3, Zenon
  <2>2. Cardinality(before(i) \cup {i}) = rank[i] + 1 /\ IsFiniteSet(before(j))
    BY <1>2, <2>1, FS_AddElement
  <2>3. rank[i] + 1 <= rank[j]
    BY <2>1, <2>2, FS_Subset
  <2> QED
    BY <1>2, <2>3
<1>4. rank \in Injection(Q, 0..(m - 1))
  <2>1. rank \in [Q -> 0..(m - 1)]
    BY <1>2
  <2>2. ASSUME NEW i \in Q, NEW j \in Q, rank[i] = rank[j]
        PROVE  i = j
    BY <1>3, <2>2
  <2> QED
    BY <2>1, <2>2 DEF Injection, IsInjective
<1>5. rank \in Surjection(Q, 0..(m - 1))
  BY <1>1, <1>4, FS_Injection, FS_Interval
<1> DEFINE part == [j \in L |-> rank[j]]
<1>6. part \in Bijection(L, 0..(least - 1))
  <2>1. part \in [L -> 0..(least - 1)]
    <3> SUFFICES ASSUME NEW j \in L PROVE rank[j] \in 0..(least - 1)
      OBVIOUS
    <3>1. rank[j] < n /\ rank[j] \in 0..(m - 1)
      BY <1>2
    <3> QED
      BY <1>1, <3>1
  <2>2. part \in Injection(L, 0..(least - 1))
    BY <2>1, <1>4 DEF Injection, IsInjective
  <2>3. ASSUME NEW y \in 0..(least - 1) PROVE \E j \in L : part[j] = y
    <3>1. y \in 0..(m - 1) /\ y < n
      BY <1>1
    <3>2. PICK j \in Q : rank[j] = y
      BY <1>5, <3>1 DEF Surjection
    <3> QED
      BY <3>1, <3>2
  <2> QED
    BY <2>1, <2>2, <2>3 DEF Surjection, Bijection
<1>7. ExistsBijection(L, 0..(least - 1)) /\ IsFiniteSet(L)
  BY <1>6, FS_Subset DEF ExistsBijection
<1>8. Cardinality(0..(least - 1)) = least
  <2> HIDE DEF least
  <2> QED
    BY <1>1, FS_Interval
<1> QED
  BY <1>7, <1>8, FS_Bijection
----------------------------------------------------------------------------
(* The batch *)

\* The constants of bounded().
LEMMA BatchConstants == Images \in Nat /\ Limit \in Nat \ {0} /\ Batch!Jobs = Jobs /\ None \notin Batch!Owners
  BY ServiceAssumption DEF Batch!JobsAssumption, Batch!Jobs, Jobs

\* The components count with the same operator.
LEMMA SameCardinality == \A S : Batch!Cardinality(S) = Cardinality(S) /\ Pool!Cardinality(S) = Cardinality(S)
  BY DEF Batch!Cardinality, Pool!Cardinality, Cardinality

\* Every set of children is finite, and so is every set of jobs.
LEMMA JobsFinite ==
  ASSUME NEW S, S \subseteq Jobs
  PROVE  IsFiniteSet(S) /\ Cardinality(S) \in Nat /\ S \subseteq Int
<1>1. IsFiniteSet(Jobs) /\ Jobs \subseteq Int
  BY BatchConstants, FS_Interval DEF Jobs
<1> QED
  BY <1>1, FS_Subset, FS_CardinalityType

\* Two sets of jobs without a common job are counted one after the other.
LEMMA CountDisjoint ==
  ASSUME NEW S, S \subseteq Jobs, NEW T, T \subseteq Jobs, S \cap T = {}
  PROVE  Cardinality(S \cup T) = Cardinality(S) + Cardinality(T)
<1>1. IsFiniteSet(S) /\ IsFiniteSet(T) /\ Cardinality(S) \in Nat /\ Cardinality(T) \in Nat
  BY JobsFinite
<1>2. Cardinality(S \cup T) = Cardinality(S) + Cardinality(T) - Cardinality(S \cap T)
  BY <1>1, FS_Union
<1>3. Cardinality(S \cap T) = 0
  BY FS_EmptySet
<1> QED
  BY <1>1, <1>2, <1>3

\* What BatchInv says of the number of children is FullButBounded.
LEMMA FullBatch == BatchInv => Batch!FullButBounded
<1> SUFFICES ASSUME BatchInv, owner = "waiting" PROVE Batch!FullButBounded
  BY DEF Batch!FullButBounded
<1> DEFINE rest == Batch!Jobs \ {j \in Batch!Jobs : stage[j] = "collected"}
<1>1. /\ Batch!Active \subseteq Jobs /\ Batch!Finished \subseteq Jobs /\ Batch!Queued \subseteq Jobs
      /\ Batch!Active \cap Batch!Finished = {}
      /\ InFlight \cap Batch!Queued = {} /\ rest = InFlight \cup Batch!Queued
  BY BatchConstants DEF BatchInv, Batch!TypeOK, Batch!Stages, Batch!Active, Batch!Finished, Batch!Queued, InFlight
<1>2. InFlight \subseteq Jobs
  BY <1>1 DEF InFlight
<1>3. Cardinality(InFlight) = Cardinality(Batch!Active) + Cardinality(Batch!Finished)
  BY <1>1, CountDisjoint DEF InFlight
<1>4. Cardinality(rest) = Cardinality(InFlight) + Cardinality(Batch!Queued)
  BY <1>1, <1>2, CountDisjoint
<1>5. Batch!Queued = {} => Cardinality(Batch!Queued) = 0
  BY FS_EmptySet
<1>6. /\ Cardinality(InFlight) \in Nat /\ Cardinality(Batch!Queued) \in Nat
      /\ Cardinality(InFlight) <= Limit
      /\ Cardinality(InFlight) = Limit \/ Batch!Queued = {}
  BY <1>1, <1>2, JobsFinite DEF BatchInv
<1>7. Cardinality(Batch!Active) + Cardinality(Batch!Finished)
        = IF Cardinality(rest) < Limit THEN Cardinality(rest) ELSE Limit
  <2> HIDE DEF rest
  <2> QED
    BY <1>3, <1>4, <1>5, <1>6, BatchConstants
<1> QED
  BY <1>7, SameCardinality DEF Batch!FullButBounded

\* bounded() starts with as many children as may be.
LEMMA BatchStarts ==
  ASSUME stage' = [j \in Jobs |-> IF j <= Limit THEN "running" ELSE "queued"],
         outcome' = NoOutcome, raised' = 0,
         owner' = IF Images = 0 THEN "returned" ELSE "waiting"
  PROVE  BatchInv'
<1> USE BatchConstants
<1>1. /\ Batch!TypeOK' /\ Batch!Failed' = {} /\ Batch!Finished' = {}
      /\ Batch!Active' = {j \in Jobs : j <= Limit} /\ Batch!Queued' = {j \in Jobs : ~(j <= Limit)}
  BY DEF Batch!TypeOK, Batch!Stages, Batch!Outcomes, Batch!Owners, Batch!Failures, Batch!Failed, Batch!Finished,
     Batch!Active, Batch!Queued, NoOutcome, Jobs, Batch!Jobs
<1>2. CASE Images = 0
  BY <1>1, <1>2 DEF BatchInv, Batch!RaisesPrimary, Jobs
<1>3. CASE Images # 0
  <2> DEFINE least == IF Images < Limit THEN Images ELSE Limit
  <2>1. InFlight' = 1..least
    BY <1>1 DEF InFlight, Jobs
  <2>2. least \in Nat /\ Cardinality(1..least) = least
    BY FS_Interval
  <2>3. least = Limit \/ Batch!Queued' = {}
    BY <1>1 DEF Jobs
  <2>4. owner' = "waiting" /\ least <= Limit
    BY <1>3
  <2> HIDE DEF least
  <2> QED
    BY <1>1, <2>1, <2>2, <2>3, <2>4 DEF BatchInv, Batch!RaisesPrimary, Batch!Ended
<1> QED
  BY <1>2, <1>3

\* A child ends and waits for its collection.
LEMMA JobEndsBatch ==
  ASSUME BatchInv, NEW j \in Jobs, Batch!JobEnds(j)
  PROVE  BatchInv' /\ Batch!Launched' = Batch!Launched
<1> USE BatchConstants
<1>1. PICK o \in Batch!Outcomes : outcome' = [outcome EXCEPT ![j] = o]
  BY DEF Batch!JobEnds
<1>2. /\ stage[j] \in {"running", "cancelling"} /\ stage' = [stage EXCEPT ![j] = "finished"]
      /\ UNCHANGED <<owner, raised>> /\ Batch!TypeOK
  BY DEF Batch!JobEnds, BatchInv
<1>3. Batch!TypeOK'
  BY <1>1, <1>2 DEF Batch!TypeOK, Batch!Stages, Batch!Outcomes, Batch!Failures
<1>4. InFlight' = InFlight /\ Batch!Queued' = Batch!Queued /\ Batch!Launched' = Batch!Launched
  BY <1>2 DEF InFlight, Batch!Active, Batch!Finished, Batch!Queued, Batch!Launched, Batch!TypeOK
<1>5. j \in Batch!Active /\ owner \notin Batch!Ended
  BY <1>2 DEF Batch!Active, BatchInv
<1>6. ASSUME owner' = "waiting", NEW k \in Batch!Failed' PROVE stage'[k] = "finished"
  BY <1>1, <1>2, <1>6 DEF BatchInv, Batch!Failed, Batch!TypeOK
<1>7. owner' = "waiting" => owner = "waiting"
  BY <1>2
<1>8. owner' \notin Batch!Ended
  BY <1>2, <1>5
<1> QED
  BY <1>3, <1>4, <1>6, <1>7, <1>8 DEF BatchInv, Batch!RaisesPrimary, Batch!Ended
\* start_next() starts as many children as were collected, or all there are.
LEMMA CollectBatch ==
  ASSUME BatchInv, Batch!Collect
  PROVE  /\ BatchInv'
         /\ Batch!NoLaunch
         /\ \A j \in Jobs : stage[j] \in {"running", "cancelling"} => stage'[j] = stage[j]
<1> USE BatchConstants
<1> DEFINE failing == Batch!Finished \cap Batch!Failed # {}
           starts == IF ~failing THEN Batch!Launches(Batch!Cardinality(Batch!Finished)) ELSE {}
<1>1. /\ owner = "waiting" /\ Batch!TypeOK /\ UNCHANGED <<outcome, raised>>
      /\ stage' = [j \in Jobs |-> IF j \in Batch!Finished THEN "collected"
                                  ELSE IF j \in starts THEN "running" ELSE stage[j]]
      /\ owner' = IF failing THEN "draining"
                  ELSE IF Batch!Active \cup starts = {} THEN "returned" ELSE "waiting"
  BY DEF Batch!Collect, Batch!CollectAndStart, BatchInv
<1>2. starts \subseteq Batch!Queued /\ Batch!Queued \subseteq Jobs /\ Batch!Finished \subseteq Jobs
      /\ Batch!Active \subseteq Jobs
  BY DEF Batch!Launches, Batch!Queued, Batch!Finished, Batch!Active
<1>3. ~failing => Cardinality(starts) = IF Cardinality(Batch!Finished) <= Cardinality(Batch!Queued)
                                        THEN Cardinality(Batch!Finished) ELSE Cardinality(Batch!Queued)
  <2>1. Cardinality(Batch!Finished) \in Nat /\ IsFiniteSet(Batch!Queued) /\ Batch!Queued \subseteq Int
    BY <1>2, JobsFinite
  <2>2. ~failing => starts = {j \in Batch!Queued : Cardinality({k \in Batch!Queued : k < j}) < Cardinality(Batch!Finished)}
    BY SameCardinality DEF Batch!Launches
  <2> QED
    BY <2>1, <2>2, LaunchCount
<1> HIDE DEF starts, failing
<1>4. /\ \A j \in Batch!Active : stage[j] \in {"running", "cancelling"}
      /\ \A j \in Batch!Queued : stage[j] = "queued"
      /\ \A j \in Batch!Finished : stage[j] = "finished"
  BY DEF Batch!Active, Batch!Queued, Batch!Finished
<1>5. Batch!TypeOK'
  BY <1>1, <1>2, <1>4 DEF Batch!TypeOK, Batch!Stages, Batch!Owners
<1>6. /\ Batch!Active' = Batch!Active \cup starts /\ Batch!Finished' = {} /\ Batch!Queued' = Batch!Queued \ starts
      /\ Batch!Failed' = Batch!Failed
  BY <1>1, <1>2, <1>4 DEF Batch!TypeOK, Batch!Active, Batch!Finished, Batch!Queued, Batch!Failed
<1>7. /\ Cardinality(InFlight) = Cardinality(Batch!Active) + Cardinality(Batch!Finished)
      /\ Cardinality(Batch!Active \cup starts) = Cardinality(Batch!Active) + Cardinality(starts)
      /\ Cardinality(Batch!Queued) = Cardinality(starts) + Cardinality(Batch!Queued \ starts)
  <2>1. Batch!Active \cap Batch!Finished = {} /\ Batch!Active \cap starts = {} /\ starts \cap (Batch!Queued \ starts) = {}
        /\ starts \subseteq Jobs /\ Batch!Queued \ starts \subseteq Jobs /\ Batch!Queued = starts \cup (Batch!Queued \ starts)
    BY <1>2, <1>4
  <2> QED
    BY <1>2, <2>1, CountDisjoint DEF InFlight
<1>8. /\ Cardinality(Batch!Queued \ starts) \in Nat /\ Cardinality(starts) \in Nat
      /\ Cardinality(Batch!Active) \in Nat /\ Cardinality(Batch!Finished) \in Nat
      /\ Cardinality(Batch!Queued \ starts) = 0 => Batch!Queued \ starts = {}
      /\ Batch!Queued = {} => Cardinality(Batch!Queued) = 0
  <2>1. starts \subseteq Jobs /\ Batch!Queued \ starts \subseteq Jobs
    BY <1>2
  <2> QED
    BY <1>2, <2>1, JobsFinite, FS_EmptySet
<1>9. ~failing => /\ Cardinality(InFlight') <= Limit
                  /\ Cardinality(InFlight') = Limit \/ Batch!Queued' = {}
  <2>1. InFlight' = Batch!Active \cup starts
    BY <1>6 DEF InFlight
  <2>2. Cardinality(InFlight) <= Limit /\ (Cardinality(InFlight) = Limit \/ Batch!Queued = {})
    BY <1>1 DEF BatchInv
  <2> QED
    BY <1>3, <1>6, <1>7, <1>8, <2>1, <2>2
<1>10. ~failing => Batch!Failed = {}
  BY <1>1 DEF failing, BatchInv, Batch!Failed, Batch!Finished
<1>11. BatchInv'
  BY <1>1, <1>5, <1>6, <1>9, <1>10 DEF BatchInv, Batch!RaisesPrimary, Batch!Ended
<1>12. Batch!NoLaunch
  <2>1. failing => starts = {}
    BY DEF starts
  <2>2. failing => Batch!Launched' = Batch!Launched
    BY <1>6, <2>1 DEF Batch!Launched
  <2> QED
    BY <1>1, <1>10, <2>2 DEF Batch!NoLaunch, Batch!Ended
<1> QED
  BY <1>1, <1>2, <1>4, <1>11, <1>12

\* The owner waits for the last child and raises the primary failure, or it is
\* cancelled.
LEMMA EndsBatch ==
  ASSUME BatchInv, Batch!DrainEnds \/ Batch!CancelOwner \/ Batch!AbortEnds
  PROVE  /\ BatchInv' /\ Batch!Launched' = Batch!Launched
         /\ \A j \in Jobs : stage[j] \in {"running", "cancelling"} => stage'[j] \in {"running", "cancelling"}
<1> USE BatchConstants DEF BatchInv
<1>1. CASE Batch!DrainEnds
  <2>1. PICK j \in Batch!Failed : Batch!IsPrimary(j) /\ raised' = j
    BY <1>1 DEF Batch!DrainEnds
  <2>2. /\ Batch!Active = {} /\ owner' = "raised" /\ UNCHANGED outcome
        /\ stage' = [k \in Jobs |-> IF k \in Batch!Finished THEN "collected" ELSE stage[k]]
    BY <1>1 DEF Batch!DrainEnds
  <2> HIDE DEF BatchInv
  <2>3. Batch!TypeOK' /\ Batch!Active' = {}
    <3>1. Batch!TypeOK /\ j \in Jobs /\ j \in 0..Images
      BY DEF BatchInv, Batch!Failed, Jobs
    <3>2. \A k \in Jobs : stage'[k] # stage[k] => stage[k] = "finished" /\ stage'[k] = "collected"
      BY <2>2 DEF Batch!Finished
    <3>3. \A k \in Jobs : stage[k] \notin {"running", "cancelling"}
      BY <2>2 DEF Batch!Active
    <3>4. stage' \in [Jobs -> Batch!Stages]
      BY <2>2, <3>1 DEF Batch!TypeOK, Batch!Stages
    <3>5. \A k \in Jobs : outcome'[k] = "none" <=> stage'[k] \in {"queued", "running", "cancelling"}
      BY <2>2, <3>1, <3>2 DEF Batch!TypeOK
    <3>6. Batch!TypeOK'
      BY <2>1, <2>2, <3>1, <3>4, <3>5 DEF Batch!TypeOK, Batch!Owners
    <3> QED
      BY <3>2, <3>3, <3>6 DEF Batch!Active
  <2> USE DEF BatchInv
  <2>4. Batch!IsPrimary(raised)'
    BY <2>1, <2>2 DEF Batch!IsPrimary, Batch!Failed, Batch!Precedes
  <2>5. Batch!Launched' = Batch!Launched
    BY <2>2 DEF Batch!Launched, Batch!Queued, Batch!Finished, Batch!TypeOK
  <2> QED
    BY <2>2, <2>3, <2>4, <2>5 DEF Batch!RaisesPrimary, Batch!Active
<1>2. CASE Batch!CancelOwner
  <2>1. Batch!TypeOK' /\ Batch!Launched' = Batch!Launched /\ owner' = "aborting"
    BY <1>2 DEF Batch!CancelOwner, Batch!TypeOK, Batch!Stages, Batch!Owners, Batch!Launched, Batch!Queued
  <2> QED
    BY <1>2, <2>1 DEF Batch!CancelOwner, Batch!RaisesPrimary, Batch!Ended, Batch!TypeOK
<1>3. CASE Batch!AbortEnds
  BY <1>3 DEF Batch!AbortEnds, Batch!TypeOK, Batch!Owners, Batch!Active, Batch!Launched, Batch!Queued, Batch!RaisesPrimary
<1> QED
  BY <1>1, <1>2, <1>3
----------------------------------------------------------------------------
(* The records *)

\* What a step of one run leaves alone.
OthersKept(t) ==
  \A r \in Tasks \ {t} :
    /\ fin'[r] = fin[r] /\ result'[r] = result[r] /\ history'[r] = history[r] /\ log'[r] = log[r]
    /\ r \in hit' <=> r \in hit

\* The shape of a result and of an entry.
LEMMA ResultShape ==
  ASSUME NEW res \in Records!Results
  PROVE  /\ res.failure \in Records!Failures /\ res.timedOut \in BOOLEAN
         /\ res.cancelled \in BOOLEAN /\ res.saved \in BOOLEAN
         /\ Records!ExitOf(res) \in Records!Exits
         /\ \A e \in Records!Exits : Records!Entry(e, res) \in Records!Entries
         /\ LET new == Records!Cancelled(res) IN
            /\ new \in Records!Results /\ new.saved = res.saved /\ new.failure = "cancelled"
            /\ new.timedOut = res.timedOut /\ new.cancelled = TRUE
  BY DEF Records!Results, Records!Failures, Records!ExitOf, Records!Exits, Records!Entry, Records!Entries,
     Records!Cancelled

\* A result that says whether the history has it.
WithSaved(res, ok) == [res EXCEPT !.saved = ok]

\* Only the flag of the history changes.
LEMMA SavedShape ==
  ASSUME NEW res \in Records!Results, NEW ok \in BOOLEAN
  PROVE  /\ WithSaved(res, ok) \in Records!Results /\ WithSaved(res, ok).saved = ok
         /\ WithSaved(res, ok).failure = res.failure
         /\ WithSaved(res, ok).timedOut = res.timedOut /\ WithSaved(res, ok).cancelled = res.cancelled
  BY DEF Records!Results, WithSaved

\* What an entry says depends on the failure and the flags of a result only.
LEMMA EntryDepends ==
  ASSUME NEW x, NEW y, x.failure = y.failure, x.timedOut = y.timedOut, x.cancelled = y.cancelled
  PROVE  /\ Records!ExitOf(x) = Records!ExitOf(y)
         /\ \A e : Records!Entry(e, x) = Records!Entry(e, y)
  BY DEF Records!ExitOf, Records!Entry

\* A revision says e, or the history is not said to be saved.
LEMMA RevisionRecorded ==
  ASSUME Records!TypeOK, NEW t \in Tasks, NEW e \in Records!Exits, Records!Revise(t, e)
  PROVE  /\ result' \in [Tasks -> Records!Results]
         /\ history' \in [Tasks -> Records!Entries \cup {None}]
         /\ result'[t].saved => history'[t] = Records!Entry(e, result'[t])
         /\ result'[t].failure = result[t].failure /\ result'[t].timedOut = result[t].timedOut
         /\ result'[t].cancelled = result[t].cancelled
         /\ \A r \in Tasks \ {t} : result'[r] = result[r] /\ history'[r] = history[r]
<1> USE DEF Records!TypeOK
<1>1. PICK ok \in BOOLEAN, lost \in BOOLEAN :
        /\ history' = IF ok THEN [history EXCEPT ![t] = Records!Entry(e, result[t])] ELSE history
        /\ result' = [result EXCEPT ![t] = [result[t] EXCEPT !.saved = ok /\ ~lost]]
  BY DEF Records!Revise, Records!Set
<1> DEFINE saved == ok /\ ~lost
           new == [result[t] EXCEPT !.saved = saved]
<1>2. /\ new \in Records!Results /\ new.saved = saved /\ new.failure = result[t].failure
      /\ new.timedOut = result[t].timedOut /\ new.cancelled = result[t].cancelled
      /\ Records!Entry(e, result[t]) \in Records!Entries
  <2>1. result[t] \in Records!Results /\ saved \in BOOLEAN
    OBVIOUS
  <2>2. Records!Entry(e, result[t]) \in Records!Entries
    BY <2>1, ResultShape
  <2>3. new = WithSaved(result[t], saved)
    BY DEF WithSaved
  <2> HIDE DEF saved, new
  <2>4. /\ new \in Records!Results /\ new.saved = saved /\ new.failure = result[t].failure
        /\ new.timedOut = result[t].timedOut /\ new.cancelled = result[t].cancelled
    BY <2>1, <2>3, SavedShape
  <2> QED
    BY <2>2, <2>4
<1>3. Records!Entry(e, result[t]) = Records!Entry(e, new)
  BY <1>2, EntryDepends
<1> HIDE DEF new
<1>4. result' = [result EXCEPT ![t] = new] /\ result'[t] = new
  BY <1>1 DEF new
<1>5. \A r \in Tasks \ {t} : result'[r] = result[r] /\ history'[r] = history[r]
  BY <1>1, <1>4
<1>6. new.saved => history'[t] = Records!Entry(e, new)
  BY <1>1, <1>2, <1>3
<1>7. history' \in [Tasks -> Records!Entries \cup {None}]
  BY <1>1, <1>2
<1> QED
  BY <1>2, <1>4, <1>5, <1>6, <1>7
\* What the steps of finish() and of a correction leave to be shown.
RecordsKept(t) == Records!TypeOK' /\ Recorded(t)' /\ OthersKept(t)

\* Saving, and the amendment of what was saved.
LEMMA SavingRecorded ==
  ASSUME Records!TypeOK, NEW t \in Tasks, Recorded(t),
         \/ Records!Save(t) \/ Records!SaveFailsCancelled(t) \/ Records!SaveCancelled(t) \/ Records!Amend(t)
  PROVE  RecordsKept(t)
<1> DEFINE res == result[t]
           over == Records!Cancelled(res)
<1> USE DEF Records!Go, Records!Set, Records!Steps
<1>0. /\ fin \in [Tasks -> Records!Steps] /\ result \in [Tasks -> Records!Results]
      /\ history \in [Tasks -> Records!Entries \cup {None}]
      /\ log \in [Tasks -> Records!Entries \cup {None, Broken}] /\ hit \subseteq Tasks
      /\ res \in Records!Results
  BY DEF Records!TypeOK
<1>1. /\ Records!ExitOf(res) \in Records!Exits /\ Records!Entry(Records!ExitOf(res), res) \in Records!Entries
      /\ over \in Records!Results /\ over.saved = res.saved /\ over.failure = "cancelled"
      /\ over.timedOut = res.timedOut /\ over.cancelled = TRUE
  BY <1>0, ResultShape
<1>2. CASE Records!Save(t)
  <2>1. PICK ok \in BOOLEAN :
          /\ history' = IF ok THEN [history EXCEPT ![t] = Records!Entry(Records!ExitOf(res), res)] ELSE history
          /\ result' = [result EXCEPT ![t] = [res EXCEPT !.saved = ok]]
    BY <1>2 DEF Records!Save
  <2>2. /\ fin[t] = "saving" /\ fin' = [fin EXCEPT ![t] = "logging"] /\ UNCHANGED <<log, hit>>
    BY <1>2 DEF Records!Save
  <2> DEFINE new == [res EXCEPT !.saved = ok]
  <2>3. /\ new \in Records!Results /\ new.saved = ok /\ new.failure = res.failure
        /\ new.timedOut = res.timedOut /\ new.cancelled = res.cancelled
    <3>1. new = WithSaved(res, ok)
      BY DEF WithSaved
    <3> HIDE DEF res, new
    <3> QED
      BY <1>0, <3>1, SavedShape
  <2>4. Records!ExitOf(new) = Records!ExitOf(res) /\ \A e : Records!Entry(e, new) = Records!Entry(e, res)
    BY <2>3, EntryDepends
  <2> HIDE DEF new
  <2>5. result' = [result EXCEPT ![t] = new] /\ result'[t] = new
    BY <1>0, <2>1 DEF new
  <2>6. Records!TypeOK' /\ OthersKept(t)
    BY <1>0, <1>1, <2>1, <2>2, <2>3, <2>5 DEF Records!TypeOK, OthersKept
  <2>7. Recorded(t)'
    BY <1>0, <2>1, <2>2, <2>3, <2>4, <2>5 DEF Recorded
  <2> QED
    BY <2>6, <2>7 DEF RecordsKept
<1>3. CASE Records!SaveFailsCancelled(t)
  <2>1. /\ fin[t] = "saving" /\ fin' = [fin EXCEPT ![t] = "logging"]
        /\ result' = [result EXCEPT ![t] = over] /\ hit' = hit \cup {t} /\ UNCHANGED <<history, log>>
    BY <1>3 DEF Records!SaveFailsCancelled
  <2> HIDE DEF over
  <2>2. Records!TypeOK' /\ OthersKept(t)
    BY <1>0, <1>1, <2>1 DEF Records!TypeOK, OthersKept
  <2>3. Recorded(t)'
    BY <1>0, <1>1, <2>1 DEF Recorded
  <2> QED
    BY <2>2, <2>3 DEF RecordsKept
<1>4. CASE Records!SaveCancelled(t)
  <2> DEFINE new == [over EXCEPT !.saved = TRUE]
  <2>1. /\ fin[t] = "saving" /\ fin' = [fin EXCEPT ![t] = "amending"]
        /\ history' = [history EXCEPT ![t] = Records!Entry(Records!ExitOf(res), res)]
        /\ result' = [result EXCEPT ![t] = new] /\ hit' = hit \cup {t} /\ UNCHANGED log
    BY <1>4 DEF Records!SaveCancelled
  <2>2. new \in Records!Results /\ new.failure = "cancelled" /\ new.cancelled = TRUE
    <3>1. new = WithSaved(over, TRUE)
      BY DEF WithSaved
    <3>2. TRUE \in BOOLEAN
      OBVIOUS
    <3> HIDE DEF over, new
    <3> QED
      BY <1>1, <3>1, <3>2, SavedShape
  <2> HIDE DEF new
  <2>3. Records!TypeOK' /\ OthersKept(t)
    BY <1>0, <1>1, <2>1, <2>2 DEF Records!TypeOK, OthersKept
  <2>4. Recorded(t)'
    BY <1>0, <2>1, <2>2 DEF Recorded
  <2> QED
    BY <2>3, <2>4 DEF RecordsKept
<1>5. CASE Records!Amend(t)
  <2>1. /\ fin[t] = "amending" /\ fin' = [fin EXCEPT ![t] = "logging"]
        /\ Records!Revise(t, "130") /\ UNCHANGED <<log, hit>>
    BY <1>5 DEF Records!Amend
  <2>2. "130" \in Records!Exits
    BY DEF Records!Exits
  <2>3. /\ result' \in [Tasks -> Records!Results] /\ history' \in [Tasks -> Records!Entries \cup {None}]
        /\ result'[t].saved => history'[t] = Records!Entry("130", result'[t])
        /\ result'[t].failure = result[t].failure /\ result'[t].cancelled = result[t].cancelled
        /\ \A r \in Tasks \ {t} : result'[r] = result[r] /\ history'[r] = history[r]
    BY <2>1, <2>2, RevisionRecorded
  <2>4. Records!TypeOK' /\ OthersKept(t)
    BY <1>0, <2>1, <2>3 DEF Records!TypeOK, OthersKept
  <2>5. res.failure = "cancelled" /\ res.cancelled
    BY <2>1 DEF Recorded
  <2>6. ~(result'[t].timedOut /\ result'[t].cancelled) => Records!ExitOf(result'[t]) = "130"
    BY <2>3, <2>5 DEF Records!ExitOf
  <2>7. Recorded(t)'
    BY <1>0, <2>1, <2>3, <2>5, <2>6 DEF Recorded
  <2> QED
    BY <2>4, <2>7 DEF RecordsKept
<1> QED
  BY <1>2, <1>3, <1>4, <1>5
\* What the log says last is the end that was appended, or it broke.
LEMMA AppendRecorded ==
  ASSUME Records!TypeOK, NEW t \in Tasks, NEW e \in Records!Exits, NEW res \in Records!Results,
         Records!AppendOrBreak(t, e, res)
  PROVE  /\ log' \in [Tasks -> Records!Entries \cup {None, Broken}]
         /\ log'[t] # Broken => log'[t] = Records!Entry(e, res)
         /\ \A r \in Tasks \ {t} : log'[r] = log[r]
<1>1. log \in [Tasks -> Records!Entries \cup {None, Broken}] /\ Records!Entry(e, res) \in Records!Entries
  BY ResultShape DEF Records!TypeOK
<1>2. \/ log' = [log EXCEPT ![t] = IF @ = Broken THEN @ ELSE Records!Entry(e, res)]
      \/ log' = [log EXCEPT ![t] = IF @ = Broken THEN @ ELSE Broken]
  BY DEF Records!AppendOrBreak, Records!Append
<1> QED
  BY <1>1, <1>2

\* The end is logged, and a run that was cancelled meanwhile is revised.
LEMMA LoggingRecorded ==
  ASSUME Records!TypeOK, NEW t \in Tasks, Recorded(t),
         \/ Records!Log(t) \/ Records!LogCancelled(t) \/ Records!ReviseHistory(t) \/ Records!LogCorrection(t)
  PROVE  RecordsKept(t)
<1> DEFINE res == result[t]
           over == Records!Cancelled(res)
<1> USE DEF Records!Go, Records!Set, Records!Steps
<1>0. /\ fin \in [Tasks -> Records!Steps] /\ result \in [Tasks -> Records!Results]
      /\ history \in [Tasks -> Records!Entries \cup {None}] /\ hit \subseteq Tasks
      /\ res \in Records!Results /\ "130" \in Records!Exits
  BY DEF Records!TypeOK, Records!Exits
<1>1. /\ Records!ExitOf(res) \in Records!Exits
      /\ over \in Records!Results /\ over.failure = "cancelled"
      /\ over.timedOut = res.timedOut /\ over.cancelled = TRUE
  BY <1>0, ResultShape
<1>2. CASE Records!Log(t)
  <2>1. /\ fin[t] = "logging" /\ fin' = [fin EXCEPT ![t] = "exposed"]
        /\ Records!AppendOrBreak(t, Records!ExitOf(res), res) /\ UNCHANGED <<result, history, hit>>
    BY <1>2 DEF Records!Log
  <2>2. /\ log' \in [Tasks -> Records!Entries \cup {None, Broken}]
        /\ log'[t] # Broken => log'[t] = Records!Entry(Records!ExitOf(res), res)
        /\ \A r \in Tasks \ {t} : log'[r] = log[r]
    BY <1>0, <1>1, <2>1, AppendRecorded
  <2>3. Records!TypeOK' /\ OthersKept(t)
    BY <1>0, <2>1, <2>2 DEF Records!TypeOK, OthersKept
  <2>4. Recorded(t)'
    BY <1>0, <2>1, <2>2 DEF Recorded
  <2> QED
    BY <2>3, <2>4 DEF RecordsKept
<1>3. CASE Records!LogCancelled(t)
  <2>1. /\ fin[t] = "logging" /\ fin' = [fin EXCEPT ![t] = "revising"]
        /\ Records!AppendOrBreak(t, Records!ExitOf(res), res)
        /\ result' = [result EXCEPT ![t] = over] /\ hit' = hit \cup {t} /\ UNCHANGED history
    BY <1>3 DEF Records!LogCancelled
  <2>2. /\ log' \in [Tasks -> Records!Entries \cup {None, Broken}]
        /\ \A r \in Tasks \ {t} : log'[r] = log[r]
    BY <1>0, <1>1, <2>1, AppendRecorded
  <2> HIDE DEF over
  <2>3. Records!TypeOK' /\ OthersKept(t)
    BY <1>0, <1>1, <2>1, <2>2 DEF Records!TypeOK, OthersKept
  <2>4. Recorded(t)'
    BY <1>0, <1>1, <2>1 DEF Recorded
  <2> QED
    BY <2>3, <2>4 DEF RecordsKept
<1>4. CASE Records!ReviseHistory(t)
  <2>1. /\ fin[t] = "revising" /\ fin' = [fin EXCEPT ![t] = "relogging"] /\ UNCHANGED <<log, hit>>
        /\ IF res.saved THEN Records!Revise(t, "130") ELSE UNCHANGED <<result, history>>
    BY <1>4 DEF Records!ReviseHistory
  <2>2. /\ result' \in [Tasks -> Records!Results] /\ history' \in [Tasks -> Records!Entries \cup {None}]
        /\ result'[t].saved => history'[t] = Records!Entry("130", result'[t])
        /\ result'[t].failure = result[t].failure /\ result'[t].cancelled = result[t].cancelled
        /\ \A r \in Tasks \ {t} : result'[r] = result[r] /\ history'[r] = history[r]
    BY <1>0, <2>1, RevisionRecorded
  <2>3. Records!TypeOK' /\ OthersKept(t)
    BY <1>0, <2>1, <2>2 DEF Records!TypeOK, OthersKept
  <2>4. Recorded(t)'
    BY <1>0, <2>1, <2>2 DEF Recorded
  <2> QED
    BY <2>3, <2>4 DEF RecordsKept
<1>5. CASE Records!LogCorrection(t)
  <2>1. /\ fin[t] = "relogging" /\ fin' = [fin EXCEPT ![t] = "exposed"]
        /\ Records!AppendOrBreak(t, "130", res) /\ UNCHANGED <<result, history, hit>>
    BY <1>5 DEF Records!LogCorrection
  <2>2. /\ log' \in [Tasks -> Records!Entries \cup {None, Broken}]
        /\ log'[t] # Broken => log'[t] = Records!Entry("130", res)
        /\ \A r \in Tasks \ {t} : log'[r] = log[r]
    BY <1>0, <2>1, AppendRecorded
  <2>3. Records!TypeOK' /\ OthersKept(t)
    BY <1>0, <2>1, <2>2 DEF Records!TypeOK, OthersKept
  <2>4. res.failure = "cancelled" /\ (~(res.timedOut /\ res.cancelled) => Records!ExitOf(res) = "130")
    BY <2>1 DEF Recorded, Records!ExitOf
  <2>5. Recorded(t)'
    BY <1>0, <2>1, <2>2, <2>4 DEF Recorded
  <2> QED
    BY <2>3, <2>5 DEF RecordsKept
<1> QED
  BY <1>2, <1>3, <1>4, <1>5

\* The run ends with f, or the close failed with f after a run without failure.
LEMMA BeginRecorded ==
  ASSUME Records!TypeOK, NEW t \in Tasks, Recorded(t), NEW f \in Records!Failures,
         \/ Records!Begin(t, f)
         \/ Records!BeginCorrection(t, f) /\ result[t].failure = "none"
  PROVE  RecordsKept(t)
<1> DEFINE over == [result[t] EXCEPT !.failure = f, !.cancelled = f = "cancelled"]
           first == [failure |-> f, timedOut |-> f = "timeout", cancelled |-> f = "cancelled", saved |-> FALSE]
<1>1. over \in Records!Results /\ first \in Records!Results /\ ~first.saved
  BY DEF Records!TypeOK, Records!Results
<1>2. \/ fin[t] = "working" /\ fin' = [fin EXCEPT ![t] = "saving"] /\ result' = [result EXCEPT ![t] = first]
      \/ /\ fin[t] = "exposed" /\ fin' = [fin EXCEPT ![t] = "correcting"] /\ result' = [result EXCEPT ![t] = over]
         /\ t \notin hit
  BY DEF Records!Begin, Records!BeginCorrection, Records!Go, Records!Set, Recorded
<1>3. UNCHANGED <<history, log, hit>>
  BY DEF Records!Begin, Records!BeginCorrection
<1> HIDE DEF over, first
<1>4. Records!TypeOK' /\ OthersKept(t)
  BY <1>1, <1>2, <1>3 DEF Records!TypeOK, OthersKept, Records!Steps
<1>5. Recorded(t)'
  BY <1>1, <1>2, <1>3 DEF Recorded, Records!TypeOK
<1> QED
  BY <1>4, <1>5 DEF RecordsKept

\* The correction is in the history and in the log.
LEMMA CorrectRecorded ==
  ASSUME Records!TypeOK, NEW t \in Tasks, Recorded(t), Records!Correct(t)
  PROVE  RecordsKept(t)
<1> DEFINE res == result[t]
<1>1. /\ fin \in [Tasks -> Records!Steps] /\ result \in [Tasks -> Records!Results]
      /\ history \in [Tasks -> Records!Entries \cup {None}] /\ hit \subseteq Tasks
      /\ res \in Records!Results /\ Records!ExitOf(res) \in Records!Exits
  BY ResultShape DEF Records!TypeOK
<1>2. /\ fin[t] = "correcting" /\ fin' = [fin EXCEPT ![t] = "corrected"] /\ UNCHANGED hit
      /\ IF res.saved THEN Records!Revise(t, Records!ExitOf(res)) ELSE UNCHANGED <<result, history>>
      /\ Records!AppendOrBreak(t, Records!ExitOf(res), res)
  BY DEF Records!Correct, Records!Go
<1>3. /\ log' \in [Tasks -> Records!Entries \cup {None, Broken}]
      /\ log'[t] # Broken => log'[t] = Records!Entry(Records!ExitOf(res), res)
      /\ \A r \in Tasks \ {t} : log'[r] = log[r]
  BY <1>1, <1>2, AppendRecorded
<1>4. /\ result' \in [Tasks -> Records!Results] /\ history' \in [Tasks -> Records!Entries \cup {None}]
      /\ result'[t].saved => history'[t] = Records!Entry(Records!ExitOf(res), result'[t])
      /\ result'[t].failure = res.failure /\ result'[t].timedOut = res.timedOut
      /\ result'[t].cancelled = res.cancelled
      /\ \A r \in Tasks \ {t} : result'[r] = result[r] /\ history'[r] = history[r]
  BY <1>1, <1>2, RevisionRecorded
<1>5. Records!TypeOK' /\ OthersKept(t)
  BY <1>1, <1>2, <1>3, <1>4 DEF Records!TypeOK, Records!Steps, OthersKept
<1>6. /\ Records!ExitOf(result'[t]) = Records!ExitOf(res)
      /\ \A e : Records!Entry(e, result'[t]) = Records!Entry(e, res)
  BY <1>4, EntryDepends
<1>7. Records!Agrees(t)'
  BY <1>3, <1>4, <1>6 DEF Records!Agrees
<1>8. Recorded(t)'
  BY <1>1, <1>2, <1>4, <1>7 DEF Recorded
<1> QED
  BY <1>5, <1>8 DEF RecordsKept
\* A step of one run keeps the records of all.
LEMMA AllRecorded ==
  ASSUME \A r \in Tasks : Recorded(r), NEW t \in Tasks, RecordsKept(t)
  PROVE  Records!TypeOK' /\ \A r \in Tasks : Recorded(r)'
<1>1. ASSUME NEW r \in Tasks \ {t} PROVE Recorded(r)'
  BY DEF RecordsKept, OthersKept, Recorded, Records!Agrees
<1> QED
  BY <1>1 DEF RecordsKept

----------------------------------------------------------------------------
(* The service *)

\* The resources are a finite sequence.
LEMMA ResourcesType == Len(Resources) \in Nat
<1> DEFINE kinds == {"cookies", "transforms", "gateway", "images", "plugins", "logger"}
           first == IF PersistCookies THEN <<"cookies">> ELSE <<>>
           rest == <<"transforms", "gateway", "images", "plugins", "logger">>
<1>1. first \in Seq(kinds) /\ rest \in Seq(kinds)
  <2>1. \A x \in kinds : <<x>> \in Seq(kinds)
    OBVIOUS
  <2>2. \A x, y, z, u, v \in kinds : <<x, y, z, u, v>> \in Seq(kinds)
    OBVIOUS
  <2>3. "cookies" \in kinds /\ "transforms" \in kinds /\ "gateway" \in kinds /\ "images" \in kinds
        /\ "plugins" \in kinds /\ "logger" \in kinds /\ <<>> \in Seq(kinds)
    OBVIOUS
  <2> HIDE DEF kinds
  <2> QED
    BY <2>1, <2>2, <2>3
<1>2. Resources = first \o rest
  BY DEF Resources
<1> HIDE DEF kinds, first, rest
<1> QED
  BY <1>1, <1>2

\* What close() raises in a task depends on how the resources closed and on
\* whether the task was cancelled.
LEMMA RaisesKept ==
  ASSUME NEW t \in Tasks, settled' = settled, t \in cancels' <=> t \in cancels
  PROVE  Raises(t)' = Raises(t)
  BY DEF Raises, Primary, Raised

\* What does not touch a task leaves what is said of it.
LEMMA ReportedKept ==
  ASSUME NEW t \in Tasks, Reported(t),
         step'[t] = step[t], failure'[t] = failure[t], fin'[t] = fin[t], result'[t] = result[t],
         step[t] \in {"correcting", "closed"} => settled' = settled /\ (t \in cancels' <=> t \in cancels)
  PROVE  Reported(t)'
<1>1. step[t] \in {"correcting", "closed"} => Raises(t)' = Raises(t)
  BY RaisesKept
<1> HIDE DEF Raises
<1> QED
  BY <1>1 DEF Reported

\* Steps of a task that concern neither images nor records: calling, being
\* refused or cancelled in the queue, closing, being cancelled in the close.
LEMMA CallInv ==
  ASSUME Inv, NEW t \in Tasks,
         Call(t) \/ Refuse(t) \/ CancelQueued(t) \/ Close(t) \/ CancelClose(t)
  PROVE  Inv'
<1> USE ServiceAssumption
<1>1. /\ UNCHANGED <<lock, settled, batch, pool, records>>
      /\ \A u \in Tasks \ {t} : step'[u] = step[u] /\ failure'[u] = failure[u] /\ (u \in cancels' <=> u \in cancels)
      /\ step[t] \notin Busy /\ step'[t] \notin Busy
  BY DEF Inv, TypeOK, Call, Refuse, CancelQueued, Close, CancelClose, Go, Fail, Busy
<1>2. /\ task' = task \/ (task = "none" /\ task' = "queued")
      /\ step[t] \notin {"correcting", "closed"}
      /\ step'[t] \notin {"correcting", "closed"}
      /\ step'[t] = "noop" => task = "done" /\ task' = "done"
  BY DEF Inv, TypeOK, Call, Refuse, CancelQueued, Close, CancelClose, Go, Fail
<1>3. TypeOK'
  BY <1>1, <1>2 DEF Inv, TypeOK, Call, Refuse, CancelQueued, Close, CancelClose, Go, Fail, Ended,
     batch, pool, records, Batch!TypeOK, Pool!TypeOK, Records!TypeOK
<1>4. Exclusive'
  BY <1>1, <1>2 DEF Inv, Exclusive, Closed
<1>5. CloseProgress'
  BY <1>1, <1>2 DEF Inv, CloseProgress, Ended
<1>6. BatchOfOperation'
  <2>1. (\E u \in Tasks : step[u] = "running")' <=> \E u \in Tasks : step[u] = "running"
    BY <1>1 DEF Busy
  <2> QED
    BY <1>1, <2>1 DEF Inv, batch, BatchOfOperation, BatchInv, InFlight, Batch!TypeOK, Batch!Active, Batch!Finished,
       Batch!Queued, Batch!Failed, Batch!RaisesPrimary, Batch!IsPrimary, Batch!Precedes
<1>7. PoolOfBatch'
  BY <1>1 DEF Inv, PoolOfBatch, batch, pool, Pool!TypeOK
<1>8. \A r \in Tasks : Recorded(r)'
  BY <1>1 DEF Inv, records, Recorded, Records!Agrees
<1>9. ASSUME NEW r \in Tasks PROVE Reported(r)'
  <2>1. CASE r # t
    BY <1>1, <2>1, ReportedKept DEF Inv, records
  <2>2. CASE r = t
    BY <1>1, <1>2, <2>2 DEF Inv, TypeOK, records, Reported, Call, Refuse, CancelQueued, Close, CancelClose, Go, Fail, Busy
  <2> QED
    BY <2>1, <2>2
<1> QED
  BY <1>3, <1>4, <1>5, <1>6, <1>7, <1>8, <1>9 DEF Inv

\* The close: it starts without an operation, closes the resources and ends.
LEMMA CloseTaskInv ==
  ASSUME Inv, CloseTask
  PROVE  Inv'
<1> USE ServiceAssumption, ResourcesType
<1>1. /\ UNCHANGED <<step, failure, cancels, batch, records, use, slots, threads>>
      /\ task \in {"queued", "running"} /\ task' \in {"running", "done"}
      /\ shut' \in {shut, TRUE}
  BY DEF CloseTask, CloseStarts, ShutPool, CloseResource, CloseEnds, Pool!Shut, service, pool
<1>2. TypeOK'
  <2>1. settled' \in Seq({"ok", "error", "fatal"}) /\ Len(settled') <= Len(Resources)
    BY DEF Inv, TypeOK, CloseTask, CloseStarts, ShutPool, CloseResource, CloseEnds, Closings, service
  <2>2. lock' \in Tasks \cup {"close", None}
    BY DEF Inv, TypeOK, CloseTask, CloseStarts, ShutPool, CloseResource, CloseEnds, service
  <2> QED
    BY <1>1, <2>1, <2>2 DEF Inv, TypeOK, batch, records, Batch!TypeOK, Pool!TypeOK, Records!TypeOK
<1>3. Exclusive'
  BY <1>1 DEF Inv, TypeOK, Exclusive, Closed, CloseTask, CloseStarts, ShutPool, CloseResource, CloseEnds, service
<1>4. CloseProgress'
  BY <1>1 DEF Inv, TypeOK, CloseProgress, CloseTask, CloseStarts, ShutPool, CloseResource, CloseEnds, service
<1>5. BatchOfOperation'
  BY <1>1 DEF Inv, batch, BatchOfOperation, BatchInv, InFlight, Batch!TypeOK, Batch!Active, Batch!Finished,
     Batch!Queued, Batch!Failed, Batch!RaisesPrimary, Batch!IsPrimary, Batch!Precedes
<1>6. PoolOfBatch'
  BY <1>1 DEF Inv, PoolOfBatch, batch, Pool!TypeOK
<1>7. \A r \in Tasks : Recorded(r)'
  BY <1>1 DEF Inv, records, Recorded, Records!Agrees
<1>8. ASSUME NEW r \in Tasks PROVE Reported(r)'
  BY <1>1, ReportedKept DEF Inv, records, CloseProgress, Ended
<1> QED
  BY <1>2, <1>3, <1>4, <1>5, <1>6, <1>7, <1>8 DEF Inv
\* The close returns with its failure; a run that succeeded is corrected.
LEMMA CloseReturnsInv ==
  ASSUME Inv, NEW t \in Tasks, CloseReturns(t) \/ Correct(t)
  PROVE  Inv'
<1> USE ServiceAssumption
<1>1. /\ UNCHANGED <<lock, cancels, task, settled, batch, pool>> /\ task = "done"
      /\ step[t] \in {"closing", "correcting"}
      /\ \E s \in {"correcting", "closed"} : step' = [step EXCEPT ![t] = s]
      /\ \A u \in Tasks \ {t} : failure'[u] = failure[u]
  BY DEF Inv, TypeOK, CloseProgress, CloseReturns, Correct, Go, Fail
<1>2. Raises(t)' = Raises(t) /\ Raises(t) \in {"none", "cancelled", "close_error", "close_fatal"}
  BY <1>1, RaisesKept DEF Raises, Primary
<1>3. UNCHANGED records \/ RecordsKept(t)
  <2>1. CASE Correct(t)
    BY <2>1, CorrectRecorded DEF Correct, Inv, TypeOK
  <2>2. CASE CloseReturns(t) /\ ~UNCHANGED records
    <3>1. failure[t] = "none" /\ fin[t] = "exposed" /\ step[t] = "closing"
      BY <2>2 DEF CloseReturns, Go
    <3>2. result[t].failure = "none"
      BY <3>1 DEF Inv, Reported
    <3>3. PICK f \in {"cancelled", "error"} : Records!BeginCorrection(t, f)
      BY <2>2, Zenon DEF CloseReturns
    <3>4. f \in Records!Failures
      BY DEF Records!Failures
    <3> QED
      BY <3>2, <3>3, <3>4, BeginRecorded DEF Inv, TypeOK
  <2> QED
    BY <2>1, <2>2
<1>4. Records!TypeOK' /\ \A r \in Tasks : Recorded(r)'
  BY <1>3, AllRecorded DEF Inv, TypeOK, records, Recorded, Records!Agrees, Records!TypeOK
<1>5. \A r \in Tasks \ {t} : fin'[r] = fin[r] /\ result'[r] = result[r]
  BY <1>3 DEF RecordsKept, OthersKept, records
<1>6. failure' \in [Tasks -> {"none", "refused", "error", "timeout", "cancelled", "close_error", "close_fatal"}]
  BY <1>2 DEF CloseReturns, Correct, Fail, Inv, TypeOK
<1>7. TypeOK'
  BY <1>1, <1>4, <1>6 DEF Inv, TypeOK, Ended, batch, pool, Batch!TypeOK, Pool!TypeOK
<1>8. Exclusive'
  BY <1>1 DEF Inv, TypeOK, Exclusive, Closed, Busy
<1>9. CloseProgress'
  BY <1>1 DEF Inv, TypeOK, CloseProgress
<1>10. BatchOfOperation'
  <2>1. (\E u \in Tasks : step[u] = "running")' <=> \E u \in Tasks : step[u] = "running"
    BY <1>1 DEF Inv, TypeOK
  <2> QED
    BY <1>1, <2>1 DEF Inv, batch, BatchOfOperation, BatchInv, InFlight, Batch!TypeOK, Batch!Active, Batch!Finished,
       Batch!Queued, Batch!Failed, Batch!RaisesPrimary, Batch!IsPrimary, Batch!Precedes
<1>11. PoolOfBatch'
  BY <1>1 DEF Inv, PoolOfBatch, batch, pool, Pool!TypeOK
<1>12. ASSUME NEW r \in Tasks \ {t} PROVE Reported(r)'
  BY <1>1, <1>5, ReportedKept DEF Inv, TypeOK
<1>13. Reported(t)'
  <2>1. CASE Correct(t)
    <3>1. /\ step[t] = "correcting" /\ step'[t] = "closed" /\ failure' = failure
          /\ fin[t] = "correcting" /\ fin'[t] = "corrected"
      BY <2>1 DEF Correct, Go, Records!Correct, Records!Go, Inv, TypeOK, Records!TypeOK
    <3>2. failure[t] = Raises(t)
      BY <3>1 DEF Inv, Reported
    <3>3. failure'[t] = Raises(t)'
      BY <1>2, <3>1, <3>2
    <3> QED
      BY <2>1, <3>1, <3>3 DEF Reported, Busy
  <2>2. CASE CloseReturns(t)
    <3> DEFINE corrects == failure[t] = "none" /\ fin[t] = "exposed" /\ Raises(t) \in {"close_error", "cancelled"}
    <3>1. /\ step[t] = "closing"
          /\ failure'[t] = IF failure[t] = "none" THEN Raises(t) ELSE failure[t]
          /\ corrects => step'[t] = "correcting" /\ fin'[t] = "correcting"
          /\ ~corrects => step'[t] = "closed" /\ fin'[t] = fin[t] /\ result'[t] = result[t]
      BY <2>2 DEF CloseReturns, Go, Fail, Records!BeginCorrection, Records!Go, records, Inv, TypeOK, Records!TypeOK
    <3>2. /\ fin[t] \in {"working", "exposed"} /\ failure[t] \notin {"close_error", "close_fatal"}
          /\ fin[t] = "exposed" => failure[t] = result[t].failure
      BY <3>1 DEF Inv, Reported
    <3>3. corrects => failure'[t] = Raises(t)'
      BY <1>2, <3>1
    <3>4. ~corrects /\ failure[t] # "none" =>
            failure'[t] = failure[t] /\ failure'[t] \notin {"none", "close_error"} /\ fin'[t] # "corrected"
      BY <3>1, <3>2
    <3>5. ~corrects /\ failure[t] = "none" =>
            failure'[t] = Raises(t)' /\ (fin'[t] = "exposed" => result'[t].failure = "none")
      BY <1>2, <3>1, <3>2
    <3>6. ~corrects => fin'[t] \in {"working", "exposed"} /\ (fin'[t] = "exposed" => failure[t] = result'[t].failure)
      BY <3>1, <3>2
    <3> HIDE DEF corrects
    <3> QED
      BY <2>2, <3>1, <3>3, <3>4, <3>5, <3>6 DEF Reported, Busy
  <2> QED
    BY <2>1, <2>2
<1>14. \A r \in Tasks : Reported(r)'
  BY <1>12, <1>13
<1> QED
  BY <1>4, <1>7, <1>8, <1>9, <1>10, <1>11, <1>14 DEF Inv

\* finish() and the exposure of the result.
LEMMA FinishInv ==
  ASSUME Inv, NEW t \in Tasks, Finish(t) \/ Expose(t)
  PROVE  Inv'
<1> USE ServiceAssumption
<1>1. /\ UNCHANGED <<cancels, task, settled, batch, pool>> /\ step[t] = "finishing" /\ lock = t
      /\ \A u \in Tasks \ {t} : step'[u] = step[u] /\ failure'[u] = failure[u] /\ step[u] \notin Busy
  BY DEF Inv, TypeOK, Exclusive, Busy, Finish, Expose, Go, Fail, service
<1>2. /\ fin[t] \in {"saving", "amending", "logging", "revising", "relogging", "exposed"}
      /\ failure[t] = "none" /\ result[t].failure \in Records!Failures
  BY <1>1 DEF Inv, TypeOK, Records!TypeOK, Records!Steps, Records!Results, Reported, Busy
<1>3. \/ /\ Finish(t) /\ UNCHANGED <<step, lock, failure>> /\ RecordsKept(t)
         /\ fin'[t] \in {"amending", "logging", "revising", "relogging", "exposed"}
      \/ /\ Expose(t) /\ UNCHANGED records /\ fin[t] = "exposed" /\ lock' = None
         /\ step' = [step EXCEPT ![t] = "leaving"]
         /\ failure' = [failure EXCEPT ![t] = result[t].failure]
  <2>1. CASE Finish(t)
    <3>1. fin'[t] \in {"amending", "logging", "revising", "relogging", "exposed"}
      BY <2>1 DEF Finish, Records!Finish, Records!Save, Records!SaveFailsCancelled, Records!SaveCancelled,
         Records!Amend, Records!Log, Records!LogCancelled, Records!ReviseHistory, Records!LogCorrection,
         Records!Go, Inv, TypeOK, Records!TypeOK
    <3> QED
      BY <2>1, <3>1, SavingRecorded, LoggingRecorded DEF Finish, Records!Finish, Inv, TypeOK, service
  <2>2. CASE Expose(t)
    BY <2>2 DEF Expose, Go, Fail
  <2> QED
    BY <2>1, <2>2
<1>4. Records!TypeOK' /\ \A r \in Tasks : Recorded(r)'
  BY <1>3, AllRecorded DEF Inv, TypeOK, records, Recorded, Records!Agrees, Records!TypeOK
<1>5. \A r \in Tasks \ {t} : fin'[r] = fin[r] /\ result'[r] = result[r]
  BY <1>3 DEF RecordsKept, OthersKept, records
<1>6. failure' \in [Tasks -> {"none", "refused", "error", "timeout", "cancelled", "close_error", "close_fatal"}]
  BY <1>2, <1>3 DEF Records!Failures, Inv, TypeOK
<1>7. TypeOK'
  BY <1>1, <1>3, <1>4, <1>6 DEF Inv, TypeOK, Ended, batch, pool, Batch!TypeOK, Pool!TypeOK
<1>8. Exclusive'
  BY <1>1, <1>3 DEF Inv, TypeOK, Exclusive, Closed, Busy
<1>9. CloseProgress'
  BY <1>1, <1>3 DEF Inv, TypeOK, CloseProgress, Ended
<1>10. BatchOfOperation'
  <2>1. (\E u \in Tasks : step[u] = "running")' <=> \E u \in Tasks : step[u] = "running"
    BY <1>1, <1>3 DEF Inv, TypeOK
  <2> QED
    BY <1>1, <2>1 DEF Inv, batch, BatchOfOperation, BatchInv, InFlight, Batch!TypeOK, Batch!Active, Batch!Finished,
       Batch!Queued, Batch!Failed, Batch!RaisesPrimary, Batch!IsPrimary, Batch!Precedes
<1>11. PoolOfBatch'
  BY <1>1 DEF Inv, PoolOfBatch, batch, pool, Pool!TypeOK
<1>12. ASSUME NEW r \in Tasks PROVE Reported(r)'
  <2>1. CASE r # t
    BY <1>1, <1>5, <2>1, ReportedKept DEF Inv
  <2>2. CASE r = t
    BY <1>1, <1>2, <1>3, <2>2 DEF Inv, TypeOK, Reported, Busy, records, Records!Failures
  <2> QED
    BY <2>1, <2>2
<1> QED
  BY <1>4, <1>7, <1>8, <1>9, <1>10, <1>11, <1>12 DEF Inv
\* The lock is free and the service is open: the images start.
LEMMA EnterInv ==
  ASSUME Inv, NEW t \in Tasks, Enter(t)
  PROVE  Inv'
<1> USE ServiceAssumption, BatchConstants
<1>1. /\ step[t] = "queued" /\ step' = [step EXCEPT ![t] = "running"] /\ lock = None /\ lock' = t /\ ~Closed
      /\ stage' = [j \in Jobs |-> IF j <= Limit THEN "running" ELSE "queued"]
      /\ owner' = IF Images = 0 THEN "returned" ELSE "waiting"
      /\ UNCHANGED <<failure, cancels, task, settled, outcome, raised, pool, records>>
  BY DEF Enter, Go
<1>2. \A u \in Tasks : step[u] \notin Busy
  BY <1>1 DEF Inv, Exclusive
<1>3. owner = None /\ stage = NoStage /\ outcome = NoOutcome /\ raised = 0
  BY <1>2 DEF Inv, BatchOfOperation, Busy
<1>4. BatchInv' /\ owner' # None
  BY <1>1, <1>3, BatchStarts DEF Batch!Owners
<1>5. TypeOK'
  BY <1>1, <1>4 DEF Inv, TypeOK, Busy, BatchInv, pool, records, Pool!TypeOK, Records!TypeOK
<1>6. Exclusive'
  BY <1>1, <1>2 DEF Inv, TypeOK, Exclusive, Closed, Busy
<1>7. CloseProgress'
  BY <1>1 DEF Inv, TypeOK, CloseProgress, Ended
<1>8. BatchOfOperation'
  BY <1>1, <1>4 DEF Inv, TypeOK, BatchOfOperation
<1>9. PoolOfBatch'
  BY <1>1, <1>3 DEF Inv, PoolOfBatch, NoStage, pool, Pool!TypeOK
<1>10. \A r \in Tasks : Recorded(r)'
  BY <1>1 DEF Inv, records, Recorded, Records!Agrees
<1>11. ASSUME NEW r \in Tasks \ {t} PROVE Reported(r)'
  BY <1>1, ReportedKept DEF Inv, TypeOK, records
<1>12. Reported(t)'
  BY <1>1 DEF Inv, TypeOK, Reported, Busy, records
<1>13. \A r \in Tasks : Reported(r)'
  BY <1>11, <1>12
<1> QED
  BY <1>5, <1>6, <1>7, <1>8, <1>9, <1>10, <1>13 DEF Inv

\* A step of the images keeps the rest when it keeps the batch and the pool.
LEMMA ImagesStepInv ==
  ASSUME Inv, UNCHANGED <<service, records>>, owner # None, owner' # None, BatchInv', PoolOfBatch'
  PROVE  Inv'
<1>1. TypeOK'
  BY DEF Inv, TypeOK, service, records, BatchInv, PoolOfBatch, Records!TypeOK
<1>2. Exclusive' /\ CloseProgress'
  BY DEF Inv, service, Exclusive, Closed, CloseProgress
<1>3. BatchOfOperation'
  BY DEF Inv, service, BatchOfOperation
<1>4. \A r \in Tasks : Recorded(r)'
  BY DEF Inv, records, Recorded, Records!Agrees
<1>5. \A r \in Tasks : Reported(r)'
  BY ReportedKept DEF Inv, records, service
<1> QED
  BY <1>1, <1>2, <1>3, <1>4, <1>5 DEF Inv

\* bounded() goes on: only images that are not inside the pool end.
LEMMA ImagesGoOnInv ==
  ASSUME Inv, ImagesGoOn
  PROVE  Inv' /\ Batch!NoLaunch
<1> USE ServiceAssumption, BatchConstants
<1>1. UNCHANGED <<service, pool, records>>
  BY DEF ImagesGoOn
<1>2. owner # None
  <2>1. \A j \in Jobs : Batch!JobEnds(j) => stage[j] # "queued"
    BY DEF Batch!JobEnds
  <2>2. Batch!Collect \/ Batch!DrainEnds \/ Batch!AbortEnds => owner \in Batch!Owners
    BY DEF Batch!Collect, Batch!CollectAndStart, Batch!DrainEnds, Batch!AbortEnds, Batch!Owners
  <2> QED
    BY <2>1, <2>2 DEF ImagesGoOn, Inv, BatchOfOperation, NoStage
<1>3. BatchInv
  BY <1>2 DEF Inv, BatchOfOperation
<1>4. CASE \E j \in Jobs : use[j] \in {"out", "left"} /\ Batch!JobEnds(j)
  <2>1. PICK j \in Jobs : use[j] \in {"out", "left"} /\ Batch!JobEnds(j)
    BY <1>4
  <2>2. BatchInv' /\ Batch!Launched' = Batch!Launched
    BY <1>3, <2>1, JobEndsBatch
  <2>3. PoolOfBatch'
    BY <1>1, <2>1 DEF Inv, PoolOfBatch, pool, Pool!TypeOK, Batch!JobEnds, BatchInv, Batch!TypeOK
  <2>4. owner' = owner
    BY <2>1 DEF Batch!JobEnds
  <2> QED
    BY <1>1, <1>2, <2>2, <2>3, <2>4, ImagesStepInv DEF Batch!NoLaunch
<1>5. CASE Batch!Collect \/ Batch!DrainEnds \/ Batch!AbortEnds
  <2>1. BatchInv' /\ Batch!NoLaunch
    BY <1>3, <1>5, CollectBatch, EndsBatch DEF Batch!NoLaunch
  <2>2. \A j \in Jobs : stage[j] \in {"running", "cancelling"} => stage'[j] \in {"running", "cancelling"}
    BY <1>3, <1>5, CollectBatch, EndsBatch
  <2>3. PoolOfBatch'
    BY <1>1, <2>2 DEF Inv, PoolOfBatch, pool, Pool!TypeOK
  <2>4. owner' # None
    BY <2>1 DEF BatchInv, Batch!TypeOK
  <2> QED
    BY <1>1, <1>2, <2>1, <2>3, <2>4, ImagesStepInv
<1> QED
  BY <1>4, <1>5 DEF ImagesGoOn

\* An image enters the pool, is admitted, its thread ends, or it leaves.
LEMMA ImageTransformsInv ==
  ASSUME Inv, NEW j \in Jobs, ImageTransforms(j)
  PROVE  Inv' /\ batch' = batch
<1> USE ServiceAssumption, BatchConstants
<1>1. UNCHANGED <<service, batch, records>>
  BY DEF ImageTransforms
<1>2. /\ use \in [Jobs -> Pool!Uses] /\ slots \subseteq Jobs /\ Pool!Cardinality(slots) <= Workers
      /\ threads \subseteq slots /\ shut \in BOOLEAN
      /\ slots = {i \in Jobs : use[i] = "submitted"}
      /\ \A i \in Jobs : use[i] \in {"waiting", "submitted"} => stage[i] \in {"running", "cancelling"}
  BY DEF Inv, PoolOfBatch, Pool!TypeOK, Jobs
<1>3. stage[j] \in {"running", "cancelling"}
  BY <1>2 DEF ImageTransforms, Pool!Enter, Pool!Admit, Pool!ThreadEnds, Pool!Leave, Pool!Go
<1>4. \E u \in {"left", "waiting", "submitted"} : use' = [use EXCEPT ![j] = u] \/ use' = use
  BY DEF ImageTransforms, Pool!Enter, Pool!Admit, Pool!ThreadEnds, Pool!Leave, Pool!Go
<1>5. /\ slots' \subseteq Jobs /\ threads' \subseteq slots' /\ shut' = shut
      /\ slots' = {i \in Jobs : use'[i] = "submitted"}
  BY <1>2 DEF ImageTransforms, Pool!Enter, Pool!Admit, Pool!ThreadEnds, Pool!Leave, Pool!Go, Pool!Uses
<1>6. Pool!Cardinality(slots') <= Workers
  <2>1. Workers \in Nat /\ IsFiniteSet(slots) /\ Cardinality(slots) \in Nat
    BY <1>2, JobsFinite DEF Pool!PoolAssumption
  <2>2. CASE Pool!Admit(j) /\ slots' # slots
    <3>1. Cardinality(slots) < Workers /\ slots' = slots \cup {j}
      BY <2>2, SameCardinality DEF Pool!Admit
    <3>2. Cardinality(slots \cup {j}) = IF j \in slots THEN Cardinality(slots) ELSE Cardinality(slots) + 1
      BY <2>1, FS_AddElement
    <3>3. Cardinality(slots \cup {j}) <= Workers
      BY <2>1, <3>1, <3>2
    <3> QED
      BY <3>1, <3>3, SameCardinality
  <2>3. CASE slots' \subseteq slots
    <3>1. Cardinality(slots') <= Cardinality(slots) /\ Cardinality(slots') \in Nat
      BY <2>1, <2>3, FS_Subset, FS_CardinalityType
    <3> QED
      BY <1>2, <2>1, <3>1, SameCardinality
  <2>4. slots' = slots \/ Pool!Admit(j) \/ slots' \subseteq slots
    BY DEF ImageTransforms, Pool!Enter, Pool!ThreadEnds, Pool!Leave
  <2> QED
    BY <2>2, <2>3, <2>4
<1>7. PoolOfBatch'
  <2>1. use' \in [Jobs -> Pool!Uses]
    BY <1>2, <1>4 DEF Pool!Uses
  <2>2. \A i \in Jobs : use'[i] \in {"waiting", "submitted"} => stage'[i] \in {"running", "cancelling"}
    BY <1>1, <1>2, <1>3, <1>4 DEF batch
  <2> QED
    BY <1>2, <1>5, <1>6, <2>1, <2>2 DEF PoolOfBatch, Pool!TypeOK, Jobs
<1>8. owner # None /\ owner' = owner
  BY <1>1, <1>3 DEF Inv, BatchOfOperation, NoStage, batch
<1>9. BatchInv'
  BY <1>1, <1>8 DEF Inv, BatchOfOperation, batch, BatchInv, InFlight, Batch!TypeOK, Batch!Active, Batch!Finished,
     Batch!Queued, Batch!Failed, Batch!RaisesPrimary, Batch!IsPrimary, Batch!Precedes
<1> QED
  BY <1>1, <1>7, <1>8, <1>9, ImagesStepInv DEF batch

\* The operation is cancelled with its images: who waits for a slot leaves the
\* pool, who has a thread stays.
LEMMA CancelOperationInv ==
  ASSUME Inv, NEW t \in Tasks, CancelOperation(t)
  PROVE  Inv' /\ Batch!NoLaunch
<1> USE ServiceAssumption, BatchConstants
<1>1. /\ UNCHANGED <<service, records, slots, threads, shut>> /\ Batch!CancelOwner
      /\ use' = [j \in Jobs |-> IF stage[j] = "running" /\ use[j] = "waiting" THEN "left" ELSE use[j]]
  BY DEF CancelOperation, Pool!Cancel, Jobs
<1>2. owner # None /\ BatchInv
  BY <1>1 DEF Inv, BatchOfOperation, Batch!CancelOwner, Batch!Owners
<1>3. /\ BatchInv' /\ Batch!Launched' = Batch!Launched
      /\ \A j \in Jobs : stage[j] \in {"running", "cancelling"} => stage'[j] \in {"running", "cancelling"}
  BY <1>1, <1>2, EndsBatch
<1>4. PoolOfBatch'
  BY <1>1, <1>3 DEF Inv, PoolOfBatch, Pool!TypeOK, Pool!Uses, Jobs
<1>5. owner' # None
  BY <1>3 DEF BatchInv, Batch!TypeOK
<1> QED
  BY <1>1, <1>2, <1>3, <1>4, <1>5, ImagesStepInv DEF Batch!NoLaunch
\* bounded() has ended, nobody is inside the pool, and finish() begins.
LEMMA ImagesEndInv ==
  ASSUME Inv, NEW t \in Tasks, ImagesEnd(t)
  PROVE  Inv'
<1> USE ServiceAssumption, BatchConstants
<1>1. /\ step[t] = "running" /\ step' = [step EXCEPT ![t] = "finishing"]
      /\ stage' = NoStage /\ outcome' = NoOutcome /\ owner' = None /\ raised' = 0
      /\ use' = [j \in Jobs |-> "out"]
      /\ UNCHANGED <<lock, failure, cancels, task, settled, slots, threads, shut>>
  BY DEF ImagesEnd, Go
<1>2. PICK f \in Records!Failures : Records!Begin(t, f) /\ f \in WorkflowFailures
  BY DEF ImagesEnd, WorkflowFailures, Records!Failures
<1>3. owner \in Batch!Ended
  BY <1>2 DEF WorkflowFailures, Batch!Ended
<1>4. Batch!Active = {} /\ owner # None
  BY <1>3 DEF Inv, BatchOfOperation, BatchInv, Batch!Owners, Batch!Ended
<1>5. slots = {} /\ threads = {}
  BY <1>4 DEF Inv, PoolOfBatch, Pool!TypeOK, Batch!Active
<1>6. RecordsKept(t)
  BY <1>2, BeginRecorded DEF Inv, TypeOK
<1>7. Records!TypeOK' /\ \A r \in Tasks : Recorded(r)'
  BY <1>6, AllRecorded DEF Inv
<1>8. PoolOfBatch'
  BY <1>1, <1>5 DEF Inv, PoolOfBatch, Pool!TypeOK, Pool!Uses, Jobs
<1>9. TypeOK'
  BY <1>1, <1>7, <1>8 DEF Inv, TypeOK, Busy, PoolOfBatch
<1>10. \A u \in Tasks \ {t} : step[u] \notin Busy
  BY <1>1 DEF Inv, Exclusive, Busy
<1>11. Exclusive' /\ CloseProgress'
  BY <1>1 DEF Inv, TypeOK, Exclusive, Closed, Busy, CloseProgress, Ended
<1>12. BatchOfOperation'
  BY <1>1, <1>10 DEF Inv, TypeOK, BatchOfOperation, Busy
<1>13. ASSUME NEW r \in Tasks \ {t} PROVE Reported(r)'
  BY <1>1, <1>6, ReportedKept DEF Inv, TypeOK, RecordsKept, OthersKept
<1>14. Reported(t)'
  <2>1. fin'[t] = "saving"
    BY <1>2 DEF Records!Begin, Records!Go, Inv, TypeOK, Records!TypeOK
  <2>2. step'[t] = "finishing" /\ failure'[t] = "none"
    BY <1>1 DEF Inv, TypeOK, Reported, Busy
  <2> QED
    BY <2>1, <2>2 DEF Reported
<1>15. \A r \in Tasks : Reported(r)'
  BY <1>13, <1>14
<1> QED
  BY <1>7, <1>8, <1>9, <1>11, <1>12, <1>15 DEF Inv

\* Nobody has called anything.
LEMMA InitInv == Init => Inv
<1> SUFFICES ASSUME Init PROVE Inv
  OBVIOUS
<1> USE ServiceAssumption, BatchConstants, ResourcesType DEF Init, Pool!Init, Records!Init
<1>1. Pool!TypeOK
  <2>1. Workers \in Nat \ {0}
    BY DEF Pool!PoolAssumption
  <2>2. slots = {} /\ threads = {} /\ shut = FALSE /\ use = [u \in 1..Images |-> "out"]
    OBVIOUS
  <2>3. Pool!Cardinality(slots) = 0
    BY <2>2, SameCardinality, FS_EmptySet
  <2>4. Pool!Cardinality(slots) <= Workers
    <3> HIDE DEF Init
    <3> QED
      BY <2>1, <2>3
  <2>5. slots \subseteq 1..Images /\ threads \subseteq slots /\ shut \in BOOLEAN
        /\ use \in [1..Images -> {"out", "waiting", "submitted", "left"}]
    BY <2>2
  <2> QED
    BY <2>4, <2>5, Zenon DEF Pool!TypeOK, Pool!Uses
<1>2. Records!TypeOK
  BY DEF Records!TypeOK, Records!Steps, Records!Results, Records!Failures
<1>3. settled \in Seq({"ok", "error", "fatal"}) /\ Len(settled) <= Len(Resources)
  OBVIOUS
<1>4. TypeOK
  BY <1>1, <1>2, <1>3 DEF TypeOK
<1>5. Exclusive /\ CloseProgress /\ BatchOfOperation
  BY DEF Exclusive, Closed, Busy, CloseProgress, Ended, BatchOfOperation
<1>6. PoolOfBatch
  BY <1>1 DEF PoolOfBatch, Jobs
<1>7. \A r \in Tasks : Recorded(r) /\ Reported(r)
  BY DEF Recorded, Reported, Busy
<1> QED
  BY <1>4, <1>5, <1>6, <1>7 DEF Inv

\* Every step keeps the invariant, and none starts an image after a failure.
LEMMA NextInv ==
  ASSUME Inv, [Next]_vars
  PROVE  Inv' /\ (owner # None /\ owner' # None => Batch!NoLaunch)
<1>1. CASE UNCHANGED vars
  <2>1. UNCHANGED <<service, batch, pool, records>>
    BY <1>1 DEF vars
  <2>2. TypeOK' /\ Exclusive' /\ CloseProgress'
    BY <2>1 DEF service, batch, pool, records, Inv, TypeOK, Batch!TypeOK, Pool!TypeOK, Records!TypeOK,
       Exclusive, Closed, CloseProgress
  <2>3. BatchOfOperation' /\ PoolOfBatch'
    BY <2>1 DEF service, batch, pool, Inv, BatchOfOperation, PoolOfBatch, Pool!TypeOK, BatchInv, InFlight, Batch!TypeOK,
       Batch!Active, Batch!Finished, Batch!Queued, Batch!Failed, Batch!RaisesPrimary, Batch!IsPrimary, Batch!Precedes
  <2>4. \A r \in Tasks : Recorded(r)' /\ Reported(r)'
    BY <2>1, ReportedKept DEF service, records, Inv, Recorded, Records!Agrees
  <2> QED
    BY <2>1, <2>2, <2>3, <2>4 DEF Inv, batch, Batch!NoLaunch, Batch!Launched, Batch!Queued
<1>2. ASSUME UNCHANGED batch PROVE Batch!NoLaunch
  BY <1>2 DEF batch, Batch!NoLaunch, Batch!Launched, Batch!Queued
<1>3. ASSUME NEW t \in Tasks,
             \/ Call(t) \/ Operate(t) \/ Close(t) \/ CloseReturns(t) \/ Correct(t)
             \/ CancelQueued(t) \/ CancelOperation(t) \/ CancelClose(t)
      PROVE  Inv' /\ (owner # None /\ owner' # None => Batch!NoLaunch)
  <2>1. CASE Call(t) \/ Refuse(t) \/ CancelQueued(t) \/ Close(t) \/ CancelClose(t)
    BY <1>2, <2>1, CallInv DEF Call, Refuse, CancelQueued, Close, CancelClose
  <2>2. CASE CloseReturns(t) \/ Correct(t)
    BY <1>2, <2>2, CloseReturnsInv DEF CloseReturns, Correct
  <2>3. CASE Finish(t) \/ Expose(t)
    BY <1>2, <2>3, FinishInv DEF Finish, Expose
  <2>4. CASE Enter(t)
    <3>1. lock = None
      BY <2>4 DEF Enter
    <3>2. \A u \in Tasks : step[u] # "running"
      BY <3>1, ServiceAssumption DEF Inv, Exclusive, Busy
    <3>3. owner = None
      BY <3>2 DEF Inv, BatchOfOperation
    <3> QED
      BY <2>4, <3>3, EnterInv
  <2>5. CASE ImagesEnd(t)
    BY <2>5, ImagesEndInv DEF ImagesEnd
  <2>6. CASE CancelOperation(t)
    BY <2>6, CancelOperationInv
  <2> QED
    BY <1>3, <2>1, <2>2, <2>3, <2>4, <2>5, <2>6 DEF Operate
<1>4. CASE ImagesGoOn
  BY <1>4, ImagesGoOnInv
<1>5. CASE \E j \in Jobs : ImageTransforms(j)
  BY <1>2, <1>5, ImageTransformsInv
<1>6. CASE CloseTask
  BY <1>2, <1>6, CloseTaskInv DEF CloseTask, CloseStarts, ShutPool, CloseResource, CloseEnds
<1> QED
  BY <1>1, <1>3, <1>4, <1>5, <1>6 DEF Next, Done

\* The inductive invariant holds in every reachable state.
THEOREM Invariance == Spec => []Inv
<1> QED
  BY InitInv, NextInv, PTL DEF Spec

\* The service, its batch, its pool and its records keep their types.
THEOREM TypeCorrect == Spec => []TypeOK
  BY Invariance, PTL DEF Inv

\* Nothing is closed under an operation, no thread outlives its image, and who
\* comes back from close() finds every resource closed.
THEOREM NothingClosedInUse == Spec => []ResourcesOutliveUse
<1>1. Inv => ResourcesOutliveUse
  <2> SUFFICES ASSUME Inv PROVE ResourcesOutliveUse
    OBVIOUS
  <2>1. threads \subseteq slots /\ \A j \in slots : j \in Jobs /\ stage[j] \in {"running", "cancelling"}
    BY DEF Inv, PoolOfBatch, Pool!TypeOK
  <2>2. threads # {} => owner # None
    BY <2>1 DEF Inv, BatchOfOperation, NoStage
  <2> QED
    BY <2>1, <2>2 DEF Inv, BatchOfOperation, Exclusive, Busy, CloseProgress, ResourcesOutliveUse
<1> QED
  BY <1>1, Invariance, PTL

\* The failure that is raised, by a batch and by the close, does not depend on
\* which of several came first.
THEOREM PrimaryFailure == Spec => []PrimaryIsRaised
<1>1. Inv => PrimaryIsRaised
  <2> SUFFICES ASSUME Inv PROVE PrimaryIsRaised
    OBVIOUS
  <2>1. Batch!RaisesPrimary
    <3>1. owner = None => owner # "raised"
      BY BatchConstants DEF Batch!Owners
    <3> QED
      BY <3>1 DEF Inv, BatchOfOperation, BatchInv, Batch!RaisesPrimary
  <2>2. ASSUME NEW t \in Tasks, step[t] = "closed"
        PROVE  LET own == result[t].failure IN
               /\ fin[t] = "exposed" /\ own # "none" => failure[t] = own
               /\ failure[t] = "close_error" => \A i \in DOMAIN settled : settled[i] # "fatal"
               /\ failure[t] = "cancelled" /\ t \in cancels /\ fin[t] = "corrected" => Raised = {}
               /\ failure[t] = "none" => Raised = {} /\ t \notin cancels
    <3>1. /\ fin[t] = "exposed" /\ result[t].failure # "none" => failure[t] = result[t].failure
          /\ fin[t] = "corrected" \/ failure[t] \in {"none", "close_error"} => failure[t] = Raises(t)
      BY <2>2 DEF Inv, Reported
    <3>2. /\ Raises(t) = "close_error" => \A i \in DOMAIN settled : settled[i] # "fatal"
          /\ Raises(t) = "cancelled" => Raised = {}
          /\ Raises(t) = "none" => Raised = {} /\ t \notin cancels
      BY DEF Raises, Primary, Raised
    <3> QED
      BY <3>1, <3>2
  <2>3. CloseReportsPrimary
    BY <2>2 DEF CloseReportsPrimary
  <2> QED
    BY <2>1, <2>3 DEF PrimaryIsRaised
<1> QED
  BY <1>1, Invariance, PTL

\* Whenever the result of a run is exposed, and again when it was corrected
\* after the close, the history and the log agree with it.
THEOREM RecordsAreTrue == Spec => []RecordsAgree
<1>1. Inv => RecordsAgree
  <2> SUFFICES ASSUME Inv, NEW r \in Records!Exposed
               PROVE  /\ ~(result[r].timedOut /\ result[r].cancelled) => Records!Agrees(r)
                      /\ r \in hit => result[r].failure = "cancelled" /\ result[r].cancelled
    BY DEF RecordsAgree, Records!RecordsAgree
  <2>1. r \in Tasks /\ fin[r] \in {"exposed", "corrected"} /\ Recorded(r)
    BY DEF Inv, Records!Exposed
  <2> QED
    BY <2>1 DEF Recorded, Records!Agrees
<1> QED
  BY <1>1, Invariance, PTL

\* The concurrency of the images is full but bounded, and no image is started
\* once a failure was collected or the operation cancelled.
THEOREM BatchesAreOrderly == Spec => BatchIsOrderly
<1> DEFINE Kept == owner # None /\ owner' # None => Batch!NoLaunch
<1>1. Inv => Batch!FullButBounded
  <2>1. owner = "waiting" => owner # None
    BY BatchConstants DEF Batch!Owners
  <2> QED
    BY <2>1, FullBatch DEF Inv, BatchOfOperation, Batch!FullButBounded
<1>2. Inv /\ [Next]_vars => [Kept]_vars
  BY NextInv
<1> QED
  BY <1>1, <1>2, Invariance, PTL DEF Spec, BatchIsOrderly
=============================================================================
