-------------------------- MODULE WorkflowRun_proofs --------------------------
(***************************************************************************)
(* For any number of runs, candidates, URLs, revisions, snapshots and      *)
(* retries: what workflow.json records as completed was downloaded, no     *)
(* candidate is skipped and no retry repeats what is done.  For any number *)
(* of requests of a developer's session: what is shown and the exit code   *)
(* are true.  For any features, additions, extensions and edits: an author's *)
(* edits stay, and what an extension leaves can be completed.              *)
(***************************************************************************)
EXTENDS MCWorkflowsAndTools, WellFoundedInduction, TLAPS

\* A run that is not idle has the feed lock.
FeedHeld == \A w \in Runs : phase[w] # "idle" <=> feedLock = w

\* A run that is over has left nothing behind in memory.
IdleIsClean ==
  \A w \in Runs : phase[w] = "idle" => todo[w] = {} /\ \A u \in Urls : items[w][u] = "none"

\* From preparation to the next check, workflow.json records the candidates of
\* the run's snapshot.
Recorded ==
  \A w \in Runs : phase[w] \in {"downloading", "completing", "waiting"} =>
    /\ DOMAIN records = DOMAIN snap[w]
    /\ \A i \in DOMAIN records : records[i].url = snap[w][i].url /\ records[i].rev = snap[w][i].rev

\* What is about to be marked completed was downloaded as it is recorded.
CurrentEarned ==
  \A w \in Runs : phase[w] = "completing" =>
    \A i \in DOMAIN snap[w] : snap[w][i].url = current[w] =>
      [id |-> i, url |-> current[w], rev |-> snap[w][i].rev] \in earned

Completing(w, u) == phase[w] = "completing" /\ u = current[w]

\* Unless the run is about to leave, the items that succeeded are recorded as
\* completed or about to be, and those unprocessed are still to do.
ItemsSettled ==
  \A w \in Runs, u \in Urls : phase[w] # "leaving" =>
    /\ items[w][u] = "success" /\ ~Completing(w, u) =>
         \A i \in DOMAIN records : records[i].url = u => records[i].completed
    /\ items[w][u] = "unprocessed" => u \in todo[w]

\* Outside a round's downloads nothing is to do.
TodoInRound ==
  \A w \in Runs : phase[w] \notin {"downloading", "completing", "leaving"} => todo[w] = {}

\* A run waits only for a round it may still do.
RoundsLeft == \A w \in Runs : phase[w] = "waiting" => round[w] < Retries

\* In a round every candidate is completed, to do, failed or being completed.
Accounted ==
  \A w \in Runs : phase[w] \in {"downloading", "completing"} =>
    \A i \in DOMAIN snap[w] :
      LET u == snap[w][i].url IN
      \/ i \in DOMAIN records /\ records[i].completed
      \/ u \in todo[w]
      \/ items[w][u] \in {"partial", "failed"}
      \/ Completing(w, u)

\* The inductive invariant.
Inv ==
  /\ TypeOK /\ FeedHeld /\ IdleIsClean /\ Recorded /\ CurrentEarned /\ ItemsSettled
  /\ TodoInRound /\ RoundsLeft /\ Accounted /\ CompletedWasEarned /\ SharedUrlAgrees /\ LedgerPerItem

----------------------------------------------------------------------------
(* Selection *)

\* The records a preparation writes: a candidate is completed exactly when it
\* is not selected, and then it was completed before.
LEMMA MergedRecords ==
  ASSUME NEW previous, NEW S, IsSnapshot(S), NEW all \in BOOLEAN
  PROVE  /\ DOMAIN Merged(previous, S, all) = DOMAIN S
         /\ \A i \in DOMAIN S :
              LET r == Merged(previous, S, all)[i] IN
              /\ r.url = S[i].url /\ r.rev = S[i].rev
              /\ r.completed <=> r.url \notin Selected(previous, S, all)
              /\ r.completed => StillComplete(previous, S, i)
  BY DEF Merged, Selected, IsSnapshot

\* They have their type when the previous ones have.
LEMMA MergedType ==
  ASSUME NEW previous, NEW S, IsSnapshot(S), NEW all \in BOOLEAN,
         \A i \in DOMAIN previous : previous[i] \in Record
  PROVE  \A i \in DOMAIN S : Merged(previous, S, all)[i] \in Record
<1>1. ASSUME NEW i \in DOMAIN S PROVE StillComplete(previous, S, i) \in BOOLEAN
  BY DEF StillComplete, Changed, Record
<1> QED
  BY <1>1 DEF Merged, IsSnapshot, Record

----------------------------------------------------------------------------
(* Inductive invariant *)

\* Nothing is recorded and nobody runs at the start.
LEMMA InitInv == Init => Inv
  BY WorkflowAssumption
  DEF Init, Inv, TypeOK, FeedHeld, IdleIsClean, Recorded, CurrentEarned, ItemsSettled, TodoInRound,
      RoundsLeft, Accounted, CompletedWasEarned, SharedUrlAgrees, LedgerPerItem, Empty, IsSnapshot,
      Phases, Statuses, Exits

\* The download of a URL publishes its item; what workflow.json holds stays.
LEMMA DownloadInv ==
  ASSUME Inv, NEW w \in Runs, DownloadSucceeds(w) \/ DownloadFails(w) \/ DownloadStops(w)
  PROVE  Inv'
<1> USE WorkflowAssumption
<1>1. PICK u \in todo[w], status \in {"success", "partial", "failed", "unprocessed"}, retry \in BOOLEAN :
        Publish(w, u, status, retry)
  BY DEF DownloadSucceeds, DownloadFails, DownloadStops
<1>2. u \in Urls
  BY DEF Inv, TypeOK
<1>3. TypeOK'
  <2>1. items' \in [Runs -> [Urls -> Statuses]] /\ ledger' \in [Runs -> [Urls -> BOOLEAN \cup {None}]]
    BY <1>1, <1>2 DEF Inv, TypeOK, Publish, Statuses
  <2>2. CASE DownloadSucceeds(w)
    BY <2>1, <2>2 DEF DownloadSucceeds, Inv, TypeOK, Goto, Phases, Candidate, IsSnapshot
  <2>3. CASE DownloadFails(w)
    BY <2>1, <2>3 DEF DownloadFails, Inv, TypeOK
  <2>4. CASE DownloadStops(w)
    <3>1. exit' \in [Runs -> Exits] /\ phase' \in [Runs -> Phases]
      BY <2>4 DEF DownloadStops, Stop, Goto, Interruptions, Exits, Phases, Inv, TypeOK
    <3>2. todo' \in [Runs -> SUBSET Urls]
      BY <2>4 DEF DownloadStops, Inv, TypeOK
    <3> QED
      BY <2>1, <2>4, <3>1, <3>2 DEF DownloadStops, Inv, TypeOK
  <2> QED
    BY <2>2, <2>3, <2>4
<1>4. LedgerPerItem'
  <2>1. items' = [items EXCEPT ![w][u] = status] /\ ledger' = [ledger EXCEPT ![w][u] = retry]
    BY <1>1 DEF Publish
  <2> QED
    BY <2>1, <1>2 DEF Inv, TypeOK, LedgerPerItem
<1>5. SharedUrlAgrees'
  <2>1. records' = records
    BY DEF DownloadSucceeds, DownloadFails, DownloadStops
  <2> QED
    BY <2>1 DEF Inv, SharedUrlAgrees
<1> USE DEF Inv, FeedHeld, Completing, Goto, Stop, Interruptions, Publish, TypeOK
<1>6. CASE DownloadSucceeds(w)
  <2> USE <1>6 DEF DownloadSucceeds
  <2>1. (FeedHeld /\ TodoInRound /\ RoundsLeft)'
    BY DEF TodoInRound, RoundsLeft
  <2>2. IdleIsClean'
    BY DEF IdleIsClean
  <2>3. Recorded'
    BY DEF Recorded
  <2>4. CurrentEarned'
    BY DEF CurrentEarned, IsSnapshot
  <2>5. CompletedWasEarned'
    BY DEF CompletedWasEarned
  <2>6. ItemsSettled'
    BY DEF ItemsSettled, Statuses
  <2>7. Accounted'
    BY DEF Accounted, Recorded
  <2> QED
    BY <1>3, <1>4, <1>5, <2>1, <2>2, <2>3, <2>4, <2>5, <2>6, <2>7
<1>7. CASE DownloadFails(w)
  <2> USE <1>7 DEF DownloadFails
  <2>1. (FeedHeld /\ TodoInRound /\ RoundsLeft)'
    BY DEF TodoInRound, RoundsLeft
  <2>2. IdleIsClean'
    BY DEF IdleIsClean
  <2>3. (Recorded /\ CurrentEarned /\ CompletedWasEarned)'
    BY DEF Recorded, CurrentEarned, CompletedWasEarned
  <2>4. ItemsSettled'
    BY DEF ItemsSettled, Statuses
  <2>5. Accounted'
    BY DEF Accounted, Recorded
  <2> QED
    BY <1>3, <1>4, <1>5, <2>1, <2>2, <2>3, <2>4, <2>5
<1>8. CASE DownloadStops(w)
  <2> USE <1>8 DEF DownloadStops
  <2>1. (FeedHeld /\ TodoInRound /\ RoundsLeft)'
    BY DEF TodoInRound, RoundsLeft
  <2>2. IdleIsClean'
    BY DEF IdleIsClean
  <2>3. Recorded'
    BY DEF Recorded
  <2>4. CurrentEarned'
    <3>1. phase' = [phase EXCEPT ![w] = "leaving"] /\ \A v \in Runs : v # w => phase[v] = "idle"
      OBVIOUS
    <3>2. \A v \in Runs : phase'[v] # "completing"
      BY <3>1
    <3> QED
      BY <3>2 DEF CurrentEarned
  <2>5. CompletedWasEarned'
    BY DEF CompletedWasEarned
  <2>6. ItemsSettled'
    BY DEF ItemsSettled, Statuses
  <2>7. Accounted'
    BY DEF Accounted, Recorded
  <2> QED
    BY <1>3, <1>4, <1>5, <2>1, <2>2, <2>3, <2>4, <2>5, <2>6, <2>7
<1> QED
  BY <1>6, <1>7, <1>8

\* A completion marks candidates that were downloaded as they are recorded.
LEMMA CompleteInv ==
  ASSUME Inv, NEW w \in Runs, Complete(w)
  PROVE  Inv'
<1> USE WorkflowAssumption
<1>1. /\ DOMAIN records' = DOMAIN records
      /\ \A i \in DOMAIN records :
           /\ records'[i] \in Record
           /\ records'[i].url = records[i].url /\ records'[i].rev = records[i].rev
           /\ records'[i].completed <=> records[i].completed \/ records[i].url = current[w]
  BY DEF Complete, Inv, TypeOK, Record
<1>2. /\ phase[w] = "completing" /\ feedLock = w
      /\ \A v \in Runs : v # w => phase[v] = "idle"
      /\ \A v \in Runs : v # w => phase'[v] = "idle"
      /\ phase'[w] \in {"downloading", "leaving"}
  BY DEF Complete, Inv, FeedHeld, TypeOK, Goto, Stop
<1>3. TypeOK'
  <2>1. exit' \in [Runs -> Exits] /\ phase' \in [Runs -> Phases] /\ current' \in [Runs -> Urls \cup {None}]
    BY DEF Complete, Stop, Goto, Interruptions, Exits, Phases, Inv, TypeOK
  <2> QED
    BY <1>1, <2>1 DEF Complete, Inv, TypeOK
<1>4. CompletedWasEarned'
  <2> SUFFICES ASSUME NEW i \in DOMAIN records, records'[i].completed
               PROVE  [id |-> i, url |-> records[i].url, rev |-> records[i].rev] \in earned
    BY <1>1 DEF CompletedWasEarned, Complete
  <2>1. CASE records[i].completed
    BY <2>1 DEF Inv, CompletedWasEarned
  <2>2. CASE records[i].url = current[w]
    BY <1>2, <2>2 DEF Inv, Recorded, CurrentEarned
  <2> QED
    BY <1>1, <2>1, <2>2
<1>5. SharedUrlAgrees'
  <2> SUFFICES ASSUME NEW i \in DOMAIN records, NEW j \in DOMAIN records, records[i].url = records[j].url
               PROVE  records'[i].completed = records'[j].completed
    BY <1>1 DEF SharedUrlAgrees
  <2>1. records[i].completed = records[j].completed
    BY DEF Inv, SharedUrlAgrees
  <2>2. records'[i].completed <=> records'[j].completed
    BY <1>1, <2>1
  <2>3. records'[i].completed \in BOOLEAN /\ records'[j].completed \in BOOLEAN
    BY <1>1 DEF Record
  <2> QED
    BY <2>2, <2>3
<1> USE DEF Inv, TypeOK
<1>6. (FeedHeld /\ IdleIsClean /\ LedgerPerItem)'
  BY <1>2 DEF Complete, FeedHeld, IdleIsClean, LedgerPerItem
<1>7. (TodoInRound /\ RoundsLeft /\ CurrentEarned)'
  BY <1>2 DEF Complete, TodoInRound, RoundsLeft, CurrentEarned
<1>8. Recorded'
  <2>1. snap' = snap
    BY DEF Complete
  <2>2. /\ DOMAIN records = DOMAIN snap[w]
        /\ \A i \in DOMAIN records : records[i].url = snap[w][i].url /\ records[i].rev = snap[w][i].rev
    BY <1>2 DEF Recorded
  <2> HIDE DEF Inv, TypeOK
  <2> SUFFICES ASSUME NEW v \in Runs, phase'[v] \in {"downloading", "completing", "waiting"}
               PROVE  /\ DOMAIN records' = DOMAIN snap[v]
                      /\ \A i \in DOMAIN records' :
                           records'[i].url = snap[v][i].url /\ records'[i].rev = snap[v][i].rev
    BY <2>1 DEF Recorded
  <2>3. v = w
    BY <1>2
  <2> QED
    BY <1>1, <2>2, <2>3
<1>9. ItemsSettled'
  BY <1>1, <1>2 DEF Complete, ItemsSettled, Completing, IdleIsClean
<1>10. Accounted'
  BY <1>1, <1>2 DEF Complete, Accounted, Completing, Recorded
<1> QED
  BY <1>3, <1>4, <1>5, <1>6, <1>7, <1>8, <1>9, <1>10

\* Prepare writes what its transaction decided: nothing of the other runs, which
\* are idle, and nothing completed that was not earned.
LEMMA PrepareInv ==
  ASSUME Inv, NEW w \in Runs, Prepare(w)
  PROVE  Inv'
<1> USE WorkflowAssumption
<1> DEFINE S == snap[w]
           all == SelectsAll(w)
           chosen == Chosen(w, all)
<1>1. /\ phase[w] = "preparing" /\ feedLock = w
      /\ \A v \in Runs : v # w => phase[v] = "idle" /\ phase'[v] = "idle"
      /\ phase'[w] \in {"downloading", "leaving"}
      /\ snap' = snap /\ feedLock' = feedLock /\ round' = round
  BY DEF Prepare, Inv, FeedHeld, TypeOK, Goto
<1>2. /\ IsSnapshot(S) /\ all \in BOOLEAN
      /\ \A i \in DOMAIN records : records[i] \in Record
  BY DEF Inv, TypeOK, SelectsAll
<1>3. /\ DOMAIN records' = DOMAIN S
      /\ \A i \in DOMAIN S :
           /\ records'[i] \in Record
           /\ records'[i].url = S[i].url /\ records'[i].rev = S[i].rev
           /\ records'[i].completed <=> S[i].url \notin Selected(records, S, all)
           /\ records'[i].completed => StillComplete(records, S, i)
  <2>1. records' = Merged(records, S, all)
    BY DEF Prepare
  <2> HIDE DEF all, S
  <2>2. \A i \in DOMAIN S : Merged(records, S, all)[i] \in Record
    BY <1>2, MergedType
  <2>3. /\ DOMAIN Merged(records, S, all) = DOMAIN S
        /\ \A i \in DOMAIN S :
             LET r == Merged(records, S, all)[i] IN
             /\ r.url = S[i].url /\ r.rev = S[i].rev
             /\ r.completed <=> r.url \notin Selected(records, S, all)
             /\ r.completed => StillComplete(records, S, i)
    BY <1>2, MergedRecords
  <2> QED
    BY <2>1, <2>2, <2>3
<1>4. chosen \subseteq Selected(records, S, all) /\ Selected(records, S, all) \subseteq Present(w)
      /\ Present(w) \subseteq Urls
  BY <1>2 DEF Chosen, Selected, Present, IsSnapshot
<1>5. /\ todo' = [todo EXCEPT ![w] = chosen]
      /\ \A u \in Urls : items'[w][u] = IF u \in chosen THEN "unprocessed"
                                        ELSE IF IsItem(w, u) /\ u \notin Present(w) THEN "removed"
                                        ELSE items[w][u]
      /\ \A u \in Urls : ledger'[w][u] = IF u \in chosen /\ ~IsItem(w, u) THEN FALSE
                                         ELSE IF IsItem(w, u) /\ u \notin Present(w) THEN None
                                         ELSE ledger[w][u]
      /\ \A v \in Runs : v # w => items'[v] = items[v] /\ ledger'[v] = ledger[v]
      /\ items' \in [Runs -> [Urls -> Statuses]]
      /\ ledger' \in [Runs -> [Urls -> BOOLEAN \cup {None}]]
  <2>1. items' = [items EXCEPT ![w] = [u \in Urls |->
                    IF u \in chosen THEN "unprocessed"
                    ELSE IF IsItem(w, u) /\ u \notin Present(w) THEN "removed" ELSE @[u]]]
    BY DEF Prepare
  <2>2. ledger' = [ledger EXCEPT ![w] = PreparedLedger(w, chosen)] /\ todo' = [todo EXCEPT ![w] = chosen]
    BY DEF Prepare
  <2> HIDE DEF chosen, all, S
  <2>3. items \in [Runs -> [Urls -> Statuses]] /\ ledger \in [Runs -> [Urls -> BOOLEAN \cup {None}]]
    BY DEF Inv, TypeOK
  <2>4. [u \in Urls |-> IF u \in chosen THEN "unprocessed"
                        ELSE IF IsItem(w, u) /\ u \notin Present(w) THEN "removed" ELSE items[w][u]]
          \in [Urls -> Statuses]
    BY <2>3 DEF Statuses
  <2>5. PreparedLedger(w, chosen) \in [Urls -> BOOLEAN \cup {None}]
    BY <2>3 DEF PreparedLedger
  <2>6. items' \in [Runs -> [Urls -> Statuses]] /\ ledger' \in [Runs -> [Urls -> BOOLEAN \cup {None}]]
    BY <2>1, <2>2, <2>3, <2>4, <2>5
  <2>7. \A v \in Runs : v # w => items'[v] = items[v] /\ ledger'[v] = ledger[v]
    BY <2>1, <2>2, <2>3
  <2>8. \A u \in Urls : items'[w][u] = IF u \in chosen THEN "unprocessed"
                                       ELSE IF IsItem(w, u) /\ u \notin Present(w) THEN "removed"
                                       ELSE items[w][u]
    BY <2>1, <2>3
  <2>9. \A u \in Urls : ledger'[w][u] = PreparedLedger(w, chosen)[u]
    BY <2>2, <2>3
  <2> QED
    BY <2>2, <2>6, <2>7, <2>8, <2>9 DEF PreparedLedger
<1>6. ASSUME NEW u \in Urls, u \notin chosen, items[w][u] = "success"
      PROVE  u \notin Selected(records, S, all)
  <2>1. SUFFICES ASSUME u \in Selected(records, S, all)
                 PROVE  FALSE
    OBVIOUS
  <2>2. OnlyUnfinished(records, S, all, u)
    BY <1>6, <2>1 DEF Chosen
  <2>3. PICK i \in DOMAIN S : S[i].url = u /\ ~StillComplete(records, S, i)
    BY <2>1, <2>2 DEF Selected, OnlyUnfinished
  <2>4. i \in DOMAIN records /\ records[i].url = u /\ ~records[i].completed
    BY <2>2, <2>3 DEF OnlyUnfinished, StillComplete, Changed
  <2> QED
    BY <1>1, <1>6, <2>4 DEF Inv, ItemsSettled, Completing
<1>7. TypeOK'
  <2>1. exit' \in [Runs -> Exits] /\ phase' \in [Runs -> Phases]
    BY DEF Prepare, Goto, Interruptions, Exits, Phases, Inv, TypeOK
  <2>2. todo' \in [Runs -> SUBSET Urls] /\ earned' \subseteq Candidate
    BY <1>4, <1>5 DEF Inv, TypeOK, Prepare
  <2>3. DOMAIN records' \subseteq Ids /\ \A i \in DOMAIN records' : records'[i] \in Record
    BY <1>2, <1>3 DEF IsSnapshot
  <2>4. UNCHANGED <<updates, feedLock, scope, round, snap, current>>
    BY DEF Prepare
  <2> QED
    BY <1>5, <2>1, <2>2, <2>3, <2>4 DEF Inv, TypeOK
<1> HIDE DEF chosen, all, S
<1>8. (FeedHeld /\ TodoInRound /\ RoundsLeft /\ CurrentEarned)'
  BY <1>1, <1>5 DEF FeedHeld, TodoInRound, RoundsLeft, CurrentEarned, Inv, TypeOK
<1>9. IdleIsClean'
  BY <1>1, <1>5 DEF IdleIsClean, Inv, TypeOK
<1>10. Recorded'
  BY <1>1, <1>3 DEF Recorded, S
<1>11. CompletedWasEarned'
  <2>1. earned' = earned \cap {[id |-> i, url |-> S[i].url, rev |-> S[i].rev] : i \in DOMAIN S}
    BY DEF Prepare, S
  <2>2. ASSUME NEW i \in DOMAIN S, records'[i].completed
        PROVE  [id |-> i, url |-> S[i].url, rev |-> S[i].rev] \in earned
    BY <1>3, <2>2 DEF StillComplete, Changed, Inv, CompletedWasEarned
  <2> QED
    BY <1>3, <2>1, <2>2 DEF CompletedWasEarned
<1>12. SharedUrlAgrees'
  <2> SUFFICES ASSUME NEW i \in DOMAIN S, NEW j \in DOMAIN S, S[i].url = S[j].url
               PROVE  records'[i].completed = records'[j].completed
    BY <1>3 DEF SharedUrlAgrees
  <2>1. records'[i].completed <=> records'[j].completed
    BY <1>3
  <2>2. records'[i].completed \in BOOLEAN /\ records'[j].completed \in BOOLEAN
    BY <1>3 DEF Record
  <2> QED
    BY <2>1, <2>2
<1>13. LedgerPerItem'
  <2>1. ASSUME NEW u \in Urls
        PROVE  ledger'[w][u] = None <=> items'[w][u] \in {"none", "removed"}
    <3>1. ledger[w][u] = None <=> ~IsItem(w, u)
      BY DEF Inv, LedgerPerItem, IsItem
    <3>2. CASE u \in chosen
      BY <1>4, <1>5, <3>1, <3>2
    <3>3. CASE u \notin chosen
      BY <1>5, <3>1, <3>3 DEF IsItem
    <3> QED
      BY <3>2, <3>3
  <2>2. ASSUME NEW v \in Runs, v # w, NEW u \in Urls
        PROVE  ledger'[v][u] = None <=> items'[v][u] \in {"none", "removed"}
    BY <1>5, <2>2 DEF Inv, LedgerPerItem
  <2> QED
    BY <2>1, <2>2 DEF LedgerPerItem
<1>14. ItemsSettled'
  <2>1. ASSUME NEW u \in Urls, items'[w][u] = "success"
        PROVE  u \notin Selected(records, S, all)
    BY <1>5, <1>6, <2>1 DEF IsItem
  <2>2. ASSUME NEW u \in Urls, items'[w][u] = "unprocessed"
        PROVE  u \in todo'[w]
    <3>1. u \in chosen
      BY <1>1, <1>5, <2>2 DEF Inv, ItemsSettled, TodoInRound
    <3> QED
      BY <1>5, <3>1 DEF Inv, TypeOK
  <2>3. ASSUME NEW v \in Runs, v # w, NEW u \in Urls
        PROVE  items'[v][u] = "none"
    BY <1>1, <1>5, <2>3 DEF Inv, IdleIsClean
  <2> QED
    BY <1>3, <2>1, <2>2, <2>3 DEF ItemsSettled
<1>15. Accounted'
  <2> SUFFICES ASSUME NEW i \in DOMAIN S, phase'[w] = "downloading"
               PROVE  \/ records'[i].completed
                      \/ S[i].url \in todo'[w]
                      \/ items'[w][S[i].url] \in {"partial", "failed"}
    BY <1>1, <1>3 DEF Accounted, S
  <2> DEFINE u == S[i].url
  <2>1. u \in Urls /\ u \in Present(w)
    BY <1>2 DEF IsSnapshot, Present, S
  <2>2. CASE u \notin Selected(records, S, all)
    BY <1>3, <2>2
  <2>3. CASE u \in chosen
    BY <1>5, <2>3 DEF Inv, TypeOK
  <2>4. CASE u \in Selected(records, S, all) /\ u \notin chosen
    <3>1. items[w][u] \notin {"none", "removed"}
      BY <2>4 DEF Chosen, chosen, S
    <3>2. items[w][u] # "success"
      BY <1>6, <2>1, <2>4
    <3>3. items[w][u] # "unprocessed"
      BY <1>1, <2>1 DEF Inv, ItemsSettled, TodoInRound
    <3>4. items[w][u] \in Statuses
      BY <2>1 DEF Inv, TypeOK
    <3>5. items'[w][u] = items[w][u]
      BY <1>5, <2>1, <2>4
    <3> QED
      BY <3>1, <3>2, <3>3, <3>4, <3>5 DEF Statuses
  <2> QED
    BY <2>2, <2>3, <2>4
<1> QED
  BY <1>7, <1>8, <1>9, <1>10, <1>11, <1>12, <1>13, <1>14, <1>15 DEF Inv

\* The other steps of a running workflow change neither workflow.json nor, but
\* for the snapshot before a preparation, what the run knows of its candidates.
LEMMA QuietInv ==
  ASSUME Inv, NEW w \in Runs,
         \/ AcquireFeed(w) \/ Validate(w) \/ ValidateFails(w) \/ Check(w) \/ CheckFails(w)
         \/ PrepareFails(w) \/ CompleteFails(w) \/ RoundEnds(w) \/ NextRound(w) \/ InterruptWait(w)
  PROVE  Inv'
<1> USE WorkflowAssumption
<1>1. PICK p \in Phases \ {"idle"} :
        /\ phase' = [phase EXCEPT ![w] = p]
        /\ p \in {"downloading", "completing"} => FALSE
        /\ p = "preparing" => phase[w] = "checking"
        /\ p = "waiting" => phase[w] = "downloading" /\ todo[w] = {} /\ round[w] < Retries /\ UNCHANGED snap
        /\ p = "checking" => phase[w] \in {"validating", "waiting"}
        /\ p = "validating" => phase[w] = "idle"
        /\ phase[w] = "leaving" => FALSE
        /\ phase[w] = "completing" => p = "leaving"
  <2> USE DEF Phases, Goto, Stop
  <2>1. CASE AcquireFeed(w) \/ Validate(w) \/ ValidateFails(w) \/ InterruptWait(w)
    BY <2>1 DEF AcquireFeed, Validate, ValidateFails, InterruptWait
  <2>2. CASE Check(w) \/ CheckFails(w) \/ NextRound(w)
    BY <2>2 DEF Check, CheckFails, NextRound
  <2>3. CASE PrepareFails(w) \/ CompleteFails(w)
    BY <2>3 DEF PrepareFails, CompleteFails
  <2>4. CASE RoundEnds(w)
    BY <2>4 DEF RoundEnds
  <2> QED
    BY <2>1, <2>2, <2>3, <2>4
<1>2. UNCHANGED <<records, earned, items, ledger, todo>>
  BY DEF AcquireFeed, Validate, ValidateFails, Check, CheckFails, PrepareFails, CompleteFails,
         RoundEnds, NextRound, InterruptWait
<1>3. feedLock' = w /\ \A v \in Runs : v # w => phase[v] = "idle"
  <2>1. CASE AcquireFeed(w)
    BY <2>1 DEF AcquireFeed, Inv, FeedHeld
  <2>2. CASE phase[w] # "idle" /\ UNCHANGED feedLock
    BY <2>2 DEF Inv, FeedHeld
  <2> QED
    BY <2>1, <2>2 DEF Validate, ValidateFails, Check, CheckFails, PrepareFails, CompleteFails,
                      RoundEnds, NextRound, InterruptWait
<1>4. phase \in [Runs -> Phases]
  BY DEF Inv, TypeOK
<1>5. phase'[w] = p /\ \A v \in Runs : v # w => phase'[v] = "idle"
  BY <1>1, <1>3, <1>4
<1>6. TypeOK'
  <2> USE DEF Inv, TypeOK, Goto, Stop, Interruptions, Exits
  <2>1. phase' \in [Runs -> Phases]
    BY <1>1
  <2>2. CASE AcquireFeed(w)
    BY <2>1, <2>2 DEF AcquireFeed
  <2>3. CASE Validate(w) \/ ValidateFails(w)
    BY <2>1, <2>3 DEF Validate, ValidateFails
  <2>4. CASE Check(w)
    BY <2>1, <2>4 DEF Check
  <2>5. CASE CheckFails(w)
    BY <2>1, <2>5 DEF CheckFails
  <2>6. CASE PrepareFails(w)
    BY <2>1, <2>6 DEF PrepareFails
  <2>7. CASE CompleteFails(w)
    BY <2>1, <2>7 DEF CompleteFails
  <2>8. CASE RoundEnds(w)
    BY <2>1, <2>8 DEF RoundEnds
  <2>9. CASE NextRound(w)
    BY <2>1, <2>9 DEF NextRound, RoundsLeft
  <2>10. CASE InterruptWait(w)
    BY <2>1, <2>10 DEF InterruptWait
  <2> QED
    BY <2>2, <2>3, <2>4, <2>5, <2>6, <2>7, <2>8, <2>9, <2>10
<1>7. (FeedHeld /\ IdleIsClean)'
  BY <1>2, <1>3, <1>1, <1>5 DEF Inv, FeedHeld, IdleIsClean
<1>8. TodoInRound'
  <2>1. p \notin {"downloading", "completing", "leaving"} => todo[w] = {}
    BY <1>1 DEF Phases, Inv, TodoInRound
  <2>2. \A v \in Runs : v # w => todo[v] = {}
    BY <1>3 DEF Inv, IdleIsClean
  <2> QED
    BY <1>2, <1>5, <2>1, <2>2 DEF TodoInRound
<1>9. RoundsLeft'
  <2>1. CASE p = "waiting"
    <3>1. UNCHANGED round
      BY <1>5, <2>1, <1>4, <1>1 DEF AcquireFeed, Validate, ValidateFails, Check, CheckFails,
         PrepareFails,
         CompleteFails, RoundEnds, NextRound, InterruptWait
    <3> QED
      BY <1>1, <1>5, <2>1, <3>1 DEF RoundsLeft
  <2>2. CASE p # "waiting"
    BY <1>5, <2>2 DEF RoundsLeft
  <2> QED
    BY <2>1, <2>2
<1>10. ItemsSettled'
  BY <1>1, <1>2, <1>3, <1>5 DEF Inv, ItemsSettled, Completing, IdleIsClean
<1>11. Recorded'
  BY <1>1, <1>2, <1>5 DEF Inv, Recorded
<1>12. (CurrentEarned /\ Accounted)'
  BY <1>1, <1>5 DEF CurrentEarned, Accounted
<1>13. (CompletedWasEarned /\ SharedUrlAgrees /\ LedgerPerItem)'
  BY <1>2 DEF Inv, CompletedWasEarned, SharedUrlAgrees, LedgerPerItem
<1> QED
  BY <1>6, <1>7, <1>8, <1>9, <1>10, <1>11, <1>12, <1>13 DEF Inv

\* A run that ends, whatever the reason, forgets everything.
LEMMA EndInv ==
  ASSUME Inv, NEW w \in Runs, Leave(w) \/ Crash(w)
  PROVE  Inv'
<1> USE WorkflowAssumption
<1>1. /\ phase[w] # "idle" /\ feedLock' = None /\ Forget(w)
      /\ UNCHANGED <<records, updates, earned>>
  BY DEF Leave, Crash
<1> USE DEF Inv, TypeOK, FeedHeld
<1>2. /\ phase' = [phase EXCEPT ![w] = "idle"]
      /\ items' = [items EXCEPT ![w] = [u \in Urls |-> "none"]]
      /\ ledger' = [ledger EXCEPT ![w] = [u \in Urls |-> None]]
      /\ todo' = [todo EXCEPT ![w] = {}]
      /\ \A v \in Runs : v # w => phase'[v] = "idle"
  BY <1>1 DEF Forget, Goto
<1>3. TypeOK'
  BY <1>1 DEF Forget, Goto, Phases, Statuses, Exits, Empty, IsSnapshot
<1>4. FeedHeld'
  BY <1>1, <1>2
<1>5. IdleIsClean'
  BY <1>2 DEF IdleIsClean
<1>6. \A v \in Runs : phase'[v] = "idle"
  BY <1>2
<1>7. (Recorded /\ CurrentEarned /\ TodoInRound /\ RoundsLeft /\ Accounted)'
  BY <1>5, <1>6 DEF Recorded, CurrentEarned, TodoInRound, RoundsLeft, Accounted, IdleIsClean
<1>8. ItemsSettled'
  BY <1>5, <1>6 DEF ItemsSettled, IdleIsClean
<1>9. LedgerPerItem'
  BY <1>2 DEF LedgerPerItem
<1>10. (CompletedWasEarned /\ SharedUrlAgrees)'
  BY <1>1 DEF CompletedWasEarned, SharedUrlAgrees
<1> QED
  BY <1>3, <1>4, <1>5, <1>7, <1>8, <1>9, <1>10

\* Every step keeps the invariant.
LEMMA NextInv == Inv /\ [Next]_vars => Inv'
<1> SUFFICES ASSUME Inv, [Next]_vars
             PROVE  Inv'
  OBVIOUS
<1>1. ASSUME NEW w \in Runs, AcquireFeed(w) \/ RunStep(w) \/ Crash(w)
      PROVE  Inv'
  BY <1>1, DownloadInv, CompleteInv, PrepareInv, QuietInv, EndInv DEF RunStep
<1>2. CASE CheckUpdates \/ UNCHANGED vars
  <2>1. UNCHANGED <<records, earned, feedLock, run>> /\ IsSnapshot(updates')
    BY <1>2, WorkflowAssumption DEF CheckUpdates, vars, Inv, TypeOK
  <2> QED
    BY <2>1 DEF run, Inv, TypeOK, FeedHeld, IdleIsClean, Recorded, CurrentEarned, ItemsSettled,
       Completing,
         TodoInRound, RoundsLeft, Accounted, CompletedWasEarned, SharedUrlAgrees, LedgerPerItem
<1> QED
  BY <1>1, <1>2 DEF Next

----------------------------------------------------------------------------
(* Results *)

\* The inductive invariant holds throughout.
THEOREM Invariance == Spec => []Inv
  BY InitInv, NextInv, PTL DEF Spec

\* Every variable keeps its type: the round never passes workflow_retries, the
\* statuses and phases are those of the code.
THEOREM TypeCorrect == Spec => []TypeOK
<1>1. Inv => TypeOK
  BY DEF Inv
<1> QED
  BY <1>1, Invariance, PTL

\* workflow.json never claims a completion nobody earned (complete, prepare).
THEOREM CompletionsAreEarned == Spec => []CompletedWasEarned
<1>1. Inv => CompletedWasEarned
  BY DEF Inv
<1> QED
  BY <1>1, Invariance, PTL

\* Candidates with one URL are completed together (select_candidates, complete).
THEOREM SharedUrlsAgree == Spec => []SharedUrlAgrees
<1>1. Inv => SharedUrlAgrees
  BY DEF Inv
<1> QED
  BY <1>1, Invariance, PTL

\* pending() and prepare() always find the ledger they index.
THEOREM LedgersExist == Spec => []LedgerPerItem
<1>1. Inv => LedgerPerItem
  BY DEF Inv
<1> QED
  BY <1>1, Invariance, PTL

\* When a round has nothing left to do every candidate is completed or failed.
THEOREM NothingIsSkipped == Spec => []NothingSkipped
<1>1. Inv => NothingSkipped
  BY DEF Inv, Accounted, NothingSkipped, Completing
<1> QED
  BY <1>1, Invariance, PTL

\* A retry round takes a completion back only where the feed has changed.
THEOREM RetriesKeep == Spec => RetriesKeepCompletions
<1> DEFINE Kept == \A w \in Runs : phase[w] = "preparing" /\ round[w] > 0 /\ records' # records =>
              \A i \in DOMAIN records \cap DOMAIN records' :
                records[i].completed /\ ~records'[i].completed =>
                  \E j \in DOMAIN records' : records'[j].url = records'[i].url
                                             /\ Changed(records, snap[w], j)
<1>1. ASSUME Inv, Next
      PROVE  Kept
  <2> SUFFICES ASSUME NEW w \in Runs, phase[w] = "preparing", round[w] > 0, records' # records,
                      NEW i \in DOMAIN records \cap DOMAIN records',
                      records[i].completed, ~records'[i].completed
               PROVE  \E j \in DOMAIN records' : records'[j].url = records'[i].url
                                                 /\ Changed(records, snap[w], j)
    OBVIOUS
  <2>1. PICK v \in Runs : Prepare(v) \/ Complete(v)
    BY <1>1 DEF Next, RunStep, AcquireFeed, Crash, CheckUpdates, Validate, ValidateFails, Check,
       CheckFails,
                PrepareFails, DownloadSucceeds, DownloadFails, DownloadStops, CompleteFails, RoundEnds,
                NextRound, InterruptWait, Leave
  <2>2. phase[v] # "idle"
    BY <2>1 DEF Prepare, Complete
  <2>3. v = w
    BY <1>1, <2>2 DEF Inv, FeedHeld
  <2>4. Prepare(w)
    BY <2>1, <2>3 DEF Complete
  <2> DEFINE S == snap[w]
  <2>5. records' = Merged(records, S, FALSE)
    <3>1. SelectsAll(w) = FALSE
      BY <1>1 DEF SelectsAll, Inv, TypeOK
    <3>2. records' = Merged(records, S, SelectsAll(w))
      BY <2>4 DEF Prepare
    <3> QED
      BY <3>1, <3>2
  <2>6. IsSnapshot(S)
    BY <1>1 DEF Inv, TypeOK
  <2> HIDE DEF S
  <2>7. /\ DOMAIN records' = DOMAIN S
        /\ \A j \in DOMAIN S : records'[j].url = S[j].url
        /\ \A j \in DOMAIN S : records'[j].completed <=> S[j].url \notin Selected(records, S, FALSE)
    BY <2>5, <2>6, MergedRecords
  <2>8. PICK j \in DOMAIN S : S[j].url = S[i].url /\ ~StillComplete(records, S, j)
    BY <2>7 DEF Selected
  <2>9. CASE Changed(records, S, j)
    BY <2>7, <2>8, <2>9 DEF S
  <2>10. CASE ~Changed(records, S, j)
    <3>1. j \in DOMAIN records /\ records[j].url = S[i].url /\ ~records[j].completed
      BY <2>8, <2>10 DEF StillComplete, Changed
    <3>2. records[i].url # S[i].url
      BY <1>1, <3>1 DEF Inv, SharedUrlAgrees
    <3>3. Changed(records, S, i)
      BY <3>2 DEF Changed
    <3> QED
      BY <2>7, <3>3 DEF S
  <2> QED
    BY <2>9, <2>10
<1>2. Inv /\ [Next]_vars => [Kept]_vars
  BY <1>1
<1> QED
  BY <1>2, Invariance, PTL DEF Spec, RetriesKeepCompletions
-----------------------------------------------------------------------------
(* A developer's command and its worker (DevSession).                        *)

Replies == [of : Nat \cup {None}, ok : BOOLEAN, code : Nat]

Leaving == {"leave", "wait", "terminate", "kill", "drain"}

SessionTyped ==
  /\ command \in {"call", "session"}
  /\ client \in {"start", "prompt", "reply", "ended"} \cup Leaving
  /\ input \in Seq({"use", "simulate", "reload", "quit"})
  /\ worker \in {"open", "idle", "use", "simulate", "cleanup", "service", "over", "gone"}
  /\ closing \in {"reload", "end", None}
  /\ serving \in Nat /\ broken \in BOOLEAN
  /\ sent \in Seq(Replies) /\ channel \in Seq(Replies) /\ shown \in Seq(Replies)
  /\ \A i \in DOMAIN sent : sent[i].ok <=> sent[i].code = 0

\* Until one fails that ends the worker, its replies are one for each request,
\* and one before them.
Served ==
  /\ worker = "idle" => Len(sent) = serving + 1
  /\ worker \in {"open", "use", "simulate"} => Len(sent) = serving
  /\ worker \in {"cleanup", "service"} =>
       closing = "end" \/ (closing = "reload" /\ Len(sent) = serving)
  /\ \A i \in DOMAIN sent : sent[i].ok => sent[i].of = i - 1

\* Who is past its cleanup has done it or has told that it failed.
CleanedUp ==
  /\ worker \in {"service", "over"} => ~instance
  /\ worker = "over" => service # "open" \/ Session!Failures(sent) # {}
  /\ worker = "gone" /\ ~killed => ~instance /\ (service # "open" \/ Session!Failures(sent) # {})

Received == Len(sent) - Len(channel)

\* What was sent is what was received, the first reply and those shown, and what
\* is in the channel.
Delivered ==
  /\ \A n \in 1..Len(shown) : n + 1 <= Len(sent) /\ shown[n] = sent[n + 1]
  /\ client # "ended" =>
       /\ Len(channel) <= Len(sent)
       /\ \A j \in 1..Len(channel) : channel[j] = sent[Received + j]
       /\ Len(shown) = IF Received = 0 THEN 0 ELSE Received - 1
  /\ client = "start" => Received = 0
  /\ client \in {"prompt", "reply"} => Received > 0 /\ sent[1].ok

\* With what a command leaves.
Judged ==
  /\ command = "call" => client # "prompt" /\ (client \in {"start", "reply"} => Len(shown) = 0)
  /\ client \in Leaving =>
       /\ verdict \in [ok : BOOLEAN, code : Nat] /\ (~verdict.ok => verdict.code # 0)
       /\ verdict.ok => /\ Received > 0 /\ sent[1].ok
                        /\ command = "call" => Len(shown) = 1 /\ shown[1].ok
  /\ client = "drain" => worker = "gone"
  /\ exitCode = 0 =>
       /\ client = "ended" /\ worker = "gone"
       /\ Session!Failures(sent) = {} \/ command = "session"
       /\ command = "call" => shown = <<Session!Ok(1)>>
       /\ \A i \in Session!Failures(sent) : \E n \in DOMAIN shown : shown[n] = sent[i]

\* The inductive invariant.
SessionInv == SessionTyped /\ Served /\ CleanedUp /\ Delivered /\ Judged

-----------------------------------------------------------------------------
(* The worker.                                                               *)

\* What the worker says goes to the channel, and changes nothing that was received.
LEMMA WorkerTells ==
  ASSUME SessionInv, worker # "gone", UNCHANGED <<command, client, verdict, exitCode, shown>>,
         UNCHANGED <<sent, channel>> \/ \E r \in Replies : Session!Reply(r)
  PROVE  Delivered' /\ Judged'
<1>. USE DEF SessionInv, SessionTyped
<1>1. client # "drain" /\ exitCode # 0
  BY DEF Judged
<1>2. CASE UNCHANGED <<sent, channel>>
  BY <1>1, <1>2 DEF Delivered, Judged, Received
<1>3. ASSUME NEW r \in Replies, Session!Reply(r) PROVE Delivered' /\ Judged'
  <2>1. /\ sent' = Append(sent, r) /\ channel' = Append(channel, r)
        /\ Len(sent') = Len(sent) + 1 /\ Len(channel') = Len(channel) + 1
        /\ \A i \in 1..Len(sent) : sent'[i] = sent[i]
        /\ \A j \in 1..Len(channel) : channel'[j] = channel[j]
        /\ sent'[Len(sent) + 1] = r /\ channel'[Len(channel) + 1] = r
    BY <1>3 DEF Session!Reply
  <2>2. Received' = Received
    BY <2>1 DEF Received
  <2>3. Delivered'
    <3>1. \A n \in 1..Len(shown) : n + 1 <= Len(sent') /\ shown[n] = sent'[n + 1]
      BY <2>1 DEF Delivered
    <3>2. ASSUME client # "ended", NEW j \in 1..Len(channel') PROVE channel'[j] = sent'[Received + j]
      <4>1. Len(channel) <= Len(sent) /\ Received = Len(sent) - Len(channel)
        BY <3>2 DEF Delivered, Received
      <4>2. CASE j <= Len(channel)
        <5>1. j \in 1..Len(channel) /\ Received + j \in 1..Len(sent)
          BY <2>1, <3>2, <4>1, <4>2
        <5>2. channel[j] = sent[Received + j]
          BY <3>2, <5>1 DEF Delivered
        <5> QED
          BY <2>1, <5>1, <5>2
      <4>3. CASE j = Len(channel) + 1
        BY <2>1, <4>1, <4>3
      <4>4. Len(channel) \in Nat /\ j \in 1..(Len(channel) + 1)
        BY <2>1, <3>2
      <4> QED
        BY <4>2, <4>3, <4>4
    <3>3. client # "ended" => Len(channel') <= Len(sent')
      BY <2>1 DEF Delivered
    <3>4. Received > 0 => sent'[1] = sent[1]
      BY <2>1 DEF Received
    <3>5. client \in {"prompt", "reply"} => Received > 0 /\ sent'[1].ok
      BY <3>4 DEF Delivered
    <3> QED
      BY <2>2, <3>1, <3>2, <3>3, <3>5 DEF Delivered
  <2>4. Received > 0 => sent'[1] = sent[1]
    BY <2>1 DEF Received
  <2>5. Judged'
    BY <1>1, <2>2, <2>4 DEF Judged
  <2> QED
    BY <2>3, <2>5
<1> QED
  BY <1>2, <1>3

\* A reply to the request that is served, or one that says that something failed,
\* is where it belongs.
LEMMA ReplyIsServed ==
  ASSUME SessionInv, NEW r \in Replies, Session!Reply(r), r.ok <=> r.code = 0,
         r.ok => Len(sent) = serving /\ r.of = serving
  PROVE  /\ sent' \in Seq(Replies) /\ channel' \in Seq(Replies) /\ Len(sent') = Len(sent) + 1
         /\ \A i \in DOMAIN sent' : (sent'[i].ok <=> sent'[i].code = 0) /\ (sent'[i].ok => sent'[i].of = i - 1)
         /\ Session!Failures(sent) # {} => Session!Failures(sent)' # {}
         /\ ~r.ok => Session!Failures(sent)' # {}
<1>0. /\ sent \in Seq(Replies) /\ channel \in Seq(Replies)
      /\ \A i \in DOMAIN sent : (sent[i].ok <=> sent[i].code = 0) /\ (sent[i].ok => sent[i].of = i - 1)
  BY DEF SessionInv, SessionTyped, Served
<1>1. sent' = Append(sent, r) /\ channel' = Append(channel, r)
  BY DEF Session!Reply
<1>2. sent' \in Seq(Replies) /\ channel' \in Seq(Replies) /\ Len(sent') = Len(sent) + 1
  BY <1>0, <1>1
<1>3. /\ \A i \in 1..Len(sent) : sent'[i] = sent[i]
      /\ sent'[Len(sent) + 1] = r /\ DOMAIN sent' = 1..(Len(sent) + 1) /\ DOMAIN sent = 1..Len(sent)
      /\ Len(sent) \in Nat
  BY <1>0, <1>1
<1>4. ASSUME NEW i \in DOMAIN sent' PROVE (sent'[i].ok <=> sent'[i].code = 0) /\ (sent'[i].ok => sent'[i].of = i - 1)
  <2>1. CASE i \in 1..Len(sent)
    BY <1>0, <1>3, <2>1
  <2>2. CASE i = Len(sent) + 1
    BY <1>3, <2>2
  <2> QED
    BY <1>3, <1>4, <2>1, <2>2
<1>5. ASSUME NEW i \in Session!Failures(sent) PROVE i \in DOMAIN sent' /\ ~sent'[i].ok
  BY <1>3, <1>5 DEF Session!Failures
<1>6. ~r.ok => Len(sent) + 1 \in DOMAIN sent' /\ ~sent'[Len(sent) + 1].ok
  BY <1>3
<1>7. Session!Failures(sent)' = {i \in DOMAIN sent' : ~sent'[i].ok}
  BY DEF Session!Failures
<1> QED
  BY <1>2, <1>4, <1>5, <1>6, <1>7

LEMMA ReplyShapes ==
  /\ \A n \in Nat : Session!Ok(n) \in Replies /\ Session!Ok(n).ok /\ Session!Ok(n).code = 0 /\ Session!Ok(n).of = n
  /\ \A n \in Nat \cup {None}, c \in {1, 2} : Session!Failure(n, c) \in Replies /\ ~Session!Failure(n, c).ok
                                            /\ Session!Failure(n, c).code = c
BY DEF Session!Ok, Session!Failure, Replies

\* A failure that ends the loop.
LEMMA LoopFails ==
  ASSUME SessionInv, worker # "gone", NEW n \in Nat \cup {None}, NEW c \in {1, 2}, Session!Fails(Session!Failure(n, c)),
         UNCHANGED <<command, client, verdict, exitCode, shown, serving>>,
         input' \in Seq({"use", "simulate", "reload", "quit"})
  PROVE  SessionInv'
<1>. DEFINE r == Session!Failure(n, c)
<1>1. r \in Replies /\ ~r.ok /\ r.code # 0
  BY ReplyShapes
<1>. HIDE DEF r
<1>2. Session!Reply(r) /\ worker' = "cleanup" /\ closing' = "end" /\ broken' = FALSE
  BY DEF Session!Fails, r
<1>3. /\ sent' \in Seq(Replies) /\ channel' \in Seq(Replies)
      /\ \A i \in DOMAIN sent' : (sent'[i].ok <=> sent'[i].code = 0) /\ (sent'[i].ok => sent'[i].of = i - 1)
  BY <1>1, <1>2, ReplyIsServed
<1>4. Delivered' /\ Judged'
  BY <1>1, <1>2, WorkerTells
<1>5. SessionTyped' /\ Served' /\ CleanedUp'
  BY <1>2, <1>3 DEF SessionInv, SessionTyped, Served, CleanedUp
<1> QED
  BY <1>4, <1>5 DEF SessionInv

LEMMA OpenKeeps ==
  ASSUME SessionInv, Session!Open
  PROVE  SessionInv'
<1>1. /\ worker = "open" /\ serving \in Nat /\ Len(sent) = serving
      /\ UNCHANGED <<command, client, verdict, exitCode, shown, serving, instance, input, killed>>
  BY DEF Session!Open, Session!clientVars, SessionInv, SessionTyped, Served
<1>2. CASE worker' = "idle" /\ Session!Reply(Session!Ok(serving)) /\ UNCHANGED <<closing, broken>>
  <2>1. /\ sent' \in Seq(Replies) /\ channel' \in Seq(Replies) /\ Len(sent') = Len(sent) + 1
        /\ \A i \in DOMAIN sent' : (sent'[i].ok <=> sent'[i].code = 0) /\ (sent'[i].ok => sent'[i].of = i - 1)
    BY <1>1, <1>2, ReplyIsServed, ReplyShapes
  <2>2. Delivered' /\ Judged'
    BY <1>1, <1>2, WorkerTells, ReplyShapes
  <2>3. SessionTyped' /\ Served' /\ CleanedUp'
    BY <1>1, <1>2, <2>1 DEF SessionInv, SessionTyped, Served, CleanedUp
  <2> QED
    BY <2>2, <2>3 DEF SessionInv
<1>3. ASSUME NEW c \in {1, 2}, Session!Fails(Session!Failure(serving, c)) PROVE SessionInv'
  BY <1>1, <1>3, LoopFails DEF SessionInv, SessionTyped
<1> QED
  BY <1>2, <1>3 DEF Session!Open

LEMMA WorkerReadKeeps ==
  ASSUME SessionInv, Session!Read
  PROVE  SessionInv'
<1>1. /\ worker = "idle" /\ Len(sent) = serving + 1 /\ serving \in Nat
      /\ UNCHANGED <<command, client, verdict, exitCode, shown, instance, sent, channel, killed>>
      /\ broken' = FALSE
  BY DEF Session!Read, Session!clientVars, SessionInv, SessionTyped, Served
<1>2. Delivered' /\ Judged'
  BY <1>1, WorkerTells
<1>3. /\ input' \in Seq({"use", "simulate", "reload", "quit"})
      /\ \/ worker' = "cleanup" /\ closing' = "end" /\ serving' = serving
         \/ worker' = "cleanup" /\ closing' = "reload" /\ serving' = serving + 1
         \/ worker' \in {"use", "simulate"} /\ closing' = closing /\ serving' = serving + 1
  <2>1. CASE input = <<>>
    BY <2>1 DEF Session!Read, SessionInv, SessionTyped
  <2>2. CASE input # <<>>
    <3>1. Head(input) \in {"use", "simulate", "reload", "quit"} /\ Tail(input) \in Seq({"use", "simulate", "reload", "quit"})
      BY <2>2 DEF SessionInv, SessionTyped
    <3> QED
      BY <2>2, <3>1 DEF Session!Read
  <2> QED
    BY <2>1, <2>2
<1>4. SessionTyped'
  <2>1. broken' \in BOOLEAN
    BY <1>1
  <2>2. serving' \in Nat
    BY <1>1, <1>3
  <2> QED
    BY <1>1, <1>3, <2>1, <2>2 DEF SessionInv, SessionTyped
<1>5. Served' /\ CleanedUp'
  BY <1>1, <1>3 DEF SessionInv, SessionTyped, Served, CleanedUp
<1> QED
  BY <1>2, <1>4, <1>5 DEF SessionInv

\* The reply of a command after which the worker goes on.
LEMMA AnswerKeeps ==
  ASSUME SessionInv, worker \in {"use", "simulate"},
         NEW r \in {Session!Ok(serving), Session!Failure(serving, 1), Session!Failure(serving, 2)}, Session!Answers(r),
         UNCHANGED <<command, client, verdict, exitCode, shown, serving, closing, broken, input, killed>>
  PROVE  SessionInv'
<1>1. Len(sent) = serving /\ serving \in Nat /\ worker # "gone"
  BY DEF SessionInv, SessionTyped, Served
<1>2. r \in Replies /\ (r.ok <=> r.code = 0) /\ (r.ok => r.of = serving)
  BY <1>1, ReplyShapes
<1>3. Session!Reply(r) /\ worker' = "idle"
  BY DEF Session!Answers
<1>4. /\ sent' \in Seq(Replies) /\ channel' \in Seq(Replies) /\ Len(sent') = Len(sent) + 1
      /\ \A i \in DOMAIN sent' : (sent'[i].ok <=> sent'[i].code = 0) /\ (sent'[i].ok => sent'[i].of = i - 1)
  BY <1>1, <1>2, <1>3, ReplyIsServed
<1>5. Delivered' /\ Judged'
  BY <1>1, <1>2, <1>3, WorkerTells
<1>6. SessionTyped' /\ Served' /\ CleanedUp'
  BY <1>1, <1>3, <1>4 DEF SessionInv, SessionTyped, Served, CleanedUp
<1> QED
  BY <1>5, <1>6 DEF SessionInv

LEMMA UseKeeps ==
  ASSUME SessionInv, Session!Use \/ Session!Simulate
  PROVE  SessionInv'
<1>1. /\ worker \in {"use", "simulate"}
      /\ UNCHANGED <<command, client, verdict, exitCode, shown, serving, closing, broken, input, killed>>
      /\ \E r \in {Session!Ok(serving), Session!Failure(serving, 1), Session!Failure(serving, 2)} : Session!Answers(r)
  BY DEF Session!Use, Session!Simulate, Session!clientVars
<1> QED
  BY <1>1, AnswerKeeps

LEMMA CleanupKeeps ==
  ASSUME SessionInv, worker = "cleanup", worker' = "service", instance' = FALSE, broken' \in BOOLEAN,
         UNCHANGED <<command, client, verdict, exitCode, shown, serving, closing, sent, input, channel, killed>>
  PROVE  SessionInv'
<1>1. Delivered' /\ Judged'
  BY WorkerTells
<1>2. SessionTyped' /\ Served' /\ CleanedUp'
  BY DEF SessionInv, SessionTyped, Served, CleanedUp
<1> QED
  BY <1>1, <1>2 DEF SessionInv

LEMMA ClosedKeeps ==
  ASSUME SessionInv, worker = "service", NEW failed \in BOOLEAN, Session!Closed(failed), ~failed => service' # "open",
         UNCHANGED <<command, client, verdict, exitCode, shown, serving, instance, input, killed>>
  PROVE  SessionInv'
<1>1. /\ worker # "gone" /\ serving \in Nat /\ ~instance
      /\ closing = "end" \/ (closing = "reload" /\ Len(sent) = serving)
  BY DEF SessionInv, SessionTyped, Served, CleanedUp
<1>2. CASE failed /\ closing = "reload"
  BY <1>1, <1>2, LoopFails DEF Session!Closed, SessionInv, SessionTyped
<1>3. CASE failed /\ closing = "end"
  <2> DEFINE r == Session!Failure(None, 1)
  <2>1. r \in Replies /\ ~r.ok /\ r.code # 0
    BY DEF Session!Failure, Replies
  <2>2. Session!Reply(r) /\ worker' = "over" /\ UNCHANGED <<closing, broken>>
    BY <1>3 DEF Session!Closed
  <2> HIDE DEF r
  <2>3. /\ sent' \in Seq(Replies) /\ channel' \in Seq(Replies) /\ Session!Failures(sent)' # {}
        /\ \A i \in DOMAIN sent' : (sent'[i].ok <=> sent'[i].code = 0) /\ (sent'[i].ok => sent'[i].of = i - 1)
    BY <2>1, <2>2, ReplyIsServed
  <2>4. Delivered' /\ Judged'
    BY <1>1, <2>1, <2>2, WorkerTells
  <2>5. SessionTyped' /\ Served' /\ CleanedUp'
    BY <1>1, <2>2, <2>3 DEF SessionInv, SessionTyped, Served, CleanedUp
  <2> QED
    BY <2>4, <2>5 DEF SessionInv
<1>4. CASE ~failed
  <2>1. worker' = (IF closing = "reload" THEN "open" ELSE "over") /\ UNCHANGED <<closing, broken, sent, channel>>
    BY <1>4 DEF Session!Closed
  <2>2. Delivered' /\ Judged'
    BY <1>1, <2>1, WorkerTells
  <2>3. SessionTyped' /\ Served' /\ CleanedUp'
    BY <1>1, <1>4, <2>1 DEF SessionInv, SessionTyped, Served, CleanedUp
  <2> QED
    BY <2>2, <2>3 DEF SessionInv
<1> QED
  BY <1>1, <1>2, <1>3, <1>4

LEMMA EndKeeps ==
  ASSUME SessionInv, Session!End
  PROVE  SessionInv'
<1>1. /\ worker = "over" /\ worker' = "gone"
      /\ UNCHANGED <<command, client, verdict, exitCode, shown, serving, closing, instance, service, broken, sent, input, channel, killed>>
  BY DEF Session!End, Session!clientVars
<1>2. Delivered' /\ Judged'
  BY <1>1, WorkerTells
<1>3. SessionTyped' /\ Served' /\ CleanedUp'
  BY <1>1 DEF SessionInv, SessionTyped, Served, CleanedUp, Session!Failures
<1> QED
  BY <1>2, <1>3 DEF SessionInv

LEMMA InterruptedKeeps ==
  ASSUME SessionInv, Session!Interrupted
  PROVE  SessionInv'
<1>1. /\ UNCHANGED <<command, client, verdict, exitCode, shown, serving, input, killed>>
      /\ serving \in Nat
  BY DEF Session!Interrupted, Session!clientVars, SessionInv, SessionTyped
<1>2. CASE /\ worker \in {"open", "idle", "use", "simulate"}
           /\ Session!Fails(Session!Failure(IF worker = "idle" THEN None ELSE serving, 1))
  BY <1>1, <1>2, LoopFails DEF SessionInv, SessionTyped
<1>3. CASE worker = "cleanup" /\ worker' = "service" /\ instance' = FALSE /\ broken' = TRUE /\ UNCHANGED <<closing, sent, channel>>
  BY <1>1, <1>3, CleanupKeeps
<1>4. CASE worker = "service" /\ Session!Closed(TRUE) /\ UNCHANGED <<service, instance>>
  BY <1>1, <1>4, ClosedKeeps
<1>5. CASE UNCHANGED <<worker, closing, instance, service, broken, sent, channel>>
  BY <1>1, <1>5 DEF SessionInv, SessionTyped, Served, CleanedUp, Delivered, Judged, Received,
     Session!Failures
<1> QED
  BY <1>2, <1>3, <1>4, <1>5 DEF Session!Interrupted

LEMMA WorkerKeeps ==
  ASSUME SessionInv, Session!Worker
  PROVE  SessionInv'
<1>1. CASE Session!Cleanup
  BY <1>1, CleanupKeeps DEF Session!Cleanup, Session!clientVars
<1>2. CASE Session!CloseService
  <2>1. /\ worker = "service" /\ broken \in BOOLEAN
        /\ UNCHANGED <<command, client, verdict, exitCode, shown, serving, instance, input, killed>>
    BY <1>2 DEF Session!CloseService, Session!clientVars, SessionInv, SessionTyped
  <2>2. CASE service' = (IF service = "open" THEN "closed" ELSE service) /\ Session!Closed(broken)
    BY <2>1, <2>2, ClosedKeeps
  <2>3. CASE Session!Closed(TRUE)
    BY <2>1, <2>3, ClosedKeeps
  <2> QED
    BY <1>2, <2>2, <2>3 DEF Session!CloseService
<1> QED
  BY <1>1, <1>2, OpenKeeps, WorkerReadKeeps, UseKeeps, EndKeeps, InterruptedKeeps DEF Session!Worker

-----------------------------------------------------------------------------
(* The command.                                                              *)

\* The command does not touch what the worker is at.
LEMMA WorkerLeftAlone ==
  ASSUME SessionInv, UNCHANGED <<worker, serving, closing, instance, service, sent, killed>>
  PROVE  Served' /\ CleanedUp'
BY DEF SessionInv, Served, CleanedUp, Session!Failures

\* A command that leaves with a failure of its own.
LEMMA LeavesKeeps ==
  ASSUME SessionInv, client \in {"start", "prompt", "reply"}, NEW c \in {1, 2, 130}, NEW why,
         Session!Leave([ok |-> FALSE, code |-> c], why),
         UNCHANGED <<command, exitCode, input, worker, serving, closing, instance, service, broken, sent, channel, killed, shown>>
  PROVE  SessionInv'
<1>1. client' = "leave" /\ verdict' = [ok |-> FALSE, code |-> c]
  BY DEF Session!Leave
<1>2. exitCode' # 0
  BY DEF SessionInv, Judged
<1>3. SessionTyped' /\ Delivered'
  BY <1>1 DEF SessionInv, SessionTyped, Delivered, Received, Leaving
<1>4. Judged'
  BY <1>1, <1>2 DEF SessionInv, Judged, Leaving
<1> QED
  BY <1>3, <1>4, WorkerLeftAlone DEF SessionInv

\* The first reply in the channel is the next that was sent.
LEMMA HeadOfChannel ==
  ASSUME SessionInv, client # "ended", channel # <<>>, channel' = Tail(channel), sent' = sent
  PROVE  /\ Received \in Nat /\ Received + 1 \in DOMAIN sent /\ Head(channel) = sent[Received + 1] /\ Head(channel) \in Replies
         /\ channel' \in Seq(Replies) /\ Len(channel') <= Len(sent) /\ Received' = Received + 1
         /\ \A j \in 1..Len(channel') : channel'[j] = sent'[Received' + j]
<1>1. /\ sent \in Seq(Replies) /\ channel \in Seq(Replies) /\ Len(channel) <= Len(sent)
      /\ \A j \in 1..Len(channel) : channel[j] = sent[Received + j]
  BY DEF SessionInv, SessionTyped, Delivered
<1>2. Received \in Nat /\ Received = Len(sent) - Len(channel)
  BY <1>1 DEF Received
<1>3. /\ Len(channel) \in Nat \ {0} /\ Head(channel) = channel[1] /\ Head(channel) \in Replies
      /\ channel' \in Seq(Replies) /\ Len(channel') = Len(channel) - 1
      /\ \A j \in 1..Len(channel') : channel'[j] = channel[j + 1]
  BY <1>1
<1>4. Received' = Received + 1
  BY <1>1, <1>2, <1>3 DEF Received
<1>5. Head(channel) = sent[Received + 1] /\ Received + 1 \in DOMAIN sent
  BY <1>1, <1>2, <1>3
<1>6. ASSUME NEW j \in 1..Len(channel') PROVE channel'[j] = sent'[Received' + j]
  <2>1. j + 1 \in 1..Len(channel)
    BY <1>3, <1>6
  <2>2. channel'[j] = sent[Received + (j + 1)]
    BY <1>1, <1>3, <1>6, <2>1
  <2> QED
    BY <1>2, <1>4, <2>2
<1> QED
  BY <1>1, <1>2, <1>3, <1>4, <1>5, <1>6

\* A request is written, or the command leaves because the worker is gone.
LEMMA AskWrites ==
  ASSUME SessionInv, NEW r \in {"use", "simulate", "reload"}, Session!Ask(r)
  PROVE  /\ input' \in Seq({"use", "simulate", "reload", "quit"})
         /\ \/ client' = "leave" /\ verdict' = [ok |-> FALSE, code |-> 2]
            \/ client' = "reply"
<1>1. Append(input, r) \in Seq({"use", "simulate", "reload", "quit"})
  BY DEF SessionInv, SessionTyped
<1> QED
  BY <1>1 DEF Session!Ask, Session!Leave, SessionInv, SessionTyped

LEMMA ReadyKeeps ==
  ASSUME SessionInv, Session!ReceiveReady
  PROVE  SessionInv'
<1>1. /\ client = "start" /\ channel # <<>> /\ channel' = Tail(channel)
      /\ UNCHANGED <<command, exitCode, shown, worker, serving, closing, instance, service, broken, sent, killed>>
  BY DEF Session!ReceiveReady, Session!workerVars
<1>2. Received = 0 /\ Len(shown) = 0 /\ exitCode' # 0
  BY <1>1 DEF SessionInv, Delivered, Judged
<1>3. /\ Head(channel) = sent[1] /\ 1 \in DOMAIN sent /\ Head(channel) \in Replies /\ Received' = 1
      /\ channel' \in Seq(Replies) /\ Len(channel') <= Len(sent)
      /\ \A j \in 1..Len(channel') : channel'[j] = sent'[Received' + j]
  BY <1>1, <1>2, HeadOfChannel
<1>4. ~sent[1].ok => sent[1].code # 0
  BY <1>3 DEF SessionInv, SessionTyped
<1>5. /\ input' \in Seq({"use", "simulate", "reload", "quit"})
      /\ \/ client' = "leave" /\ verdict' = [ok |-> sent[1].ok, code |-> sent[1].code] /\ ~sent[1].ok
         \/ client' = "leave" /\ verdict' = [ok |-> FALSE, code |-> 2]
         \/ client' = "reply" /\ sent[1].ok
         \/ client' = "prompt" /\ sent[1].ok /\ command = "session"
  <2>1. CASE ~Head(channel).ok
    BY <1>3, <2>1 DEF Session!ReceiveReady, Session!Leave, Session!AsVerdict, SessionInv,
       SessionTyped
  <2>2. CASE Head(channel).ok /\ command = "call"
    <3>1. PICK r \in {"use", "simulate"} : Session!Ask(r)
      BY <2>2 DEF Session!ReceiveReady, Session!Requests
    <3> QED
      BY <1>3, <2>2, <3>1, AskWrites
  <2>3. CASE Head(channel).ok /\ command = "session"
    BY <1>3, <2>3 DEF Session!ReceiveReady, SessionInv, SessionTyped
  <2>4. command \in {"call", "session"}
    BY DEF SessionInv, SessionTyped
  <2> QED
    BY <2>1, <2>2, <2>3, <2>4
<1>6. SessionTyped'
  BY <1>1, <1>3, <1>5 DEF SessionInv, SessionTyped, Leaving
<1>7. Delivered'
  BY <1>1, <1>2, <1>3, <1>5 DEF SessionInv, Delivered
<1>8. Judged'
  <2>1. client' = "leave" =>
          verdict' \in [ok : BOOLEAN, code : Nat] /\ ~verdict'.ok /\ verdict'.code # 0
    <3>1. sent[1].ok \in BOOLEAN /\ sent[1].code \in Nat
      BY <1>3 DEF Replies
    <3>2. [ok |-> sent[1].ok, code |-> sent[1].code] \in [ok : BOOLEAN, code : Nat]
      BY <3>1
    <3>3. [ok |-> FALSE, code |-> 2] \in [ok : BOOLEAN, code : Nat]
      OBVIOUS
    <3>4. ASSUME verdict' = [ok |-> sent[1].ok, code |-> sent[1].code], ~sent[1].ok
          PROVE  verdict' \in [ok : BOOLEAN, code : Nat] /\ ~verdict'.ok /\ verdict'.code # 0
      BY <1>4, <3>2, <3>4
    <3>5. ASSUME verdict' = [ok |-> FALSE, code |-> 2]
          PROVE  verdict' \in [ok : BOOLEAN, code : Nat] /\ ~verdict'.ok /\ verdict'.code # 0
      BY <3>3, <3>5
    <3> QED
      BY <1>5, <3>4, <3>5
  <2> QED
    BY <1>1, <1>2, <1>5, <2>1 DEF SessionInv, Judged, Leaving
<1> QED
  BY <1>1, <1>6, <1>7, <1>8, WorkerLeftAlone DEF SessionInv

LEMMA EnterKeeps ==
  ASSUME SessionInv, Session!Enter
  PROVE  SessionInv'
<1>1. /\ client = "prompt"
      /\ UNCHANGED <<command, exitCode, shown, worker, serving, closing, instance, service, broken, sent, channel, killed>>
  BY DEF Session!Enter, Session!workerVars
<1>2. Received > 0 /\ sent[1].ok /\ command # "call" /\ exitCode' # 0
  BY <1>1 DEF SessionInv, Delivered, Judged
<1>3. /\ input' \in Seq({"use", "simulate", "reload", "quit"})
      /\ \/ client' = "leave" /\ verdict' = [ok |-> FALSE, code |-> 2]
         \/ client' = "leave" /\ verdict' = [ok |-> TRUE, code |-> 0]
         \/ client' = "reply"
  <2>1. ASSUME NEW r \in {"use", "simulate", "reload"}, Session!Ask(r)
        PROVE  /\ input' \in Seq({"use", "simulate", "reload", "quit"})
               /\ \/ client' = "leave" /\ verdict' = [ok |-> FALSE, code |-> 2]
                  \/ client' = "reply"
    BY <2>1, AskWrites
  <2>2. CASE Session!Leave([ok |-> TRUE, code |-> 0], None) /\ UNCHANGED <<input, asked>>
    BY <2>2 DEF Session!Leave, SessionInv, SessionTyped
  <2>3. Session!Requests \cup {"reload"} = {"use", "simulate", "reload"}
    BY DEF Session!Requests
  <2> QED
    BY <2>1, <2>2, <2>3 DEF Session!Enter
<1>4. SessionTyped' /\ Delivered'
  BY <1>1, <1>3 DEF SessionInv, SessionTyped, Delivered, Received, Leaving
<1>5. Judged'
  <2>1. client' = "leave" => verdict' \in [ok : BOOLEAN, code : Nat] /\ (~verdict'.ok => verdict'.code # 0)
    <3>1. [ok |-> FALSE, code |-> 2] \in [ok : BOOLEAN, code : Nat] /\ [ok |-> TRUE, code |-> 0] \in [ok : BOOLEAN, code : Nat]
      OBVIOUS
    <3>2. ASSUME verdict' = [ok |-> FALSE, code |-> 2]
          PROVE  verdict' \in [ok : BOOLEAN, code : Nat] /\ verdict'.code # 0
      BY <3>1, <3>2
    <3>3. ASSUME verdict' = [ok |-> TRUE, code |-> 0]
          PROVE  verdict' \in [ok : BOOLEAN, code : Nat] /\ verdict'.ok
      BY <3>1, <3>3
    <3> QED
      BY <1>3, <3>2, <3>3
  <2>2. Received' = Received
    BY <1>1 DEF Received
  <2> QED
    BY <1>1, <1>2, <1>3, <2>1, <2>2 DEF SessionInv, Judged, Leaving
<1> QED
  BY <1>1, <1>4, <1>5, WorkerLeftAlone DEF SessionInv

LEMMA ReceiveKeeps ==
  ASSUME SessionInv, Session!ReceiveReply
  PROVE  SessionInv'
<1>1. /\ client = "reply" /\ channel # <<>> /\ channel' = Tail(channel) /\ shown' = Append(shown, Head(channel))
      /\ UNCHANGED <<command, exitCode, input, worker, serving, closing, instance, service, broken, sent, killed>>
  BY DEF Session!ReceiveReply, Session!workerVars
<1>2. /\ Received > 0 /\ sent[1].ok /\ Len(shown) = Received - 1 /\ exitCode' # 0
      /\ command = "call" => Len(shown) = 0
  BY <1>1 DEF SessionInv, Delivered, Judged
<1>3. /\ Received \in Nat /\ Head(channel) = sent[Received + 1] /\ Received + 1 \in DOMAIN sent
      /\ Head(channel) \in Replies /\ Received' = Received + 1
      /\ channel' \in Seq(Replies) /\ Len(channel') <= Len(sent)
      /\ \A j \in 1..Len(channel') : channel'[j] = sent'[Received' + j]
  BY <1>1, HeadOfChannel
<1>4. /\ shown' \in Seq(Replies) /\ Len(shown') = Received /\ shown'[Received] = sent[Received + 1]
      /\ \A n \in 1..Len(shown) : shown'[n] = shown[n]
  BY <1>1, <1>2, <1>3 DEF SessionInv, SessionTyped
<1>5. /\ Head(channel).ok <=> Head(channel).code = 0
      /\ \/ command = "session" /\ client' = "prompt"
         \/ command = "call" /\ client' = "leave" /\ verdict' = [ok |-> Head(channel).ok, code |-> Head(channel).code]
  BY <1>3 DEF Session!ReceiveReply, Session!Leave, Session!AsVerdict, SessionInv, SessionTyped
<1>6. SessionTyped'
  BY <1>1, <1>3, <1>4, <1>5 DEF SessionInv, SessionTyped, Leaving
<1>7. Delivered'
  <2>1. \A n \in 1..Len(shown) : n + 1 <= Len(sent) /\ shown[n] = sent[n + 1]
    BY DEF SessionInv, Delivered
  <2>2. \A n \in 1..Len(shown') : n \in 1..Len(shown) \/ n = Received
    BY <1>2, <1>3, <1>4
  <2>3. Received + 1 <= Len(sent)
    BY <1>3 DEF SessionInv, SessionTyped
  <2>4. \A n \in 1..Len(shown') : n + 1 <= Len(sent) /\ shown'[n] = sent[n + 1]
    BY <1>4, <2>1, <2>2, <2>3
  <2>5. Received' > 0 /\ Len(shown') = Received' - 1 /\ sent'[1].ok
    BY <1>1, <1>2, <1>3, <1>4
  <2>6. Len(channel') <= Len(sent') /\ client' # "start" /\ sent' = sent
    BY <1>1, <1>3, <1>5
  <2> QED
    BY <1>3, <2>4, <2>5, <2>6 DEF Delivered
<1>8. Judged'
  <2>1. client' = "leave" => /\ verdict' \in [ok : BOOLEAN, code : Nat] /\ (~verdict'.ok => verdict'.code # 0)
                             /\ verdict'.ok = sent[Received + 1].ok
    BY <1>3, <1>5 DEF Replies
  <2>2. command = "call" => Received = 1
    BY <1>2, <1>3
  <2> QED
    BY <1>1, <1>2, <1>3, <1>4, <1>5, <2>1, <2>2 DEF SessionInv, Judged, Leaving
<1> QED
  BY <1>1, <1>6, <1>7, <1>8, WorkerLeftAlone DEF SessionInv

\* The steps of a command that has what it ends with.
LEMMA ClosingKeeps ==
  ASSUME SessionInv, client \in Leaving \ {"drain"}, client' \in Leaving, client' = "drain" => worker' = "gone",
         \/ UNCHANGED <<worker, killed>>
         \/ worker' = "gone" /\ killed' = TRUE,
         input' \in Seq({"use", "simulate", "reload", "quit"}),
         UNCHANGED <<command, verdict, exitCode, serving, closing, instance, service, broken, sent, channel, shown>>
  PROVE  SessionInv'
<1>1. exitCode' # 0
  BY DEF SessionInv, Judged, Leaving
<1>2. SessionTyped' /\ Delivered'
  BY DEF SessionInv, SessionTyped, Delivered, Received, Leaving
<1>3. Served' /\ CleanedUp'
  BY DEF SessionInv, Served, CleanedUp, Session!Failures
<1>4. Judged'
  <2>1. Received' = Received
    BY DEF Received
  <2> QED
    BY <1>1, <2>1 DEF SessionInv, Judged, Leaving
<1> QED
  BY <1>2, <1>3, <1>4 DEF SessionInv

\* There is a first failure among replies that have one.
LEMMA FirstFailureFails ==
  ASSUME NEW s \in Seq(Replies), Session!Failures(s) # {}
  PROVE  Session!FirstFailure(s) \in Session!Failures(s)
<1>. DEFINE Less == OpToRel(<, Nat)
<1>1. Session!Failures(s) \subseteq Nat
  BY DEF Session!Failures
<1>2. IsWellFoundedOn(Less, Nat)
  BY NatLessThanWellFounded
<1>3. PICK i \in Session!Failures(s) : \A j \in Session!Failures(s) : <<j, i>> \notin Less
  <2> HIDE DEF Less
  <2> QED
    BY <1>1, <1>2, WFMin
<1>4. ASSUME NEW j \in Session!Failures(s) PROVE i <= j
  <2>1. i \in Nat /\ j \in Nat
    BY <1>1
  <2>2. ASSUME j < i PROVE <<j, i>> \in Less
    BY <2>1, <2>2 DEF OpToRel
  <2>3. <<j, i>> \notin Less
    BY <1>3
  <2> HIDE DEF Less
  <2>4. ~(j < i)
    BY <2>2, <2>3
  <2> QED
    BY <2>1, <2>4
<1> QED
  BY <1>3, <1>4 DEF Session!FirstFailure

LEMMA FinishKeeps ==
  ASSUME SessionInv, Session!Finish
  PROVE  SessionInv'
<1>1. /\ client = "drain" /\ client' = "ended" /\ channel' = <<>> /\ worker = "gone"
      /\ exitCode' = IF stop = "interrupted" THEN 130
                     ELSE IF Session!FinalVerdict.ok THEN 0 ELSE Session!FinalVerdict.code
      /\ UNCHANGED <<command, input, worker, serving, closing, instance, service, broken, sent, killed, shown>>
  BY DEF Session!Finish, Session!workerVars, SessionInv, Judged
<1>2. /\ verdict \in [ok : BOOLEAN, code : Nat] /\ (~verdict.ok => verdict.code # 0)
      /\ verdict.ok => Received > 0 /\ sent[1].ok /\ (command = "call" => Len(shown) = 1 /\ shown[1].ok)
  BY <1>1 DEF SessionInv, Judged, Leaving
<1>3. /\ Len(channel) <= Len(sent) /\ Received = Len(sent) - Len(channel)
      /\ \A j \in 1..Len(channel) : channel[j] = sent[Received + j]
      /\ Len(shown) = IF Received = 0 THEN 0 ELSE Received - 1
      /\ \A n \in 1..Len(shown) : n + 1 <= Len(sent) /\ shown[n] = sent[n + 1]
      /\ sent \in Seq(Replies) /\ channel \in Seq(Replies) /\ shown \in Seq(Replies)
      /\ \A i \in DOMAIN sent : (sent[i].ok <=> sent[i].code = 0) /\ (sent[i].ok => sent[i].of = i - 1)
  BY <1>1 DEF SessionInv, SessionTyped, Served, Delivered, Received
<1>4. exitCode' = 0 => verdict.ok /\ Session!Failures(channel) = {}
  <2>1. CASE verdict.ok /\ Session!Failures(channel) # {}
    <3> DEFINE i == Session!FirstFailure(channel)
    <3>1. i \in 1..Len(channel) /\ ~channel[i].ok
      BY <1>3, <2>1, FirstFailureFails DEF Session!Failures
    <3> HIDE DEF i
    <3>2. channel[i] = sent[Received + i] /\ Received + i \in DOMAIN sent
      BY <1>3, <3>1
    <3>3. channel[i].code # 0
      BY <1>3, <3>1, <3>2
    <3>4. Session!FinalVerdict = [ok |-> channel[i].ok, code |-> channel[i].code]
      BY <2>1 DEF Session!FinalVerdict, Session!AsVerdict, i
    <3> QED
      BY <1>1, <3>1, <3>3, <3>4
  <2>2. CASE ~(verdict.ok /\ Session!Failures(channel) # {})
    BY <1>1, <1>2, <2>2 DEF Session!FinalVerdict
  <2> QED
    BY <2>1, <2>2
<1>5. ASSUME exitCode' = 0, NEW i \in Session!Failures(sent)
      PROVE  \E n \in DOMAIN shown : shown[n] = sent[i]
  <2>1. i \in 1..Len(sent) /\ ~sent[i].ok
    BY <1>3 DEF Session!Failures
  <2>2. i # 1 /\ Received > 0
    BY <1>2, <1>4, <1>5, <2>1
  <2>3. i <= Received
    <3> SUFFICES ASSUME i > Received PROVE FALSE
      BY <1>3, <2>1
    <3>0. i - Received \in 1..Len(channel) /\ Received + (i - Received) = i
      BY <1>3, <2>1
    <3>1. i - Received \in 1..Len(channel) /\ channel[i - Received] = sent[i]
      BY <1>3, <3>0
    <3>2. i - Received \in Session!Failures(channel)
      BY <1>3, <2>1, <3>1 DEF Session!Failures
    <3> QED
      BY <1>4, <1>5, <3>2
  <2>4. i - 1 \in 1..Len(shown) /\ shown[i - 1] = sent[i]
    BY <1>3, <2>1, <2>2, <2>3
  <2> QED
    BY <1>3, <2>4
<1>6. exitCode' = 0 /\ command = "call" => shown = <<Session!Ok(1)>>
  <2> HAVE exitCode' = 0 /\ command = "call"
  <2>1. Len(shown) = 1 /\ shown[1].ok
    BY <1>2, <1>4
  <2>2. shown[1] = sent[2] /\ 2 \in DOMAIN sent
    <3>1. 1 \in 1..Len(shown) /\ 1 + 1 = 2
      BY <2>1
    <3>2. 2 <= Len(sent) /\ shown[1] = sent[2]
      BY <1>3, <3>1
    <3> QED
      BY <1>3, <3>2
  <2>3. sent[2] \in Replies /\ sent[2].of = 1 /\ sent[2].ok = TRUE /\ sent[2].code = 0
    <3>1. sent[2] \in Replies /\ sent[2].ok
      BY <1>3, <2>1, <2>2
    <3>2. sent[2].code = 0 /\ sent[2].of = 2 - 1
      BY <1>3, <2>2, <3>1
    <3>3. sent[2].ok = TRUE
      BY <3>1 DEF Replies
    <3> QED
      BY <3>1, <3>2, <3>3
  <2>4. sent[2] = Session!Ok(1)
    BY <2>3 DEF Replies, Session!Ok
  <2> QED
    BY <1>3, <2>1, <2>2, <2>4
<1>7. exitCode' = 0 /\ command = "call" => Session!Failures(sent) = {}
  <2> SUFFICES ASSUME exitCode' = 0, command = "call", NEW i \in Session!Failures(sent) PROVE FALSE
    OBVIOUS
  <2>1. PICK n \in DOMAIN shown : shown[n] = sent[i]
    BY <1>5
  <2>2. ~sent[i].ok
    BY DEF Session!Failures
  <2>3. Len(shown) = 1 /\ shown[1].ok
    BY <1>2, <1>4
  <2>4. n = 1
    BY <1>3, <2>1, <2>3
  <2> QED
    BY <2>1, <2>2, <2>3, <2>4
<1>8. SessionTyped' /\ Delivered'
  BY <1>1, <1>3 DEF SessionInv, SessionTyped, Delivered, Leaving
<1>9. Judged'
  <2>1. Session!Failures(sent)' = Session!Failures(sent)
    BY <1>1 DEF Session!Failures
  <2>2. command \in {"call", "session"}
    BY DEF SessionInv, SessionTyped
  <2> QED
    BY <1>1, <1>5, <1>6, <1>7, <2>1, <2>2 DEF Judged, Leaving
<1> QED
  BY <1>1, <1>8, <1>9, WorkerLeftAlone DEF SessionInv

LEMMA AbandonKeeps ==
  ASSUME SessionInv, Session!InterruptClose
  PROVE  SessionInv'
<1>1. /\ client \in Leaving /\ client' = "ended" /\ exitCode' = 130
      /\ UNCHANGED <<command, input, channel, worker, serving, closing, instance, service, broken, sent, killed, shown>>
  BY DEF Session!InterruptClose, Session!workerVars, Leaving
<1>2. SessionTyped' /\ Delivered' /\ Judged'
  BY <1>1 DEF SessionInv, SessionTyped, Delivered, Judged, Leaving
<1> QED
  BY <1>1, <1>2, WorkerLeftAlone DEF SessionInv

LEMMA SessionKeeps ==
  ASSUME SessionInv, Session!SessionNext
  PROVE  SessionInv'
<1>. USE DEF Session!workerVars
<1>1. input \in Seq({"use", "simulate", "reload", "quit"}) /\ Append(input, "quit") \in Seq({"use", "simulate", "reload", "quit"})
  BY DEF SessionInv, SessionTyped
<1>2. CASE Session!FindGone \/ Session!Timeout
  BY <1>2, LeavesKeeps DEF Session!FindGone, Session!Timeout
<1>3. CASE Session!Interrupt
  BY <1>3, LeavesKeeps DEF Session!Interrupt
<1>4. CASE Session!Close
  BY <1>1, <1>4, ClosingKeeps DEF Session!Close, Leaving, Session!Gone
<1>5. CASE Session!WorkerEnded
  BY <1>1, <1>5, ClosingKeeps DEF Session!WorkerEnded, Leaving, Session!Gone
<1>6. CASE Session!Terminate \/ Session!Kill
  BY <1>1, <1>6, ClosingKeeps DEF Session!Terminate, Session!Kill, Session!Dies, Leaving
<1> QED
  BY <1>2, <1>3, <1>4, <1>5, <1>6, WorkerKeeps, ReadyKeeps, EnterKeeps, ReceiveKeeps,
     FinishKeeps, AbandonKeeps
     DEF Session!SessionNext, Session!Client

LEMMA SessionStarts ==
  ASSUME Session!SessionInit
  PROVE  SessionInv
<1>. USE SessionHolds DEF Session!SessionAssumption, Session!SessionInit
<1>1. SessionTyped
  <2>1. command \in {"call", "session"}
    OBVIOUS
  <2>2. <<>> \in Seq(Replies) /\ <<>> \in Seq({"use", "simulate", "reload", "quit"}) /\ DOMAIN <<>> = {}
    OBVIOUS
  <2>3. serving \in Nat /\ broken \in BOOLEAN
    OBVIOUS
  <2> QED
    BY <2>1, <2>2, <2>3 DEF SessionTyped
<1>2. Served /\ CleanedUp
  BY DEF Served, CleanedUp
<1>3. Delivered /\ Judged
  BY DEF Delivered, Judged, Received, Leaving
<1> QED
  BY <1>1, <1>2, <1>3 DEF SessionInv

\* Whatever the plugin does and wherever the user interrupts: a success that is
\* shown is the reply to that request, and the exit code 0 says that all failures
\* were shown and that the worker has cleaned up (DevSession).
THEOREM AnswersStayTrue == AllSpec => []AnswersAreTrue
<1>1. AllInit => SessionInv
  BY SessionStarts DEF AllInit
<1>2. SessionInv /\ [AllNext]_allVars => SessionInv'
  <2> SUFFICES ASSUME SessionInv, [AllNext]_allVars PROVE SessionInv'
    OBVIOUS
  <2>1. CASE Session!SessionNext
    BY <2>1, SessionKeeps
  <2>2. CASE UNCHANGED sessionVars
    BY <2>2 DEF sessionVars, SessionInv, SessionTyped, Served, CleanedUp, Delivered, Judged,
       Received, Session!Failures
  <2> QED
    BY <2>1, <2>2 DEF AllNext, Moves, Rests, allVars
<1>3. SessionInv => AnswersAreTrue
  <2> SUFFICES ASSUME SessionInv PROVE Session!SuccessesAreOwn /\ Session!ExitIsHonest
    BY DEF AnswersAreTrue
  <2>1. ASSUME NEW n \in DOMAIN shown, shown[n].ok PROVE shown[n].of = n
    <3>1. n \in 1..Len(shown) /\ n \in Nat
      BY <2>1 DEF SessionInv, SessionTyped
    <3>2. shown[n] = sent[n + 1] /\ n + 1 \in DOMAIN sent
      BY <3>1 DEF SessionInv, SessionTyped, Delivered
    <3> QED
      BY <2>1, <3>1, <3>2 DEF SessionInv, Served
  <2>2. Session!ExitIsHonest
    BY DEF SessionInv, Judged, CleanedUp, Session!ExitIsHonest, Session!Gone
  <2> QED
    BY <2>1, <2>2 DEF Session!SuccessesAreOwn
<1> QED
  BY <1>1, <1>2, <1>3, PTL DEF AllSpec
-----------------------------------------------------------------------------
(* Extensions of a plugin and its author's edits.                          *)

ProjectFiles == {"source", "fixture", "defaults", "config", "spec", "state"}
EditedFiles == {"source", "fixture", "defaults", "config", "spec"}
EditPlaces == EditedHooks \cup {"rest"} \cup EditedSettings

\* What the author has done to a file.
EditKinds ==
  {r \in [file : EditedFiles, at : EditPlaces, exposed : BOOLEAN, backup : Extenders \cup {None}] :
     r.at \in Extension!Places(r.file)}

\* The steps at which an extension has read the files, has decided what to write,
\* and may have written.
HasSnapshots == {"merge", "check", "compare", "write", "rollback"}
HasChanges == {"check", "compare", "write", "rollback"}
HasPlan == {"check", "compare", "write"}
Replacing == {"compare", "write", "rollback"}

\* The shape of the files whose parts are told apart.
FileShaped(f, c) ==
  /\ f = "source" => DOMAIN c = {"blocks", "imports", "rest"} /\ DOMAIN c.blocks = Extension!Hooks
  /\ f = "config" => DOMAIN c = {"of", "edited"}
  /\ f = "spec" => DOMAIN c = {"there", "features", "edited"}

ProjectShaped(D) == DOMAIN D = ProjectFiles /\ \A f \in ProjectFiles : FileShaped(f, D[f])

\* A content holds no edit that has not been made: a copy of a file that was read
\* earlier cannot have a later one.
EditsNumbered(ed, f, c) ==
  \A at \in Extension!Places(f) : \A i : Extension!Keeps(f, at, i, c) => i \in DOMAIN ed

\* The edits that nothing may overwrite and that are not in a backup only, and
\* what has all of those of a file.
LastingEdits(ed) == {i \in DOMAIN ed : ~ed[i].exposed /\ ed[i].backup = None}
KeepsEdit(ed, i, c) == Extension!Keeps(ed[i].file, ed[i].at, i, c)
KeepsLasting(ed, f, c) == \A i \in LastingEdits(ed) : ed[i].file = f => KeepsEdit(ed, i, c)

\* Content w of the file f has whatever lasting edits c has.
PassesOn(ed, f, c, w) ==
  \A i \in LastingEdits(ed) : ed[i].file = f /\ KeepsEdit(ed, i, c) => KeepsEdit(ed, i, w)

\* The places in the order of the files that are not replaced yet.
Unwritten(ch, ap) ==
  {n \in DOMAIN Extension!Files : Extension!Files[n] \in DOMAIN ch \ Extension!Range(ap)}

EditsTypeOK(ed) == ed \in Seq(EditKinds)

\* The same edits, whatever has become of them.
SameEdits(ed, ed2) ==
  DOMAIN ed2 = DOMAIN ed /\ \A i \in DOMAIN ed : ed2[i].file = ed[i].file /\ ed2[i].at = ed[i].at

\* The files on the disk have the lasting edits, all of them.
DiskKeeps(ed, D) ==
  /\ ProjectShaped(D)
  /\ \A f \in EditedFiles : EditsNumbered(ed, f, D[f]) /\ KeepsLasting(ed, f, D[f])

\* The spec as read has them until the snapshots are taken.
SpecKeeps(ed, st, or) ==
  /\ st \in {"baseline", "snapshot", "merge"} => EditsNumbered(ed, "spec", or)
  /\ st \in {"baseline", "snapshot"} => KeepsLasting(ed, "spec", or)

\* Whatever lasting edit of the spec the snapshot has, the spec as read has too.
SnapshotsKeep(ed, st, or, sn) ==
  /\ st \in HasSnapshots => ProjectShaped(sn) /\ \A f \in EditedFiles : EditsNumbered(ed, f, sn[f])
  /\ st = "merge" => PassesOn(ed, "spec", sn["spec"], or)

\* What is to be written has the lasting edits the snapshot has.
ChangesKeep(ed, st, sn, ch) ==
  st \in HasPlan =>
    /\ DOMAIN ch \subseteq ProjectFiles
    /\ \A f \in DOMAIN ch : FileShaped(f, ch[f])
    /\ \A f \in DOMAIN ch \cap EditedFiles : EditsNumbered(ed, f, ch[f]) /\ PassesOn(ed, f, sn[f], ch[f])

\* The snapshots of the files that were replaced, and of the one that was compared
\* and is to be replaced next, have all lasting edits.
AppliedKeep(ed, st, sn, ch, ap) ==
  /\ ap \in Seq(ProjectFiles)
  /\ st \in Replacing => \A f \in Extension!Range(ap) \cap EditedFiles : KeepsLasting(ed, f, sn[f])
  /\ st = "write" =>
       /\ Unwritten(ch, ap) # {}
       /\ Extension!FileAt(Unwritten(ch, ap)) \in EditedFiles =>
            KeepsLasting(ed, Extension!FileAt(Unwritten(ch, ap)), sn[Extension!FileAt(Unwritten(ch, ap))])
  /\ st \notin Replacing \cup {"ended"} => ap = <<>>

ExtenderKeeps(ed, st, or, sn, ch, ap) ==
  /\ SpecKeeps(ed, st, or)
  /\ SnapshotsKeep(ed, st, or, sn)
  /\ ChangesKeep(ed, st, sn, ch)
  /\ AppliedKeep(ed, st, sn, ch, ap)

\* A file that e has emptied has no lasting edits until it is put back, and the
\* edits that are in the backup of e are there.
BackupKeeps(ed, e, st, sn, rs) ==
  /\ rs # None => st \in {"rollback", "ended"} /\ rs \in ProjectFiles
  /\ st = "rollback" /\ rs # None => \A i \in LastingEdits(ed) : ed[i].file # rs
  /\ \A i \in DOMAIN ed : ed[i].backup = e /\ ~ed[i].exposed =>
       st \in {"rollback", "ended"} /\ KeepsEdit(ed, i, sn[ed[i].file])

ExtendersMapped ==
  /\ DOMAIN extendStep = Extenders /\ DOMAIN original = Extenders /\ DOMAIN snapshots = Extenders
  /\ DOMAIN changes = Extenders /\ DOMAIN applied = Extenders /\ DOMAIN restoring = Extenders

\* The inductive invariant of the edits.
ExtensionInv ==
  /\ EditsTypeOK(edits) /\ ExtendersMapped
  /\ DiskKeeps(edits, disk)
  /\ \A e \in Extenders :
       /\ ExtenderKeeps(edits, extendStep[e], original[e], snapshots[e], changes[e], applied[e])
       /\ BackupKeeps(edits, e, extendStep[e], snapshots[e], restoring[e])

\* The order of writing names every file of the project.
LEMMA FilesAre == Extension!Range(Extension!Files) = ProjectFiles
  BY DEF Extension!Range, Extension!Files, ProjectFiles

\* What is generated is never taken for the author's.
LEMMA BlocksAreGenerated ==
  ASSUME NEW h, NEW F
  PROVE  ~Extension!IsOwn(Extension!Block(h, F)) /\ ~Extension!IsEdited(Extension!Block(h, F))
  BY DEF Extension!Block, Extension!IsOwn, Extension!IsEdited, Extension!Absent

LEMMA LastingIsShort == ASSUME NEW ed PROVE LastingEdits(ed) \subseteq DOMAIN ed
  BY DEF LastingEdits

\* Where an edit was made.
LEMMA EditsTyped ==
  ASSUME NEW ed, EditsTypeOK(ed), NEW i \in DOMAIN ed
  PROVE  /\ ed[i] \in EditKinds
         /\ ed[i].file \in EditedFiles /\ ed[i].at \in Extension!Places(ed[i].file)
         /\ ed[i].exposed \in BOOLEAN /\ ed[i].backup \in Extenders \cup {None}
<1>1. ed \in Seq(EditKinds)
  BY DEF EditsTypeOK
<1>2. ed[i] \in EditKinds
  BY <1>1
<1> QED BY <1>2 DEF EditKinds

\* A sequence of edits that are typed.
LEMMA EditsMarked ==
  ASSUME NEW ed, EditsTypeOK(ed), NEW ed2, DOMAIN ed2 = DOMAIN ed, ed2 = [i \in DOMAIN ed |-> ed2[i]],
         \A i \in DOMAIN ed : ed2[i] \in EditKinds
  PROVE  EditsTypeOK(ed2)
<1>1. ed \in Seq(EditKinds)
  BY DEF EditsTypeOK
<1>2. DOMAIN ed = 1..Len(ed) /\ Len(ed) \in Nat
  BY <1>1
<1>3. ed2 \in [1..Len(ed) -> EditKinds]
  BY <1>2
<1> HIDE DEF EditKinds
<1> QED BY <1>2, <1>3 DEF EditsTypeOK

\* An edit that is added.
LEMMA LastingGrows ==
  ASSUME NEW ed, EditsTypeOK(ed), NEW r \in EditKinds
  PROVE  /\ EditsTypeOK(Append(ed, r))
         /\ DOMAIN Append(ed, r) = DOMAIN ed \cup {Len(ed) + 1}
         /\ Len(ed) + 1 \notin DOMAIN ed
         /\ \A i \in DOMAIN ed : Append(ed, r)[i] = ed[i]
         /\ Append(ed, r)[Len(ed) + 1] = r
         /\ \A i \in LastingEdits(Append(ed, r)) : i \in LastingEdits(ed) \/ (i = Len(ed) + 1 /\ ~r.exposed)
<1>1. ed \in Seq(EditKinds)
  BY DEF EditsTypeOK
<1>2. /\ Append(ed, r) \in Seq(EditKinds)
      /\ DOMAIN Append(ed, r) = 1..(Len(ed) + 1)
      /\ DOMAIN ed = 1..Len(ed) /\ Len(ed) \in Nat
      /\ \A i \in 1..Len(ed) : Append(ed, r)[i] = ed[i]
      /\ Append(ed, r)[Len(ed) + 1] = r
  BY <1>1
<1>3. EditsTypeOK(Append(ed, r))
  BY <1>2 DEF EditsTypeOK
<1>4. DOMAIN Append(ed, r) = DOMAIN ed \cup {Len(ed) + 1} /\ Len(ed) + 1 \notin DOMAIN ed
  BY <1>2
<1>5. ASSUME NEW i \in LastingEdits(Append(ed, r))
      PROVE  i \in LastingEdits(ed) \/ (i = Len(ed) + 1 /\ ~r.exposed)
  <2>1. /\ i \in DOMAIN Append(ed, r)
        /\ ~Append(ed, r)[i].exposed /\ Append(ed, r)[i].backup = None
    BY DEF LastingEdits
  <2>2. CASE i \in DOMAIN ed
    <3>1. Append(ed, r)[i] = ed[i]
      BY <1>2, <2>2
    <3>2. ~ed[i].exposed /\ ed[i].backup = None
      BY <2>1, <3>1
    <3> QED BY <2>2, <3>2 DEF LastingEdits
  <2>3. CASE i = Len(ed) + 1
    <3>1. ~r.exposed
      BY <2>1, <2>3, <1>2
    <3> QED BY <2>3, <3>1
  <2> QED BY <1>4, <2>1, <2>2, <2>3
<1> QED BY <1>2, <1>3, <1>4, <1>5

\* What is known stays known when fewer edits last.
LEMMA LastingShrinks ==
  ASSUME NEW ed, NEW ed2, SameEdits(ed, ed2), LastingEdits(ed2) \subseteq LastingEdits(ed)
  PROVE  /\ \A f, c : EditsNumbered(ed, f, c) => EditsNumbered(ed2, f, c)
         /\ \A D : DiskKeeps(ed, D) => DiskKeeps(ed2, D)
         /\ \A st, or, sn, ch, ap :
              ExtenderKeeps(ed, st, or, sn, ch, ap) => ExtenderKeeps(ed2, st, or, sn, ch, ap)
<1>1. \A f, c : EditsNumbered(ed, f, c) => EditsNumbered(ed2, f, c)
  BY DEF EditsNumbered, SameEdits
<1>2. \A i \in LastingEdits(ed2) : /\ i \in LastingEdits(ed) /\ i \in DOMAIN ed
                                  /\ ed2[i].file = ed[i].file /\ ed2[i].at = ed[i].at
  BY LastingIsShort DEF SameEdits
<1>3. \A f, c : KeepsLasting(ed, f, c) => KeepsLasting(ed2, f, c)
  BY <1>2 DEF KeepsLasting, KeepsEdit
<1>4. \A f, c, w : PassesOn(ed, f, c, w) => PassesOn(ed2, f, c, w)
  BY <1>2 DEF PassesOn, KeepsEdit
<1>5. \A D : DiskKeeps(ed, D) => DiskKeeps(ed2, D)
  BY <1>1, <1>3 DEF DiskKeeps
<1>6. ASSUME NEW st, NEW or, NEW sn, NEW ch, NEW ap, ExtenderKeeps(ed, st, or, sn, ch, ap)
      PROVE  ExtenderKeeps(ed2, st, or, sn, ch, ap)
  <2>1. /\ SpecKeeps(ed, st, or) /\ SnapshotsKeep(ed, st, or, sn) /\ ChangesKeep(ed, st, sn, ch)
        /\ AppliedKeep(ed, st, sn, ch, ap)
    BY <1>6 DEF ExtenderKeeps
  <2>2. SpecKeeps(ed2, st, or)
    BY <2>1, <1>1, <1>3 DEF SpecKeeps
  <2>3. SnapshotsKeep(ed2, st, or, sn)
    BY <2>1, <1>1, <1>4 DEF SnapshotsKeep
  <2>4. ChangesKeep(ed2, st, sn, ch)
    BY <2>1, <1>1, <1>4 DEF ChangesKeep
  <2>5. AppliedKeep(ed2, st, sn, ch, ap)
    BY <2>1, <1>3 DEF AppliedKeep
  <2> QED BY <2>2, <2>3, <2>4, <2>5 DEF ExtenderKeeps
<1> QED BY <1>1, <1>5, <1>6

\* Nothing is known of one that does not work.
LEMMA IdleKnowsNothing ==
  ASSUME NEW ed, NEW ed2, NEW st \in {"start", "ended"}, NEW or, NEW sn, NEW ch, NEW ap,
         ExtenderKeeps(ed, st, or, sn, ch, ap)
  PROVE  ExtenderKeeps(ed2, st, or, sn, ch, ap)
<1>1. AppliedKeep(ed2, st, sn, ch, ap)
  BY DEF ExtenderKeeps, AppliedKeep, Replacing
<1> QED BY <1>1 DEF ExtenderKeeps, SpecKeeps, SnapshotsKeep, ChangesKeep, HasSnapshots, HasPlan

\* One that puts nothing back goes on, or one that does ends.
LEMMA BackupStays ==
  ASSUME NEW ed, NEW e, NEW st, NEW sn, NEW rs, BackupKeeps(ed, e, st, sn, rs), NEW st2, NEW sn2,
         st \notin {"rollback", "ended"} \/ (st2 = "ended" /\ sn2 = sn)
  PROVE  BackupKeeps(ed, e, st2, sn2, rs)
  BY DEF BackupKeeps

\* What an edit makes of a file.
LEMMA EditsAddUp ==
  ASSUME NEW f \in EditedFiles, NEW at \in Extension!Places(f), NEW i,
         FileShaped(f, disk[f]), NEW c \in Extension!AfterEdit(f, at, i)
  PROVE  /\ FileShaped(f, c)
         /\ Extension!Keeps(f, at, i, c)
         /\ \A p \in Extension!Places(f) : \A j : Extension!Keeps(f, p, j, disk[f]) => Extension!Keeps(f, p, j, c)
         /\ \A p \in Extension!Places(f) : \A j : Extension!Keeps(f, p, j, c) => j = i \/ Extension!Keeps(f, p, j, disk[f])
<1> DEFINE o == disk[f]
<1>1. CASE f = "source" /\ at = "rest"
  <2>1. c = [o EXCEPT !.rest = @ \cup {i}]
    BY <1>1 DEF Extension!AfterEdit
  <2>2. DOMAIN o = {"blocks", "imports", "rest"} /\ DOMAIN o.blocks = Extension!Hooks
    BY <1>1 DEF FileShaped
  <2> HIDE DEF o
  <2>3. DOMAIN c = DOMAIN o /\ c.blocks = o.blocks /\ c.rest = o.rest \cup {i}
    BY <2>1, <2>2
  <2> USE DEF o
  <2> QED BY <1>1, <2>2, <2>3 DEF FileShaped, Extension!Keeps
<1>2. CASE f = "source" /\ at # "rest"
  <2>1. /\ ~Extension!IsOwn(o.blocks[at]) /\ ~Extension!IsEdited(o.blocks[at])
        /\ \E blk \in {Extension!Own({i}), Extension!Edited({i})} : c = [o EXCEPT !.blocks[at] = blk]
    BY <1>2 DEF Extension!AfterEdit
  <2>2. PICK blk \in {Extension!Own({i}), Extension!Edited({i})} : c = [o EXCEPT !.blocks[at] = blk]
    BY <2>1
  <2>3. /\ DOMAIN o = {"blocks", "imports", "rest"}
        /\ DOMAIN o.blocks = Extension!Hooks
        /\ at \in Extension!Hooks
    BY <1>2, ExtensionHolds DEF FileShaped, Extension!Places, Extension!ExtensionAssumption
  <2> HIDE DEF o
  <2>4. c = [o EXCEPT !["blocks"] = [o.blocks EXCEPT ![at] = blk]]
    BY <2>2
  <2>5. /\ DOMAIN c = DOMAIN o /\ c.rest = o.rest
        /\ c.blocks = [o.blocks EXCEPT ![at] = blk]
    BY <2>3, <2>4
  <2>6. /\ DOMAIN c.blocks = Extension!Hooks /\ c.blocks[at] = blk
        /\ \A h \in Extension!Hooks \ {at} : c.blocks[h] = o.blocks[h]
    BY <2>3, <2>5
  <2>7. (Extension!IsOwn(blk) \/ Extension!IsEdited(blk)) /\ blk[2] = {i}
    BY DEF Extension!IsOwn, Extension!IsEdited, Extension!Own, Extension!Edited
  <2> USE DEF o
  <2>8. FileShaped(f, c)
    BY <1>2, <2>3, <2>5, <2>6 DEF FileShaped
  <2>9. Extension!Keeps(f, at, i, c)
    BY <1>2, <2>6, <2>7 DEF Extension!Keeps
  <2>10. ASSUME NEW p \in Extension!Places(f), NEW j, p # "rest"
         PROVE  /\ Extension!Keeps(f, p, j, o) => Extension!Keeps(f, p, j, c)
                /\ Extension!Keeps(f, p, j, c) => j = i \/ Extension!Keeps(f, p, j, o)
    <3>1. p \in Extension!Hooks
      BY <1>2, <2>10, ExtensionHolds DEF Extension!Places, Extension!ExtensionAssumption
    <3>2. CASE p = at
      BY <1>2, <2>1, <2>6, <2>7, <2>10, <3>2 DEF Extension!Keeps
    <3>3. CASE p # at
      BY <1>2, <2>6, <2>10, <3>1, <3>3 DEF Extension!Keeps
    <3> QED BY <3>2, <3>3
  <2>11. ASSUME NEW p \in Extension!Places(f), NEW j, p = "rest"
         PROVE  Extension!Keeps(f, p, j, o) <=> Extension!Keeps(f, p, j, c)
    BY <1>2, <2>5, <2>11 DEF Extension!Keeps
  <2> QED BY <2>8, <2>9, <2>10, <2>11
<1>3. CASE f \in {"fixture", "defaults"}
  <2>1. c = Extension!Edited({i} \cup (IF Extension!IsEdited(o) THEN o[2] ELSE {}))
    BY <1>3 DEF Extension!AfterEdit
  <2> HIDE DEF o
  <2>2. /\ Extension!IsEdited(c) /\ i \in c[2]
        /\ Extension!IsEdited(o) => c[2] = {i} \cup o[2]
        /\ ~Extension!IsEdited(o) => c[2] = {i}
    <3>1. Extension!IsEdited(c) /\ c[2] = {i} \cup (IF Extension!IsEdited(o) THEN o[2] ELSE {})
      BY <2>1 DEF Extension!Edited, Extension!IsEdited
    <3> QED BY <3>1
  <2>3. Extension!Keeps(f, at, i, c)
    BY <1>3, <2>2 DEF Extension!Keeps
  <2>4. ASSUME NEW p \in Extension!Places(f), NEW j
        PROVE  /\ Extension!Keeps(f, p, j, o) => Extension!Keeps(f, p, j, c)
               /\ Extension!Keeps(f, p, j, c) => j = i \/ Extension!Keeps(f, p, j, o)
    <3>2. \A w : Extension!Keeps(f, p, j, w) <=> (Extension!IsEdited(w) /\ j \in w[2])
      BY <1>3 DEF Extension!Keeps
    <3> QED BY <2>2, <3>2
  <2>5. FileShaped(f, c)
    BY <1>3 DEF FileShaped
  <2> USE DEF o
  <2> QED BY <2>3, <2>4, <2>5
<1>4. CASE f \in {"config", "spec"}
  <2>1. c = [o EXCEPT !.edited = @ \cup {<<i, at>>}]
    BY <1>4 DEF Extension!AfterEdit
  <2>2. "edited" \in DOMAIN o
    BY <1>4 DEF FileShaped
  <2>3. DOMAIN c = DOMAIN o /\ c.edited = o.edited \cup {<<i, at>>}
    <3> HIDE DEF o
    <3> QED BY <2>1, <2>2
  <2>5. FileShaped(f, c)
    BY <1>4, <2>2, <2>3 DEF FileShaped
  <2> QED BY <1>4, <2>3, <2>5 DEF Extension!Keeps
<1> QED BY <1>1, <1>2, <1>3, <1>4 DEF EditedFiles

\* What an extension means to write keeps what the author wrote.
LEMMA CandidatesKeep ==
  ASSUME NEW sn, NEW or, NEW base, NEW F, NEW U, NEW config, NEW defaults, ProjectShaped(sn),
         ~Extension!Conflicts(sn, base, F, U, defaults),
         NEW C, C = Extension!Candidates(sn, or, base, F, config)
  PROVE  /\ ProjectShaped(C)
         /\ \A at \in Extension!Places("source") : \A i :
              Extension!Keeps("source", at, i, C["source"]) <=> Extension!Keeps("source", at, i, sn["source"])
         /\ \A at, i :
              /\ Extension!Keeps("fixture", at, i, C["fixture"]) <=> Extension!Keeps("fixture", at, i, sn["fixture"])
              /\ ~Extension!Keeps("defaults", at, i, C["defaults"])
              /\ ~Extension!Keeps("defaults", at, i, defaults)
              /\ Extension!Keeps("config", at, i, C["config"]) => Extension!Keeps("config", at, i, config)
              /\ Extension!Keeps("spec", at, i, C["spec"]) => Extension!Keeps("spec", at, i, or)
         /\ \A at, i : at \notin Extension!Redone =>
              /\ Extension!Keeps("config", at, i, config) => Extension!Keeps("config", at, i, C["config"])
              /\ Extension!Keeps("spec", at, i, or) => Extension!Keeps("spec", at, i, C["spec"])
<1> DEFINE names == UNION {Extension!SecretsOf(f) : f \in F}
<1>1. /\ DOMAIN C = ProjectFiles
      /\ C["source"] = [blocks |-> [h \in Extension!Hooks |-> Extension!ReplacedBlock(h, sn.source.blocks[h], base, F)],
                       imports |-> Extension!ImportBlock(F), rest |-> sn.source.rest]
      /\ C["fixture"] = (IF base = Extension!Absent THEN sn.fixture ELSE Extension!Generated(F))
      /\ C["defaults"] = Extension!Generated(F)
      /\ C["config"] = [of |-> F \cup config.of, edited |-> Extension!Dumped(config.edited, {})]
      /\ C["spec"] = [there |-> TRUE, features |-> F, edited |-> Extension!Dumped(or.edited, names)]
  BY DEF Extension!Candidates, ProjectFiles
<1>2. /\ DOMAIN C["source"] = {"blocks", "imports", "rest"} /\ C["source"].rest = sn["source"].rest
      /\ C["source"].blocks = [h \in Extension!Hooks |-> Extension!ReplacedBlock(h, sn["source"].blocks[h], base, F)]
  BY <1>1
<1>3. /\ DOMAIN C["source"].blocks = Extension!Hooks
      /\ \A h \in Extension!Hooks : C["source"].blocks[h] = Extension!ReplacedBlock(h, sn["source"].blocks[h], base, F)
  BY <1>2
<1>4. /\ DOMAIN C["config"] = {"of", "edited"} /\ C["config"].edited = Extension!Dumped(config.edited, {})
      /\ DOMAIN C["spec"] = {"there", "features", "edited"} /\ C["spec"].edited = Extension!Dumped(or.edited, names)
  BY <1>1
<1>5. ProjectShaped(C)
  BY <1>1, <1>2, <1>3, <1>4 DEF ProjectShaped, FileShaped
<1>6. \A G : ~Extension!IsEdited(Extension!Generated(G))
  BY DEF Extension!IsEdited, Extension!Generated
<1>7. ASSUME NEW at \in Extension!Places("source"), NEW i
      PROVE  Extension!Keeps("source", at, i, C["source"]) <=> Extension!Keeps("source", at, i, sn["source"])
  <2>1. CASE at = "rest"
    BY <1>2, <2>1 DEF Extension!Keeps
  <2>2. CASE at # "rest"
    <3> DEFINE blk == sn["source"].blocks[at]
               w == Extension!ReplacedBlock(at, blk, base, F)
    <3>1. at \in Extension!Hooks
      BY <2>2, ExtensionHolds DEF Extension!Places, Extension!ExtensionAssumption
    <3>2. C["source"].blocks[at] = w
      BY <3>1, <1>3
    <3>3. /\ ~Extension!IsOwn(Extension!Block(at, F)) /\ ~Extension!IsEdited(Extension!Block(at, F))
          /\ ~Extension!IsOwn(Extension!OldBlock(at, base))
          /\ ~Extension!IsEdited(Extension!OldBlock(at, base))
      BY BlocksAreGenerated DEF Extension!OldBlock, Extension!IsOwn, Extension!IsEdited,
         Extension!Absent
    <3>4. (Extension!IsOwn(blk) \/ Extension!IsEdited(blk)) => w = blk
      <4>1. CASE Extension!IsOwn(blk)
        BY <4>1 DEF Extension!ReplacedBlock, Extension!IsMarked
      <4>2. CASE Extension!IsEdited(blk) /\ ~Extension!IsOwn(blk)
        <5> HIDE DEF blk
        <5>1. blk # Extension!Absent
          BY <4>2 DEF Extension!IsEdited, Extension!Absent
        <5>2. blk # Extension!OldBlock(at, base)
          BY <4>2, <3>3
        <5> QED BY <4>2, <5>1, <5>2 DEF Extension!ReplacedBlock, Extension!IsMarked, w
      <4> QED BY <4>1, <4>2
    <3>5. w = blk \/ w = Extension!Block(at, F)
      BY DEF Extension!ReplacedBlock
    <3> HIDE DEF blk, w
    <3>6. ((Extension!IsOwn(w) \/ Extension!IsEdited(w)) /\ i \in w[2]) <=> ((Extension!IsOwn(blk) \/ Extension!IsEdited(blk)) /\ i \in blk[2])
      BY <3>3, <3>4, <3>5
    <3>7. /\ Extension!Keeps("source", at, i, C["source"]) <=> ((Extension!IsOwn(w) \/ Extension!IsEdited(w)) /\ i \in w[2])
          /\ Extension!Keeps("source", at, i, sn["source"]) <=> ((Extension!IsOwn(blk) \/ Extension!IsEdited(blk)) /\ i \in blk[2])
      BY <2>2, <3>2 DEF Extension!Keeps, blk
    <3> QED BY <3>6, <3>7
  <2> QED BY <2>1, <2>2
<1>8. \A f \in {"fixture", "defaults"} : \A at, i, c : Extension!Keeps(f, at, i, c) <=> (Extension!IsEdited(c) /\ i \in c[2])
  BY DEF Extension!Keeps
<1>9. \A c : Extension!WholeConflicts(c, base, F) \/ ~Extension!IsEdited(c)
  BY DEF Extension!WholeConflicts, Extension!IsEdited, Extension!Generated, Extension!Absent
<1>10. \A at, i : Extension!Keeps("fixture", at, i, C["fixture"]) <=> Extension!Keeps("fixture", at, i, sn["fixture"])
  <2>1. CASE base = Extension!Absent
    BY <1>1, <2>1
  <2>2. CASE base # Extension!Absent
    <3>1. ~Extension!WholeConflicts(sn.fixture, base, F)
      BY <2>2 DEF Extension!Conflicts, Extension!FixtureConflicts
    <3>2. ~Extension!IsEdited(sn["fixture"]) /\ ~Extension!IsEdited(C["fixture"])
      BY <3>1, <1>9, <1>1, <1>6, <2>2
    <3> QED BY <3>2, <1>8
  <2> QED BY <2>1, <2>2
<1>11. \A at, i : /\ ~Extension!Keeps("defaults", at, i, C["defaults"])
                  /\ ~Extension!Keeps("defaults", at, i, defaults)
  <2>1. ~Extension!WholeConflicts(defaults, base, F)
    BY DEF Extension!Conflicts
  <2> QED BY <2>1, <1>1, <1>6, <1>8, <1>9
<1>12. \A f \in {"config", "spec"} : \A at, i, c : Extension!Keeps(f, at, i, c) <=> <<i, at>> \in c.edited
  BY DEF Extension!Keeps
<1>13. \A at : at \notin Extension!Redone => at # "remark" /\ at \notin names
  BY DEF Extension!Redone, Extension!SecretsOf, Extension!Auth
<1> HIDE DEF names
<1>14. \A at, i, S, N : <<i, at>> \in Extension!Dumped(S, N) <=> <<i, at>> \in S /\ at # "remark" /\ at \notin N
  BY DEF Extension!Dumped
<1>15. ASSUME NEW at, NEW i
       PROVE  /\ Extension!Keeps("config", at, i, C["config"]) => Extension!Keeps("config", at, i, config)
              /\ Extension!Keeps("spec", at, i, C["spec"]) => Extension!Keeps("spec", at, i, or)
              /\ at \notin Extension!Redone =>
                   /\ Extension!Keeps("config", at, i, config) => Extension!Keeps("config", at, i, C["config"])
                   /\ Extension!Keeps("spec", at, i, or) => Extension!Keeps("spec", at, i, C["spec"])
  <2>1. Extension!Keeps("config", at, i, C["config"]) <=> <<i, at>> \in Extension!Dumped(config.edited, {})
    BY <1>4, <1>12
  <2>2. Extension!Keeps("spec", at, i, C["spec"]) <=> <<i, at>> \in Extension!Dumped(or.edited, names)
    BY <1>4, <1>12
  <2>3. /\ Extension!Keeps("config", at, i, config) <=> <<i, at>> \in config.edited
        /\ Extension!Keeps("spec", at, i, or) <=> <<i, at>> \in or.edited
    BY <1>12
  <2>4. /\ <<i, at>> \in Extension!Dumped(config.edited, {}) <=> <<i, at>> \in config.edited /\ at # "remark"
        /\ <<i, at>> \in Extension!Dumped(or.edited, names) <=>
             <<i, at>> \in or.edited /\ at # "remark" /\ at \notin names
    BY <1>14
  <2> QED BY <2>1, <2>2, <2>3, <2>4, <1>13
<1> QED BY <1>5, <1>7, <1>10, <1>11, <1>15

\* The next file is the first of those that are left.
LEMMA PlacesGiven ==
  ASSUME NEW S, S # {}, S \subseteq DOMAIN Extension!Files
  PROVE  \E n \in S : Extension!FileAt(S) = Extension!Files[n] /\ \A m \in S : n <= m
<1>1. DOMAIN Extension!Files = 1..6
  BY DEF Extension!Files
<1>2. \E n \in S : \A m \in S : n <= m
  <2>1. CASE 1 \in S
    BY <1>1, <2>1
  <2>2. CASE 1 \notin S /\ 2 \in S
    BY <1>1, <2>2
  <2>3. CASE S \cap {1, 2} = {} /\ 3 \in S
    BY <1>1, <2>3
  <2>4. CASE S \cap {1, 2, 3} = {} /\ 4 \in S
    BY <1>1, <2>4
  <2>5. CASE S \cap {1, 2, 3, 4} = {} /\ 5 \in S
    BY <1>1, <2>5
  <2>6. CASE S \cap {1, 2, 3, 4, 5} = {}
    <3>1. S = {6}
      BY <1>1, <2>6
    <3> QED BY <3>1
  <2> QED BY <2>1, <2>2, <2>3, <2>4, <2>5, <2>6
<1> QED BY <1>2 DEF Extension!FileAt

\* The next file is one that is to be written.
LEMMA NextIsPlanned ==
  ASSUME NEW ch, NEW ap, Unwritten(ch, ap) # {}
  PROVE  Extension!FileAt(Unwritten(ch, ap)) \in DOMAIN ch
<1>1. \E n \in Unwritten(ch, ap) : Extension!FileAt(Unwritten(ch, ap)) = Extension!Files[n]
  BY PlacesGiven DEF Unwritten
<1> QED BY <1>1 DEF Unwritten

\* A file joins those that were replaced.
LEMMA Appended ==
  ASSUME NEW S, NEW s \in Seq(S), NEW v \in S
  PROVE  Append(s, v) \in Seq(S) /\ Extension!Range(Append(s, v)) = Extension!Range(s) \cup {v}
<1>1. /\ Append(s, v) \in Seq(S) /\ DOMAIN s = 1..Len(s) /\ Len(s) \in Nat
      /\ DOMAIN Append(s, v) = 1..(Len(s) + 1)
      /\ \A i \in 1..Len(s) : Append(s, v)[i] = s[i]
      /\ Append(s, v)[Len(s) + 1] = v
  OBVIOUS
<1>2. \A i \in DOMAIN Append(s, v) : i \in DOMAIN s \/ i = Len(s) + 1
  BY <1>1
<1>3. Extension!Range(Append(s, v)) \subseteq Extension!Range(s) \cup {v}
  BY <1>1, <1>2 DEF Extension!Range
<1>4. Extension!Range(s) \subseteq Extension!Range(Append(s, v))
  BY <1>1 DEF Extension!Range
<1>5. v \in Extension!Range(Append(s, v))
  <2>1. Len(s) + 1 \in DOMAIN Append(s, v)
    BY <1>1
  <2> QED BY <2>1, <1>1 DEF Extension!Range
<1> QED BY <1>1, <1>3, <1>4, <1>5

\* The last of them leaves.
LEMMA Shortened ==
  ASSUME NEW S, NEW s \in Seq(S), s # <<>>
  PROVE  Extension!Last(s) \in Extension!Range(s) /\ Extension!Last(s) \in S /\ Extension!Front(s) \in Seq(S) /\ Extension!Range(Extension!Front(s)) \subseteq Extension!Range(s)
<1>1. Len(s) \in Nat \ {0} /\ DOMAIN s = 1..Len(s)
  OBVIOUS
<1>2. Extension!Last(s) = s[Len(s)] /\ Len(s) \in DOMAIN s
  BY <1>1 DEF Extension!Last
<1>3. /\ Extension!Front(s) \in Seq(S) /\ DOMAIN Extension!Front(s) = 1..(Len(s) - 1)
      /\ \A i \in 1..(Len(s) - 1) : Extension!Front(s)[i] = s[i]
  BY <1>1 DEF Extension!Front
<1> QED BY <1>1, <1>2, <1>3 DEF Extension!Range

\* What is known of an extension stays known when the author edits a file.
LEMMA EditsAreSeen ==
  ASSUME NEW ed, EditsTypeOK(ed), NEW r,
         r \in EditKinds, NEW st, NEW or, NEW sn, NEW ch, NEW ap, ExtenderKeeps(ed, st, or, sn, ch, ap),
         ~r.exposed => /\ st = "write" => r.file # Extension!FileAt(Unwritten(ch, ap))
                       /\ st \in Replacing => r.file \notin Extension!Range(ap)
                       /\ st \in {"baseline", "snapshot"} => r.file # "spec"
  PROVE  ExtenderKeeps(Append(ed, r), st, or, sn, ch, ap)
<1> DEFINE ed2 == Append(ed, r)
           n == Len(ed) + 1
<1>1. /\ DOMAIN ed2 = DOMAIN ed \cup {n} /\ n \notin DOMAIN ed
      /\ \A i \in DOMAIN ed : ed2[i] = ed[i]
      /\ ed2[n] = r /\ r.file \in EditedFiles /\ r.at \in Extension!Places(r.file)
      /\ \A i \in LastingEdits(ed2) : i \in LastingEdits(ed) \/ (i = n /\ ~r.exposed)
      /\ LastingEdits(ed) \subseteq DOMAIN ed
  BY LastingGrows, LastingIsShort DEF EditKinds
<1> HIDE DEF ed2, n
<1>2. \A f, c : EditsNumbered(ed, f, c) => EditsNumbered(ed2, f, c)
  BY <1>1 DEF EditsNumbered
<1>3. ASSUME NEW f, NEW c, KeepsLasting(ed, f, c), ~r.exposed => r.file # f
      PROVE  KeepsLasting(ed2, f, c)
  <2> SUFFICES ASSUME NEW i \in LastingEdits(ed2), ed2[i].file = f
               PROVE  Extension!Keeps(ed2[i].file, ed2[i].at, i, c)
    BY DEF KeepsLasting, KeepsEdit
  <2>1. i \in LastingEdits(ed) /\ ed2[i] = ed[i]
    BY <1>1, <1>3
  <2> QED BY <2>1, <1>3 DEF KeepsLasting, KeepsEdit
<1>4. ASSUME NEW f, NEW c, NEW w, PassesOn(ed, f, c, w), EditsNumbered(ed, f, c)
      PROVE  PassesOn(ed2, f, c, w)
  <2> SUFFICES ASSUME NEW i \in LastingEdits(ed2), ed2[i].file = f,
                      Extension!Keeps(ed2[i].file, ed2[i].at, i, c)
               PROVE  Extension!Keeps(ed2[i].file, ed2[i].at, i, w)
    BY DEF PassesOn, KeepsEdit
  <2>1. CASE i \in LastingEdits(ed)
    <3>1. ed2[i] = ed[i]
      BY <1>1, <2>1
    <3> QED BY <2>1, <3>1, <1>4 DEF PassesOn, KeepsEdit
  <2>2. CASE i = n
    <3>1. Extension!Keeps(f, r.at, n, c) /\ r.at \in Extension!Places(f)
      BY <1>1, <2>2
    <3>2. n \in DOMAIN ed
      BY <3>1, <1>4 DEF EditsNumbered
    <3> QED BY <3>2, <1>1
  <2> QED BY <2>1, <2>2, <1>1
<1>5. SpecKeeps(ed2, st, or)
  <2>1. SpecKeeps(ed, st, or)
    BY DEF ExtenderKeeps
  <2> QED BY <2>1, <1>2, <1>3 DEF SpecKeeps
<1>6. SnapshotsKeep(ed2, st, or, sn)
  <2>1. SnapshotsKeep(ed, st, or, sn)
    BY DEF ExtenderKeeps
  <2>2. st = "merge" => EditsNumbered(ed, "spec", sn["spec"]) /\ PassesOn(ed, "spec", sn["spec"], or)
    BY <2>1 DEF SnapshotsKeep, HasSnapshots, EditedFiles
  <2>3. st \in HasSnapshots => ProjectShaped(sn) /\ \A f \in EditedFiles : EditsNumbered(ed2, f, sn[f])
    BY <2>1, <1>2 DEF SnapshotsKeep
  <2>4. st = "merge" => PassesOn(ed2, "spec", sn["spec"], or)
    BY <2>2, <1>4
  <2> QED BY <2>3, <2>4 DEF SnapshotsKeep
<1>7. ChangesKeep(ed2, st, sn, ch)
  <2> SUFFICES ASSUME st \in HasPlan
               PROVE  /\ DOMAIN ch \subseteq ProjectFiles
                      /\ \A f \in DOMAIN ch : FileShaped(f, ch[f])
                      /\ \A f \in DOMAIN ch \cap EditedFiles :
                           EditsNumbered(ed2, f, ch[f]) /\ PassesOn(ed2, f, sn[f], ch[f])
    BY DEF ChangesKeep
  <2>1. ChangesKeep(ed, st, sn, ch) /\ SnapshotsKeep(ed, st, or, sn)
    BY DEF ExtenderKeeps
  <2>2. \A f \in EditedFiles : EditsNumbered(ed, f, sn[f])
    BY <2>1 DEF SnapshotsKeep, HasPlan, HasSnapshots
  <2>3. ASSUME NEW f \in DOMAIN ch \cap EditedFiles
        PROVE  EditsNumbered(ed2, f, ch[f]) /\ PassesOn(ed2, f, sn[f], ch[f])
    <3>1. /\ EditsNumbered(ed, f, ch[f])
          /\ PassesOn(ed, f, sn[f], ch[f])
          /\ EditsNumbered(ed, f, sn[f])
      BY <2>1, <2>2 DEF ChangesKeep
    <3> QED BY <3>1, <1>2, <1>4
  <2> QED BY <2>1, <2>3 DEF ChangesKeep
<1>8. AppliedKeep(ed2, st, sn, ch, ap)
  <2>1. AppliedKeep(ed, st, sn, ch, ap)
    BY DEF ExtenderKeeps
  <2>2. ASSUME st \in Replacing, NEW f \in Extension!Range(ap) \cap EditedFiles
        PROVE  KeepsLasting(ed2, f, sn[f])
    <3>1. KeepsLasting(ed, f, sn[f])
      BY <2>1, <2>2 DEF AppliedKeep
    <3>2. ~r.exposed => r.file # f
      BY <2>2
    <3> QED BY <3>1, <3>2, <1>3
  <2>3. ASSUME st = "write", Extension!FileAt(Unwritten(ch, ap)) \in EditedFiles
        PROVE  KeepsLasting(ed2, Extension!FileAt(Unwritten(ch, ap)), sn[Extension!FileAt(Unwritten(ch, ap))])
    <3>1. KeepsLasting(ed, Extension!FileAt(Unwritten(ch, ap)), sn[Extension!FileAt(Unwritten(ch, ap))])
      BY <2>1, <2>3 DEF AppliedKeep
    <3>2. ~r.exposed => r.file # Extension!FileAt(Unwritten(ch, ap))
      BY <2>3
    <3> QED BY <3>1, <3>2, <1>3
  <2> QED BY <2>1, <2>2, <2>3 DEF AppliedKeep
<1> QED BY <1>5, <1>6, <1>7, <1>8 DEF ExtenderKeeps, ed2

\* The author edits a file: the edit lasts unless it is exposed.
LEMMA EditKeeps ==
  ASSUME ExtensionInv, Extension!Edit PROVE ExtensionInv'
<1>1. PICK f \in EditedFiles : \E at \in Extension!Places(f) :
        /\ edits' = Append(edits, [file |-> f, at |-> at, exposed |-> Extension!Exposed(f), backup |-> None])
        /\ \E c \in Extension!AfterEdit(f, at, Len(edits) + 1) : disk' = [disk EXCEPT ![f] = c]
  BY DEF Extension!Edit, EditedFiles
<1>20. PICK at \in Extension!Places(f) :
        /\ edits' = Append(edits, [file |-> f, at |-> at, exposed |-> Extension!Exposed(f), backup |-> None])
        /\ \E c \in Extension!AfterEdit(f, at, Len(edits) + 1) : disk' = [disk EXCEPT ![f] = c]
  BY <1>1
<1>2. PICK c \in Extension!AfterEdit(f, at, Len(edits) + 1) : disk' = [disk EXCEPT ![f] = c]
  BY <1>20
<1> DEFINE n == Len(edits) + 1
           r == [file |-> f, at |-> at, exposed |-> Extension!Exposed(f), backup |-> None]
<1>3. r \in EditKinds
  <2>1. Extension!Exposed(f) \in BOOLEAN
    BY DEF Extension!Exposed
  <2>2. at \in EditPlaces
    BY DEF Extension!Places, EditPlaces
  <2> QED BY <2>1, <2>2 DEF EditKinds
<1>4. r.file = f /\ r.at = at /\ (r.exposed <=> Extension!Exposed(f)) /\ r.backup = None
  OBVIOUS
<1> HIDE DEF r
<1>5. EditsTypeOK(edits) /\ edits' = Append(edits, r)
  BY <1>20 DEF ExtensionInv, r
<1>6. /\ EditsTypeOK(edits')
      /\ DOMAIN edits' = DOMAIN edits \cup {n} /\ n \notin DOMAIN edits
      /\ \A i \in DOMAIN edits : edits'[i] = edits[i]
      /\ edits'[n] = r
      /\ \A i \in LastingEdits(edits') : i \in LastingEdits(edits) \/ (i = n /\ ~r.exposed)
      /\ LastingEdits(edits) \subseteq DOMAIN edits
  BY <1>3, <1>5, LastingGrows, LastingIsShort
<1>7. UNCHANGED <<extendStep, original, snapshots, changes, applied, restoring>>
  BY DEF Extension!Edit
<1>8. ASSUME NEW e \in Extenders
      PROVE  ExtenderKeeps(edits', extendStep'[e], original'[e], snapshots'[e], changes'[e], applied'[e])
  <2>1. ExtenderKeeps(edits, extendStep[e], original[e], snapshots[e], changes[e], applied[e])
    BY DEF ExtensionInv
  <2>2. ~Extension!Exposed(f) => /\ extendStep[e] = "write" => f # Extension!NextFile(e)
                                 /\ extendStep[e] \in Replacing => f \notin Extension!Range(applied[e])
                                 /\ extendStep[e] \in {"baseline", "snapshot"} => f # "spec"
    BY DEF Extension!Exposed, Replacing
  <2>3. Extension!NextFile(e) = Extension!FileAt(Unwritten(changes[e], applied[e]))
    BY DEF Extension!NextFile, Extension!Remaining, Unwritten
  <2>4. ExtenderKeeps(Append(edits, r), extendStep[e], original[e], snapshots[e], changes[e], applied[e])
    BY <1>3, <1>4, <1>5, <2>1, <2>2, <2>3, EditsAreSeen
  <2> QED BY <2>4, <1>5, <1>7
<1> HIDE DEF n
<1>9. DiskKeeps(edits, disk)
  BY DEF ExtensionInv
<1>10. /\ FileShaped(f, disk[f]) /\ DOMAIN disk = ProjectFiles /\ f \in ProjectFiles
       /\ EditsNumbered(edits, f, disk[f]) /\ KeepsLasting(edits, f, disk[f])
  BY <1>9 DEF DiskKeeps, ProjectShaped, EditedFiles, ProjectFiles
<1>11. /\ FileShaped(f, c) /\ Extension!Keeps(f, at, n, c)
       /\ \A p \in Extension!Places(f) : \A j : Extension!Keeps(f, p, j, disk[f]) => Extension!Keeps(f, p, j, c)
       /\ \A p \in Extension!Places(f) : \A j : Extension!Keeps(f, p, j, c) => j = n \/ Extension!Keeps(f, p, j, disk[f])
  BY <1>2, <1>10, EditsAddUp DEF n
<1>12. DOMAIN disk' = ProjectFiles /\ disk'[f] = c /\ \A g \in ProjectFiles \ {f} : disk'[g] = disk[g]
  BY <1>2, <1>10
<1>13. ProjectShaped(disk')
  BY <1>9, <1>11, <1>12 DEF DiskKeeps, ProjectShaped
<1>14. ASSUME NEW g \in EditedFiles PROVE EditsNumbered(edits', g, disk'[g])
  <2>1. CASE g = f
    <3> SUFFICES ASSUME NEW p \in Extension!Places(f), NEW j, Extension!Keeps(f, p, j, c)
                 PROVE  j \in DOMAIN edits'
      BY <2>1, <1>12 DEF EditsNumbered
    <3>1. j = n \/ Extension!Keeps(f, p, j, disk[f])
      BY <1>11
    <3>2. Extension!Keeps(f, p, j, disk[f]) => j \in DOMAIN edits
      BY <1>10 DEF EditsNumbered
    <3> QED BY <3>1, <3>2, <1>6
  <2>2. CASE g # f
    <3>1. disk'[g] = disk[g] /\ EditsNumbered(edits, g, disk[g])
      BY <2>2, <1>9, <1>12 DEF DiskKeeps, EditedFiles, ProjectFiles
    <3> QED BY <3>1, <1>6 DEF EditsNumbered
  <2> QED BY <2>1, <2>2
<1>15. ASSUME NEW g \in EditedFiles PROVE KeepsLasting(edits', g, disk'[g])
  <2> SUFFICES ASSUME NEW i \in LastingEdits(edits'), edits'[i].file = g
               PROVE  Extension!Keeps(edits'[i].file, edits'[i].at, i, disk'[g])
    BY DEF KeepsLasting, KeepsEdit
  <2>1. CASE i = n
    <3>1. edits'[i].file = f /\ edits'[i].at = at
      BY <2>1, <1>4, <1>6
    <3> QED BY <2>1, <3>1, <1>11, <1>12
  <2>2. CASE i \in LastingEdits(edits)
    <3>1. edits'[i] = edits[i] /\ i \in DOMAIN edits
      BY <2>2, <1>6
    <3>2. edits[i].file = g /\ KeepsLasting(edits, g, disk[g])
      BY <3>1, <1>9 DEF DiskKeeps
    <3>3. Extension!Keeps(g, edits[i].at, i, disk[g])
      BY <2>2, <3>2 DEF KeepsLasting, KeepsEdit
    <3>4. edits[i].at \in Extension!Places(g)
      BY <3>1, <3>2, <1>5, EditsTyped
    <3>5. CASE g = f
      <4>1. Extension!Keeps(f, edits[i].at, i, c)
        BY <3>3, <3>4, <3>5, <1>11
      <4> QED BY <4>1, <3>1, <3>2, <3>5, <1>12
    <3>6. CASE g # f
      <4>1. disk'[g] = disk[g]
        BY <3>6, <1>12 DEF EditedFiles, ProjectFiles
      <4> QED BY <4>1, <3>1, <3>2, <3>3
    <3> QED BY <3>5, <3>6
  <2> QED BY <2>1, <2>2, <1>6
<1>16. ExtendersMapped'
  BY <1>7 DEF ExtensionInv, ExtendersMapped
<1>17. ASSUME NEW e \in Extenders
       PROVE  BackupKeeps(edits', e, extendStep[e], snapshots[e], restoring[e])
  <2>1. BackupKeeps(edits, e, extendStep[e], snapshots[e], restoring[e])
    BY DEF ExtensionInv
  <2>2. extendStep[e] = "rollback" /\ ~Extension!Exposed(f) => f # restoring[e]
    BY DEF Extension!Exposed
  <2>3. ASSUME extendStep[e] = "rollback", restoring[e] # None, NEW i \in LastingEdits(edits')
        PROVE  edits'[i].file # restoring[e]
    <3>1. CASE i \in LastingEdits(edits)
      BY <2>1, <2>3, <3>1, <1>6 DEF BackupKeeps
    <3>2. CASE i = n /\ ~r.exposed
      BY <2>2, <2>3, <3>2, <1>4, <1>6
    <3> QED BY <3>1, <3>2, <1>6
  <2>4. ASSUME NEW i \in DOMAIN edits', edits'[i].backup = e, ~edits'[i].exposed
        PROVE  /\ extendStep[e] \in {"rollback", "ended"}
               /\ KeepsEdit(edits', i, snapshots[e][edits'[i].file])
    <3>1. i # n
      BY <2>4, <1>4, <1>6, ExtensionHolds DEF Extension!ExtensionAssumption
    <3>2. i \in DOMAIN edits /\ edits'[i] = edits[i]
      BY <3>1, <1>6
    <3> QED BY <2>1, <2>4, <3>2 DEF BackupKeeps, KeepsEdit
  <2> QED BY <2>1, <2>3, <2>4 DEF BackupKeeps
<1> QED BY <1>6, <1>7, <1>8, <1>13, <1>14, <1>15, <1>16, <1>17 DEF ExtensionInv, DiskKeeps

\* A step of one extension that leaves the project as it is.
LEMMA OneMoves ==
  ASSUME ExtensionInv, NEW e \in Extenders, UNCHANGED <<disk, edits>>,
         ExtendersMapped', \A d \in Extenders \ {e} : /\ extendStep'[d] = extendStep[d] /\ original'[d] = original[d]
                                                    /\ snapshots'[d] = snapshots[d]
                                                    /\ changes'[d] = changes[d]
                                                    /\ applied'[d] = applied[d],
         ExtenderKeeps(edits, extendStep'[e], original'[e], snapshots'[e], changes'[e], applied'[e]),
         UNCHANGED restoring,
         extendStep[e] \notin {"rollback", "ended"} \/ (extendStep'[e] = "ended" /\ snapshots'[e] = snapshots[e])
  PROVE  ExtensionInv'
<1>1. ASSUME NEW d \in Extenders
      PROVE  ExtenderKeeps(edits', extendStep'[d], original'[d], snapshots'[d], changes'[d], applied'[d])
  <2>1. CASE d = e
    BY <2>1
  <2>2. CASE d # e
    BY <2>2 DEF ExtensionInv
  <2> QED BY <2>1, <2>2
<1>2. ASSUME NEW d \in Extenders
      PROVE  BackupKeeps(edits', d, extendStep'[d], snapshots'[d], restoring'[d])
  <2>1. BackupKeeps(edits, d, extendStep[d], snapshots[d], restoring[d])
    BY DEF ExtensionInv
  <2>2. CASE d = e
    BY <2>1, <2>2, BackupStays
  <2>3. CASE d # e
    BY <2>1, <2>3
  <2> QED BY <2>2, <2>3
<1> QED BY <1>1, <1>2 DEF ExtensionInv

\* Each step of an extension keeps the invariant of the edits.
LEMMA ReadSpecKeeps ==
  ASSUME ExtensionInv, NEW e \in Extenders, Extension!ReadSpec(e)
  PROVE  ExtensionInv'
<1>1. /\ extendStep[e] = "start" /\ extendStep' = [extendStep EXCEPT ![e] = "baseline"]
      /\ original' = [original EXCEPT ![e] = disk.spec]
      /\ UNCHANGED <<disk, edits, snapshots, changes, applied, restoring>>
  BY DEF Extension!ReadSpec, Extension!Goto
<1>2. /\ ExtendersMapped
      /\ DiskKeeps(edits, disk)
      /\ ExtenderKeeps(edits, extendStep[e], original[e], snapshots[e], changes[e], applied[e])
  BY DEF ExtensionInv
<1>3. /\ ExtendersMapped' /\ extendStep'[e] = "baseline" /\ original'[e] = disk["spec"]
      /\ \A d \in Extenders \ {e} : extendStep'[d] = extendStep[d] /\ original'[d] = original[d]
  BY <1>1, <1>2 DEF ExtendersMapped
<1>4. EditsNumbered(edits, "spec", disk["spec"]) /\ KeepsLasting(edits, "spec", disk["spec"])
  BY <1>2 DEF DiskKeeps, EditedFiles
<1>5. applied[e] \in Seq(ProjectFiles) /\ applied[e] = <<>>
  BY <1>1, <1>2 DEF ExtenderKeeps, AppliedKeep, Replacing
<1>6. ExtenderKeeps(edits, extendStep'[e], original'[e], snapshots'[e], changes'[e], applied'[e])
  BY <1>1, <1>3, <1>4, <1>5 DEF ExtenderKeeps, SpecKeeps, SnapshotsKeep, ChangesKeep,
     AppliedKeep, HasSnapshots, HasPlan, Replacing
<1> QED BY <1>1, <1>3, <1>6, OneMoves

LEMMA StumbleKeeps ==
  ASSUME ExtensionInv, NEW e \in Extenders, Extension!Stumble(e)
  PROVE  ExtensionInv'
<1>1. /\ extendStep[e] \in {"start", "merge"} /\ extendStep' = [extendStep EXCEPT ![e] = "ended"]
      /\ UNCHANGED <<disk, edits, original, snapshots, changes, applied, restoring>>
  BY DEF Extension!Stumble, Extension!Ends, Extension!Goto
<1>2. ExtenderKeeps(edits, extendStep[e], original[e], snapshots[e], changes[e], applied[e]) /\ ExtendersMapped
  BY DEF ExtensionInv
<1>3. ExtenderKeeps(edits, "ended", original[e], snapshots[e], changes[e], applied[e])
  BY <1>2 DEF ExtenderKeeps, AppliedKeep, SpecKeeps, SnapshotsKeep, ChangesKeep, HasSnapshots, HasPlan, Replacing
<1>4. /\ ExtendersMapped' /\ extendStep'[e] = "ended"
      /\ \A d \in Extenders \ {e} : extendStep'[d] = extendStep[d]
  BY <1>1, <1>2 DEF ExtendersMapped
<1> QED BY <1>1, <1>3, <1>4, OneMoves

LEMMA ReadBaselineKeeps ==
  ASSUME ExtensionInv, NEW e \in Extenders, Extension!ReadBaseline(e)
  PROVE  ExtensionInv'
<1>1. /\ extendStep[e] = "baseline"
      /\ extendStep' = [extendStep EXCEPT ![e] = "snapshot"] \/ extendStep' = [extendStep EXCEPT ![e] = "ended"]
      /\ UNCHANGED <<disk, edits, original, snapshots, changes, applied, restoring>>
  BY DEF Extension!ReadBaseline, Extension!Goto, Extension!Ends
<1>2. /\ ExtendersMapped
      /\ ExtenderKeeps(edits, extendStep[e], original[e], snapshots[e], changes[e], applied[e])
  BY DEF ExtensionInv
<1>3. /\ ExtendersMapped' /\ extendStep'[e] \in {"snapshot", "ended"}
      /\ \A d \in Extenders \ {e} : extendStep'[d] = extendStep[d]
  BY <1>1, <1>2 DEF ExtendersMapped
<1>4. /\ EditsNumbered(edits, "spec", original[e]) /\ KeepsLasting(edits, "spec", original[e])
      /\ applied[e] \in Seq(ProjectFiles) /\ applied[e] = <<>>
  BY <1>1, <1>2 DEF ExtenderKeeps, SpecKeeps, AppliedKeep, Replacing
<1>6. ExtenderKeeps(edits, extendStep'[e], original'[e], snapshots'[e], changes'[e], applied'[e])
  BY <1>1, <1>3, <1>4 DEF ExtenderKeeps, SpecKeeps, SnapshotsKeep, ChangesKeep, AppliedKeep,
     HasSnapshots, HasPlan, Replacing
<1> QED BY <1>1, <1>3, <1>6, OneMoves

LEMMA SnapshotKeeps ==
  ASSUME ExtensionInv, NEW e \in Extenders, Extension!Snapshot(e)
  PROVE  ExtensionInv'
<1>1. /\ extendStep[e] = "snapshot" /\ extendStep' = [extendStep EXCEPT ![e] = "merge"]
      /\ snapshots' = [snapshots EXCEPT ![e] = disk]
      /\ UNCHANGED <<disk, edits, original, changes, applied, restoring>>
  BY DEF Extension!Snapshot, Extension!Goto
<1>2. /\ ExtendersMapped
      /\ DiskKeeps(edits, disk)
      /\ ExtenderKeeps(edits, extendStep[e], original[e], snapshots[e], changes[e], applied[e])
  BY DEF ExtensionInv
<1>3. /\ ExtendersMapped' /\ extendStep'[e] = "merge" /\ snapshots'[e] = disk
      /\ \A d \in Extenders \ {e} : extendStep'[d] = extendStep[d] /\ snapshots'[d] = snapshots[d]
  BY <1>1, <1>2 DEF ExtendersMapped
<1>4. /\ EditsNumbered(edits, "spec", original[e]) /\ KeepsLasting(edits, "spec", original[e])
      /\ applied[e] \in Seq(ProjectFiles) /\ applied[e] = <<>>
  BY <1>1, <1>2 DEF ExtenderKeeps, SpecKeeps, AppliedKeep, Replacing
<1>5. PassesOn(edits, "spec", disk["spec"], original[e])
  BY <1>4 DEF PassesOn, KeepsLasting
<1>6. SpecKeeps(edits, "merge", original[e])
  BY <1>4 DEF SpecKeeps
<1>7. SnapshotsKeep(edits, "merge", original[e], disk)
  BY <1>2, <1>5 DEF SnapshotsKeep, DiskKeeps
<1>8. /\ ChangesKeep(edits, "merge", disk, changes[e])
      /\ AppliedKeep(edits, "merge", disk, changes[e], applied[e])
  BY <1>4 DEF ChangesKeep, AppliedKeep, HasPlan, Replacing
<1>9. ExtenderKeeps(edits, extendStep'[e], original'[e], snapshots'[e], changes'[e], applied'[e])
  BY <1>1, <1>3, <1>6, <1>7, <1>8 DEF ExtenderKeeps
<1> QED BY <1>1, <1>3, <1>9, OneMoves

LEMMA MergeKeeps == ASSUME ExtensionInv, NEW e \in Extenders, Extension!Merge(e) PROVE ExtensionInv'
<1> DEFINE sn == snapshots[e]
           or == original[e]
           F == Extension!SelectFeatures(Extension!Selected(e))
           C == Extension!Candidates(sn, or, baseline[e], F, disk.config)
<1>1. extendStep[e] = "merge" /\ UNCHANGED <<disk, original, snapshots, applied, restoring>>
  BY DEF Extension!Merge
<1>2. /\ ExtendersMapped
      /\ DiskKeeps(edits, disk)
      /\ ExtenderKeeps(edits, extendStep[e], or, sn, changes[e], applied[e])
  BY DEF ExtensionInv
<1>3. applied[e] \in Seq(ProjectFiles) /\ applied[e] = <<>>
  BY <1>1, <1>2 DEF ExtenderKeeps, AppliedKeep, Replacing
<1>4. CASE Extension!Conflicts(sn, baseline[e], F, requested[e], disk.defaults)
  <2>1. extendStep' = [extendStep EXCEPT ![e] = "ended"] /\ UNCHANGED <<changes, edits>>
    BY <1>4 DEF Extension!Merge, Extension!Ends, Extension!Goto
  <2>2. /\ ExtendersMapped' /\ extendStep'[e] = "ended" /\ \A d \in Extenders \ {e} : extendStep'[d] = extendStep[d]
    BY <2>1, <1>1, <1>2 DEF ExtendersMapped
  <2>3. ExtenderKeeps(edits, "ended", or, sn, changes[e], applied[e])
    BY <1>3 DEF ExtenderKeeps, SpecKeeps, SnapshotsKeep, ChangesKeep, AppliedKeep, HasSnapshots,
       HasPlan, Replacing
  <2> QED BY <1>1, <2>1, <2>2, <2>3, OneMoves
<1>5. CASE ~Extension!Conflicts(sn, baseline[e], F, requested[e], disk.defaults)
  <2> DEFINE ch == [f \in {g \in Extension!Range(Extension!Files) : C[g] # sn[g]} |-> C[f]]
  <2>1. /\ extendStep' = [extendStep EXCEPT ![e] = "check"] /\ changes' = [changes EXCEPT ![e] = ch]
        /\ edits' = [i \in DOMAIN edits |->
             [edits[i] EXCEPT !.exposed = @ \/ Extension!Forgotten(i, sn, C)]]
    BY <1>5 DEF Extension!Merge, Extension!Goto
  <2>2. ProjectShaped(sn) /\ (\A f \in EditedFiles : EditsNumbered(edits, f, sn[f]))
        /\ PassesOn(edits, "spec", sn["spec"], or) /\ EditsNumbered(edits, "spec", or)
    BY <1>1, <1>2 DEF ExtenderKeeps, SpecKeeps, SnapshotsKeep, HasSnapshots
  <2>3. DOMAIN ch \subseteq ProjectFiles /\ \A f \in DOMAIN ch : ch[f] = C[f]
    BY FilesAre
  <2> HIDE DEF ch
  <2>4. /\ ExtendersMapped' /\ extendStep'[e] = "check" /\ changes'[e] = ch
        /\ \A d \in Extenders \ {e} : extendStep'[d] = extendStep[d] /\ changes'[d] = changes[d]
    BY <2>1, <1>1, <1>2 DEF ExtendersMapped
  <2> HIDE DEF sn, or, F, C
  <2>5. /\ ProjectShaped(C)
        /\ \A at \in Extension!Places("source") : \A i :
             Extension!Keeps("source", at, i, C["source"]) <=> Extension!Keeps("source", at, i, sn["source"])
        /\ \A at, i :
             /\ Extension!Keeps("fixture", at, i, C["fixture"]) <=> Extension!Keeps("fixture", at, i, sn["fixture"])
             /\ ~Extension!Keeps("defaults", at, i, C["defaults"])
             /\ ~Extension!Keeps("defaults", at, i, disk["defaults"])
             /\ Extension!Keeps("config", at, i, C["config"]) => Extension!Keeps("config", at, i, disk["config"])
             /\ Extension!Keeps("spec", at, i, C["spec"]) => Extension!Keeps("spec", at, i, or)
        /\ \A at, i : at \notin Extension!Redone =>
             /\ Extension!Keeps("config", at, i, disk["config"]) => Extension!Keeps("config", at, i, C["config"])
             /\ Extension!Keeps("spec", at, i, or) => Extension!Keeps("spec", at, i, C["spec"])
    BY <1>5, <2>2, CandidatesKeep DEF C
  <2>6. \A f \in EditedFiles : EditsNumbered(edits, f, disk[f]) /\ KeepsLasting(edits, f, disk[f])
    BY <1>2 DEF DiskKeeps
  <2>7. ASSUME NEW f \in EditedFiles PROVE EditsNumbered(edits, f, C[f])
    BY <2>2, <2>5, <2>6 DEF EditedFiles, EditsNumbered
  <2> DEFINE ed2 == edits'
  <2>12. ASSUME NEW i \in DOMAIN edits
         PROVE  /\ ed2[i] \in EditKinds /\ ed2[i].file = edits[i].file /\ ed2[i].at = edits[i].at
                /\ ed2[i].backup = edits[i].backup
                /\ ed2[i].exposed <=> edits[i].exposed \/ Extension!Forgotten(i, sn, C)
    <3>1. edits[i] \in EditKinds
      BY EditsTyped DEF ExtensionInv
    <3>2. ed2[i] = [edits[i] EXCEPT !.exposed = edits[i].exposed \/ Extension!Forgotten(i, sn, C)]
      BY <2>1
    <3>3. Extension!Forgotten(i, sn, C) \in BOOLEAN
      BY DEF Extension!Forgotten
    <3> HIDE DEF ed2
    <3> QED BY <3>1, <3>2, <3>3 DEF EditKinds
  <2>13. /\ DOMAIN ed2 = DOMAIN edits /\ EditsTypeOK(ed2) /\ SameEdits(edits, ed2)
    <3>1. DOMAIN ed2 = DOMAIN edits /\ ed2 = [i \in DOMAIN edits |-> ed2[i]]
      BY <2>1
    <3> HIDE DEF ed2
    <3> QED BY <3>1, <2>12, EditsMarked DEF ExtensionInv, SameEdits
  <2> HIDE DEF ed2
  <2>14. LastingEdits(ed2) \subseteq LastingEdits(edits)
    BY <2>12, <2>13 DEF LastingEdits
  <2>8. ASSUME NEW f \in EditedFiles, NEW i \in LastingEdits(ed2), ed2[i].file = f,
               KeepsEdit(ed2, i, sn[f])
        PROVE  KeepsEdit(ed2, i, C[f])
    <3>1. /\ i \in DOMAIN edits /\ i \in LastingEdits(edits) /\ edits[i].file = f
          /\ edits[i].at \in Extension!Places(f) /\ ed2[i].at = edits[i].at
      BY <2>8, <2>12, <2>14, LastingIsShort, EditsTyped DEF ExtensionInv
    <3>2. Extension!Keeps(f, edits[i].at, i, sn[f]) /\ Extension!Keeps(f, edits[i].at, i, disk[f])
      BY <2>6, <2>8, <3>1 DEF KeepsEdit, KeepsLasting
    <3>3. f = "spec" => Extension!Keeps("spec", edits[i].at, i, or)
      BY <2>2, <3>1, <3>2 DEF KeepsEdit, PassesOn
    <3>4. Extension!Keeps(f, edits[i].at, i, C[f])
      <4>1. CASE edits[i].at \in Extension!Redone
        <5>1. ~Extension!Forgotten(i, sn, C)
          BY <2>8, <2>12, <3>1 DEF LastingEdits
        <5> QED BY <3>1, <3>2, <4>1, <5>1 DEF Extension!Forgotten
      <4>2. CASE edits[i].at \notin Extension!Redone
        BY <2>5, <3>1, <3>2, <3>3, <4>2 DEF EditedFiles
      <4> QED BY <4>1, <4>2
    <3> QED BY <3>1, <3>4, <2>8 DEF KeepsEdit
  <2>9. ChangesKeep(ed2, "check", sn, ch)
    <3>1. \A f \in EditedFiles : EditsNumbered(ed2, f, C[f])
      BY <2>7, <2>13 DEF EditsNumbered
    <3> QED BY <2>3, <2>5, <2>8, <3>1 DEF ChangesKeep, PassesOn, ProjectShaped
  <2>10. /\ SpecKeeps(ed2, "check", or)
         /\ SnapshotsKeep(ed2, "check", or, sn)
         /\ AppliedKeep(ed2, "check", sn, ch, applied[e])
    <3>1. \A f \in EditedFiles : EditsNumbered(ed2, f, sn[f])
      BY <2>2, <2>13 DEF EditsNumbered
    <3> QED BY <1>3, <2>2, <3>1 DEF SpecKeeps, SnapshotsKeep, AppliedKeep, Replacing
  <2>11. ExtenderKeeps(ed2, "check", or, sn, ch, applied[e])
    BY <2>9, <2>10 DEF ExtenderKeeps
  <2>15. ASSUME NEW d \in Extenders
         PROVE  /\ ExtenderKeeps(ed2, extendStep'[d], original'[d], snapshots'[d], changes'[d], applied'[d])
                /\ BackupKeeps(ed2, d, extendStep'[d], snapshots'[d], restoring'[d])
    <3>1. /\ ExtenderKeeps(edits, extendStep[d], original[d], snapshots[d], changes[d], applied[d])
          /\ BackupKeeps(edits, d, extendStep[d], snapshots[d], restoring[d])
      BY DEF ExtensionInv
    <3>2. ExtenderKeeps(ed2, extendStep[d], original[d], snapshots[d], changes[d], applied[d])
      BY <3>1, <2>13, <2>14, LastingShrinks
    <3>3. BackupKeeps(ed2, d, extendStep[d], snapshots[d], restoring[d])
      BY <3>1, <2>12, <2>13, <2>14, LastingIsShort DEF BackupKeeps, KeepsEdit
    <3>4. CASE d = e
      <4>1. BackupKeeps(ed2, e, "check", snapshots[e], restoring[e])
        BY <1>1, <3>3, <3>4, BackupStays
      <4> QED BY <1>1, <2>4, <2>11, <3>4, <4>1 DEF sn, or
    <3>5. CASE d # e
      BY <1>1, <2>4, <3>2, <3>3, <3>5
    <3> QED BY <3>4, <3>5
  <2>16. DiskKeeps(ed2, disk)
    BY <1>2, <2>13, <2>14, LastingShrinks
  <2> QED BY <1>1, <2>4, <2>13, <2>15, <2>16 DEF ExtensionInv, ed2
<1> QED BY <1>4, <1>5

\* An extension ends.
LEMMA EndedIsLocal ==
  ASSUME NEW ed, NEW st, NEW or, NEW sn, NEW ch, NEW ap, ExtenderKeeps(ed, st, or, sn, ch, ap)
  PROVE  ExtenderKeeps(ed, "ended", or, sn, ch, ap)
<1>1. ap \in Seq(ProjectFiles)
  BY DEF ExtenderKeeps, AppliedKeep
<1> QED BY <1>1 DEF ExtenderKeeps, SpecKeeps, SnapshotsKeep, ChangesKeep, AppliedKeep,
           HasSnapshots, HasPlan, Replacing

\* A step that goes on to another, or ends, and changes nothing else.
LEMMA OneGoes ==
  ASSUME ExtensionInv, NEW e \in Extenders, NEW s, extendStep' = [extendStep EXCEPT ![e] = s],
         UNCHANGED <<disk, edits, original, snapshots, changes, applied, restoring>>,
         ExtenderKeeps(edits, s, original[e], snapshots[e], changes[e], applied[e]),
         extendStep[e] \notin {"rollback", "ended"} \/ s = "ended"
  PROVE  ExtensionInv'
<1>1. ExtendersMapped
  BY DEF ExtensionInv
<1>2. ExtendersMapped' /\ extendStep'[e] = s /\ \A d \in Extenders \ {e} : extendStep'[d] = extendStep[d]
  BY <1>1 DEF ExtendersMapped
<1> QED BY <1>2, OneMoves

LEMMA CheckKeeps == ASSUME ExtensionInv, NEW e \in Extenders, Extension!Check(e) PROVE ExtensionInv'
<1>1. /\ extendStep[e] = "check" /\ UNCHANGED <<disk, edits, original, snapshots, changes, applied, restoring>>
      /\ extendStep' = [extendStep EXCEPT ![e] = "compare"] \/ extendStep' = [extendStep EXCEPT ![e] = "ended"]
  BY DEF Extension!Check, Extension!Ends, Extension!Goto
<1>2. ExtenderKeeps(edits, "check", original[e], snapshots[e], changes[e], applied[e])
  BY <1>1 DEF ExtensionInv
<1>3. ExtenderKeeps(edits, "ended", original[e], snapshots[e], changes[e], applied[e])
  BY <1>2, EndedIsLocal
<1>4. ExtenderKeeps(edits, "compare", original[e], snapshots[e], changes[e], applied[e])
  <2>1. applied[e] = <<>> /\ Extension!Range(<<>>) = {}
    BY <1>2 DEF ExtenderKeeps, AppliedKeep, Replacing, Extension!Range
  <2> QED BY <1>2, <2>1 DEF ExtenderKeeps, SpecKeeps, SnapshotsKeep, ChangesKeep, AppliedKeep,
             HasSnapshots, HasPlan, Replacing
<1> QED BY <1>1, <1>3, <1>4, OneGoes

LEMMA CompareKeeps ==
  ASSUME ExtensionInv, NEW e \in Extenders, Extension!Compare(e)
  PROVE  ExtensionInv'
<1> DEFINE nf == Extension!FileAt(Unwritten(changes[e], applied[e]))
<1>1. extendStep[e] = "compare" /\ UNCHANGED <<disk, edits, original, snapshots, changes, applied, restoring>>
  BY DEF Extension!Compare
<1>2. /\ Extension!Remaining(e) = Unwritten(changes[e], applied[e]) /\ Extension!NextFile(e) = nf
  BY DEF Extension!Remaining, Unwritten, Extension!NextFile
<1> HIDE DEF nf
<1>3. \/ extendStep' = [extendStep EXCEPT ![e] = "ended"]
      \/ extendStep' = [extendStep EXCEPT ![e] = "rollback"]
      \/ /\ extendStep' = [extendStep EXCEPT ![e] = "write"] /\ Unwritten(changes[e], applied[e]) # {}
         /\ disk[nf] = snapshots[e][nf]
  BY <1>2 DEF Extension!Compare, Extension!Ends, Extension!Goto
<1>4. /\ ExtenderKeeps(edits, "compare", original[e], snapshots[e], changes[e], applied[e])
      /\ DiskKeeps(edits, disk)
  BY <1>1 DEF ExtensionInv
<1>5. ExtenderKeeps(edits, "ended", original[e], snapshots[e], changes[e], applied[e])
  BY <1>4, EndedIsLocal
<1>6. ExtenderKeeps(edits, "rollback", original[e], snapshots[e], changes[e], applied[e])
  BY <1>4 DEF ExtenderKeeps, SpecKeeps, SnapshotsKeep, ChangesKeep, AppliedKeep, HasSnapshots,
     HasPlan, Replacing
<1>7. ASSUME Unwritten(changes[e], applied[e]) # {}, disk[nf] = snapshots[e][nf]
      PROVE  ExtenderKeeps(edits, "write", original[e], snapshots[e], changes[e], applied[e])
  <2>1. nf \in EditedFiles => KeepsLasting(edits, nf, snapshots[e][nf])
    BY <1>4, <1>7 DEF DiskKeeps
  <2> QED BY <1>4, <1>7, <2>1 DEF ExtenderKeeps, SpecKeeps, SnapshotsKeep, ChangesKeep,
             AppliedKeep, HasSnapshots, HasPlan, Replacing, nf
<1> QED BY <1>1, <1>3, <1>5, <1>6, <1>7, OneGoes

LEMMA WriteFailsKeeps ==
  ASSUME ExtensionInv, NEW e \in Extenders, Extension!WriteFails(e)
  PROVE  ExtensionInv'
<1>1. /\ extendStep[e] = "write" /\ extendStep' = [extendStep EXCEPT ![e] = "rollback"]
      /\ UNCHANGED <<disk, edits, original, snapshots, changes, applied, restoring>>
  BY DEF Extension!WriteFails, Extension!Goto
<1>2. ExtenderKeeps(edits, "write", original[e], snapshots[e], changes[e], applied[e])
  BY <1>1 DEF ExtensionInv
<1>3. ExtenderKeeps(edits, "rollback", original[e], snapshots[e], changes[e], applied[e])
  BY <1>2 DEF ExtenderKeeps, SpecKeeps, SnapshotsKeep, ChangesKeep, AppliedKeep, HasSnapshots,
     HasPlan, Replacing
<1> QED BY <1>1, <1>3, OneGoes

LEMMA DieKeeps == ASSUME ExtensionInv, NEW e \in Extenders, Extension!Die(e) PROVE ExtensionInv'
<1>1. /\ extendStep' = [extendStep EXCEPT ![e] = "ended"]
      /\ UNCHANGED <<disk, edits, original, snapshots, changes, applied, restoring>>
  BY DEF Extension!Die, Extension!Ends, Extension!Goto
<1>2. ExtenderKeeps(edits, "ended", original[e], snapshots[e], changes[e], applied[e])
  BY EndedIsLocal DEF ExtensionInv
<1> QED BY <1>1, <1>2, OneGoes

\* A file is replaced by one that keeps the edits which last.
LEMMA ReplacedIsKept ==
  ASSUME NEW ed, NEW D, DiskKeeps(ed, D), NEW f \in ProjectFiles, NEW c, FileShaped(f, c),
         f \in EditedFiles => EditsNumbered(ed, f, c) /\ KeepsLasting(ed, f, c)
  PROVE  DiskKeeps(ed, [D EXCEPT ![f] = c])
<1> DEFINE N == [D EXCEPT ![f] = c]
<1>1. DOMAIN D = ProjectFiles
  BY DEF DiskKeeps, ProjectShaped
<1>2. DOMAIN N = ProjectFiles /\ N[f] = c /\ \A g \in ProjectFiles \ {f} : N[g] = D[g]
  BY <1>1
<1> HIDE DEF N
<1>3. ProjectShaped(N)
  BY <1>2 DEF DiskKeeps, ProjectShaped
<1>4. ASSUME NEW g \in EditedFiles PROVE EditsNumbered(ed, g, N[g]) /\ KeepsLasting(ed, g, N[g])
  <2>1. CASE g = f
    BY <2>1, <1>2
  <2>2. CASE g # f
    <3>1. N[g] = D[g]
      BY <2>2, <1>2 DEF EditedFiles, ProjectFiles
    <3> QED BY <3>1 DEF DiskKeeps
  <2> QED BY <2>1, <2>2
<1>5. DiskKeeps(ed, N)
  BY <1>3, <1>4 DEF DiskKeeps
<1> QED BY <1>5 DEF N

\* A step of one extension that also replaces a file.
LEMMA OneWrites ==
  ASSUME ExtensionInv, NEW e \in Extenders, UNCHANGED <<original, snapshots, changes>>,
         NEW s, extendStep' = [extendStep EXCEPT ![e] = s] \/ (extendStep' = extendStep /\ extendStep[e] = s),
         NEW ap, applied' = [applied EXCEPT ![e] = ap] \/ (applied' = applied /\ applied[e] = ap),
         DOMAIN restoring' = Extenders, EditsTypeOK(edits'),
         DiskKeeps(edits', disk'), ExtenderKeeps(edits', s, original[e], snapshots[e], changes[e], ap),
         BackupKeeps(edits', e, s, snapshots[e], restoring'[e]),
         \A d \in Extenders \ {e} :
           /\ ExtenderKeeps(edits', extendStep[d], original[d], snapshots[d], changes[d], applied[d])
           /\ BackupKeeps(edits', d, extendStep[d], snapshots[d], restoring'[d])
  PROVE  ExtensionInv'
<1>1. ExtendersMapped
  BY DEF ExtensionInv
<1>2. /\ ExtendersMapped' /\ extendStep'[e] = s /\ applied'[e] = ap
      /\ \A d \in Extenders \ {e} : extendStep'[d] = extendStep[d] /\ applied'[d] = applied[d]
  BY <1>1 DEF ExtendersMapped
<1>3. ASSUME NEW d \in Extenders
      PROVE  /\ ExtenderKeeps(edits', extendStep'[d], original'[d], snapshots'[d], changes'[d], applied'[d])
             /\ BackupKeeps(edits', d, extendStep'[d], snapshots'[d], restoring'[d])
  <2>1. CASE d = e
    BY <2>1, <1>2
  <2>2. CASE d # e
    BY <2>2, <1>2
  <2> QED BY <2>1, <2>2
<1> QED BY <1>2, <1>3 DEF ExtensionInv

LEMMA WriteKeeps == ASSUME ExtensionInv, NEW e \in Extenders, Extension!Write(e) PROVE ExtensionInv'
<1> DEFINE ch == changes[e]
           sn == snapshots[e]
           ap == applied[e]
           nf == Extension!FileAt(Unwritten(ch, ap))
<1>1. Extension!Remaining(e) = Unwritten(ch, ap) /\ Extension!NextFile(e) = nf
  BY DEF Extension!Remaining, Unwritten, Extension!NextFile
<1> HIDE DEF nf
<1>2. /\ extendStep[e] = "write" /\ extendStep' = [extendStep EXCEPT ![e] = "compare"]
      /\ disk' = [disk EXCEPT ![nf] = ch[nf]]
      /\ applied' = [applied EXCEPT ![e] = Append(@, nf)]
      /\ UNCHANGED <<edits, original, snapshots, changes, restoring>>
  BY <1>1 DEF Extension!Write, Extension!Goto
<1>3. ExtenderKeeps(edits, "write", original[e], sn, ch, ap) /\ DiskKeeps(edits, disk)
  BY <1>2 DEF ExtensionInv
<1>4. applied' = [applied EXCEPT ![e] = Append(ap, nf)]
  BY <1>2
<1> HIDE DEF ch, sn, ap
<1>5. /\ Unwritten(ch, ap) # {}
      /\ nf \in EditedFiles => KeepsLasting(edits, nf, sn[nf])
      /\ ap \in Seq(ProjectFiles) /\ \A f \in Extension!Range(ap) \cap EditedFiles : KeepsLasting(edits, f, sn[f])
  BY <1>3 DEF ExtenderKeeps, AppliedKeep, Replacing, nf
<1>6. nf \in DOMAIN ch
  BY <1>5, NextIsPlanned DEF nf
<1>7. /\ DOMAIN ch \subseteq ProjectFiles /\ FileShaped(nf, ch[nf])
      /\ nf \in EditedFiles => EditsNumbered(edits, nf, ch[nf]) /\ PassesOn(edits, nf, sn[nf], ch[nf])
  BY <1>3, <1>6 DEF ExtenderKeeps, ChangesKeep, HasPlan
<1>8. nf \in EditedFiles => KeepsLasting(edits, nf, ch[nf])
  BY <1>5, <1>7 DEF KeepsLasting, PassesOn
<1>9. DiskKeeps(edits, disk')
  BY <1>2, <1>3, <1>6, <1>7, <1>8, ReplacedIsKept
<1>10. /\ Append(ap, nf) \in Seq(ProjectFiles)
       /\ Extension!Range(Append(ap, nf)) = Extension!Range(ap) \cup {nf}
  BY <1>5, <1>6, <1>7, Appended
<1>11. AppliedKeep(edits, "compare", sn, ch, Append(ap, nf))
  BY <1>5, <1>10 DEF AppliedKeep, Replacing
<1>12. ExtenderKeeps(edits, "compare", original[e], sn, ch, Append(ap, nf))
  BY <1>3, <1>11 DEF ExtenderKeeps, SpecKeeps, SnapshotsKeep, ChangesKeep, HasSnapshots, HasPlan
<1>13. /\ BackupKeeps(edits, e, "write", sn, restoring[e])
       /\ \A d \in Extenders :
            /\ ExtenderKeeps(edits, extendStep[d], original[d], snapshots[d], changes[d], applied[d])
            /\ BackupKeeps(edits, d, extendStep[d], snapshots[d], restoring[d])
       /\ EditsTypeOK(edits) /\ ExtendersMapped
  BY <1>2 DEF ExtensionInv, sn
<1>14. BackupKeeps(edits, e, "compare", sn, restoring[e])
  BY <1>13, BackupStays
<1> QED BY <1>2, <1>4, <1>9, <1>12, <1>13, <1>14, OneWrites DEF ch, sn, ExtendersMapped

\* An empty file has no edit.
LEMMA EmptiedIsEmpty ==
  ASSUME NEW f \in ProjectFiles, NEW c, FileShaped(f, c), NEW w, w = Extension!Emptied(f, c)
  PROVE  /\ FileShaped(f, w)
         /\ f \in EditedFiles => \A at \in Extension!Places(f) : \A i : ~Extension!Keeps(f, at, i, w)
<1>1. CASE f = "source"
  <2>1. DOMAIN c = {"blocks", "imports", "rest"}
    BY <1>1 DEF FileShaped
  <2>2. w = [c EXCEPT !.blocks = [h \in Extension!Hooks |-> Extension!Absent], !.imports = Extension!Absent, !.rest = {}]
    BY <1>1 DEF Extension!Emptied
  <2>3. DOMAIN w = {"blocks", "imports", "rest"} /\ w.blocks = [h \in Extension!Hooks |-> Extension!Absent] /\ w.rest = {}
    BY <2>1, <2>2
  <2>4. DOMAIN w.blocks = Extension!Hooks /\ \A h \in Extension!Hooks : w.blocks[h] = Extension!Absent
    BY <2>3
  <2>5. \A at \in Extension!Places(f) : at = "rest" \/ at \in Extension!Hooks
    BY <1>1, ExtensionHolds DEF Extension!Places, Extension!ExtensionAssumption
  <2>6. ~Extension!IsOwn(Extension!Absent) /\ ~Extension!IsEdited(Extension!Absent)
    BY DEF Extension!IsOwn, Extension!IsEdited, Extension!Absent
  <2> QED BY <1>1, <2>3, <2>4, <2>5, <2>6 DEF FileShaped, Extension!Keeps
<1>2. CASE f = "config"
  <2>1. DOMAIN c = {"of", "edited"} /\ w = [c EXCEPT !.of = {}, !.edited = {}]
    BY <1>2 DEF FileShaped, Extension!Emptied
  <2>2. DOMAIN w = {"of", "edited"} /\ w.edited = {}
    BY <2>1
  <2> QED BY <1>2, <2>2 DEF FileShaped, Extension!Keeps
<1>3. CASE f = "spec"
  <2>1. DOMAIN c = {"there", "features", "edited"} /\ w = [c EXCEPT !.features = {}, !.edited = {}]
    BY <1>3 DEF FileShaped, Extension!Emptied
  <2>2. DOMAIN w = {"there", "features", "edited"} /\ w.edited = {}
    BY <2>1
  <2> QED BY <1>3, <2>2 DEF FileShaped, Extension!Keeps
<1>4. CASE f \in {"fixture", "defaults"}
  <2>1. w = <<"empty", {}>>
    BY <1>4 DEF Extension!Emptied
  <2>2. ~Extension!IsEdited(w)
    BY <2>1 DEF Extension!IsEdited
  <2>3. \A at, i : ~Extension!Keeps(f, at, i, w)
    BY <1>4, <2>2 DEF Extension!Keeps
  <2>4. FileShaped(f, w)
    BY <1>4 DEF FileShaped
  <2> QED BY <2>3, <2>4
<1>5. CASE f = "state"
  BY <1>5 DEF FileShaped, EditedFiles
<1> QED BY <1>1, <1>2, <1>3, <1>4, <1>5 DEF ProjectFiles

\* A file that was not there is removed.
LEMMA MissingKeeps ==
  ASSUME ExtensionInv, NEW e \in Extenders, extendStep[e] = "rollback", restoring[e] = None,
         applied[e] # <<>>, NEW f, f = Extension!Last(applied[e]),
         disk' = [disk EXCEPT ![f] = snapshots[e][f]],
         applied' = [applied EXCEPT ![e] = Extension!Front(applied[e])],
         UNCHANGED <<edits, extendStep, original, snapshots, changes, restoring>>
  PROVE  ExtensionInv'
<1> DEFINE ch == changes[e]
           sn == snapshots[e]
           ap == applied[e]
<1>1. /\ ExtenderKeeps(edits, "rollback", original[e], sn, ch, ap) /\ DiskKeeps(edits, disk)
      /\ BackupKeeps(edits, e, "rollback", sn, restoring[e])
      /\ \A d \in Extenders :
           /\ ExtenderKeeps(edits, extendStep[d], original[d], snapshots[d], changes[d], applied[d])
           /\ BackupKeeps(edits, d, extendStep[d], snapshots[d], restoring[d])
      /\ EditsTypeOK(edits) /\ ExtendersMapped
  BY DEF ExtensionInv
<1> HIDE DEF ch, sn
<1>2. ap \in Seq(ProjectFiles) /\ \A g \in Extension!Range(ap) \cap EditedFiles : KeepsLasting(edits, g, sn[g])
  BY <1>1 DEF ExtenderKeeps, AppliedKeep, Replacing
<1>3. ProjectShaped(sn) /\ \A g \in EditedFiles : EditsNumbered(edits, g, sn[g])
  BY <1>1 DEF ExtenderKeeps, SnapshotsKeep, HasSnapshots
<1>4. /\ f \in Extension!Range(ap) /\ f \in ProjectFiles /\ Extension!Front(ap) \in Seq(ProjectFiles)
      /\ Extension!Range(Extension!Front(ap)) \subseteq Extension!Range(ap)
  BY <1>2, Shortened
<1>5. DiskKeeps(edits, disk')
  BY <1>1, <1>2, <1>3, <1>4, ReplacedIsKept DEF ProjectShaped, sn
<1>6. AppliedKeep(edits, "rollback", sn, ch, Extension!Front(ap))
  BY <1>2, <1>4 DEF AppliedKeep, Replacing
<1>7. ExtenderKeeps(edits, "rollback", original[e], sn, ch, Extension!Front(ap))
  BY <1>1, <1>6 DEF ExtenderKeeps
<1> QED BY <1>1, <1>5, <1>7, OneWrites DEF ch, sn, ExtendersMapped

\* A file is emptied: its edits are in the backup.
LEMMA EmptyingKeeps ==
  ASSUME ExtensionInv, NEW e \in Extenders, extendStep[e] = "rollback", restoring[e] = None,
         applied[e] # <<>>, NEW f, f = Extension!Last(applied[e]),
         disk' = [disk EXCEPT ![f] = Extension!Emptied(f, @)],
         applied' = [applied EXCEPT ![e] = Extension!Front(applied[e])],
         restoring' = [restoring EXCEPT ![e] = f],
         NEW ed2, edits' = ed2,
         ed2 = [i \in DOMAIN edits |-> [edits[i] EXCEPT !.backup = IF edits[i].file = f /\ @ = None THEN e ELSE @]],
         UNCHANGED <<extendStep, original, snapshots, changes>>
  PROVE  ExtensionInv'
<1> DEFINE ch == changes[e]
           sn == snapshots[e]
           ap == applied[e]
<1>1. /\ ExtenderKeeps(edits, "rollback", original[e], sn, ch, ap) /\ DiskKeeps(edits, disk)
      /\ BackupKeeps(edits, e, "rollback", sn, restoring[e])
      /\ \A d \in Extenders :
           /\ ExtenderKeeps(edits, extendStep[d], original[d], snapshots[d], changes[d], applied[d])
           /\ BackupKeeps(edits, d, extendStep[d], snapshots[d], restoring[d])
      /\ EditsTypeOK(edits) /\ ExtendersMapped
  BY DEF ExtensionInv
<1> HIDE DEF ch, sn
<1>2. ap \in Seq(ProjectFiles) /\ \A g \in Extension!Range(ap) \cap EditedFiles : KeepsLasting(edits, g, sn[g])
  BY <1>1 DEF ExtenderKeeps, AppliedKeep, Replacing
<1>3. ProjectShaped(sn) /\ \A g \in EditedFiles : EditsNumbered(edits, g, sn[g])
  BY <1>1 DEF ExtenderKeeps, SnapshotsKeep, HasSnapshots
<1>4. /\ f \in Extension!Range(ap) /\ f \in ProjectFiles /\ Extension!Front(ap) \in Seq(ProjectFiles)
      /\ Extension!Range(Extension!Front(ap)) \subseteq Extension!Range(ap)
  BY <1>2, Shortened
<1>5. ASSUME NEW i \in DOMAIN edits
      PROVE  /\ ed2[i] \in EditKinds /\ ed2[i].file = edits[i].file /\ ed2[i].at = edits[i].at
             /\ ed2[i].exposed = edits[i].exposed
             /\ ed2[i].backup = IF edits[i].file = f /\ edits[i].backup = None THEN e ELSE edits[i].backup
  <2>1. edits[i] \in EditKinds
    BY <1>1, EditsTyped
  <2>2. ed2[i] = [edits[i] EXCEPT !.backup = IF edits[i].file = f /\ edits[i].backup = None THEN e ELSE edits[i].backup]
    OBVIOUS
  <2> QED BY <2>1, <2>2 DEF EditKinds
<1>6. DOMAIN ed2 = DOMAIN edits
  OBVIOUS
<1>7. EditsTypeOK(ed2) /\ SameEdits(edits, ed2)
  <2>1. EditsTypeOK(ed2)
    <3>1. ed2 = [i \in DOMAIN edits |-> ed2[i]]
      OBVIOUS
    <3> QED BY <3>1, <1>1, <1>5, EditsMarked
  <2> QED BY <2>1, <1>5, <1>6 DEF SameEdits
<1>8. e # None
  BY ExtensionHolds DEF Extension!ExtensionAssumption
<1>9. \A i \in LastingEdits(ed2) : i \in LastingEdits(edits) /\ ed2[i].file # f
  <2> SUFFICES ASSUME NEW i \in LastingEdits(ed2) PROVE i \in LastingEdits(edits) /\ ed2[i].file # f
    OBVIOUS
  <2>1. i \in DOMAIN ed2 /\ ~ed2[i].exposed /\ ed2[i].backup = None
    BY DEF LastingEdits
  <2>2. i \in DOMAIN edits
    BY <2>1, <1>6
  <2>3. /\ ed2[i].file = edits[i].file /\ ~edits[i].exposed
        /\ ed2[i].backup = IF edits[i].file = f /\ edits[i].backup = None THEN e ELSE edits[i].backup
    BY <2>1, <2>2, <1>5
  <2>4. edits[i].backup = None /\ edits[i].file # f
    BY <2>1, <2>3, <1>8
  <2> QED BY <2>2, <2>3, <2>4 DEF LastingEdits
<1>10. LastingEdits(ed2) \subseteq LastingEdits(edits)
  BY <1>9
<1>11. DiskKeeps(ed2, disk')
  <2> DEFINE w == Extension!Emptied(f, disk[f])
  <2>1. DiskKeeps(ed2, disk) /\ FileShaped(f, disk[f])
    BY <1>1, <1>4, <1>7, <1>10, LastingShrinks DEF DiskKeeps, ProjectShaped
  <2>2. FileShaped(f, w) /\ (f \in EditedFiles => \A at \in Extension!Places(f) : \A i : ~Extension!Keeps(f, at, i, w))
    BY <1>4, <2>1, EmptiedIsEmpty
  <2>3. disk' = [disk EXCEPT ![f] = w]
    OBVIOUS
  <2> HIDE DEF w
  <2>4. f \in EditedFiles => EditsNumbered(ed2, f, w)
    BY <2>2 DEF EditsNumbered
  <2>5. KeepsLasting(ed2, f, w)
    BY <1>9 DEF KeepsLasting
  <2>6. DiskKeeps(ed2, [disk EXCEPT ![f] = w])
    <3>1. DiskKeeps(ed2, disk) /\ f \in ProjectFiles /\ FileShaped(f, w)
      BY <1>4, <2>1, <2>2
    <3>2. f \in EditedFiles => EditsNumbered(ed2, f, w) /\ KeepsLasting(ed2, f, w)
      BY <2>4, <2>5
    <3> HIDE DEF w
    <3> QED BY ONLY <3>1, <3>2, ReplacedIsKept
  <2> QED BY <2>3, <2>6
<1>12. ExtenderKeeps(ed2, "rollback", original[e], sn, ch, Extension!Front(ap))
  <2>1. ExtenderKeeps(ed2, "rollback", original[e], sn, ch, ap)
    BY <1>1, <1>7, <1>10, LastingShrinks
  <2>2. AppliedKeep(ed2, "rollback", sn, ch, ap)
    BY <2>1 DEF ExtenderKeeps
  <2>3. AppliedKeep(ed2, "rollback", sn, ch, Extension!Front(ap))
    BY <1>4, <2>2 DEF AppliedKeep, Replacing
  <2> QED BY <2>1, <2>3 DEF ExtenderKeeps
<1>13. BackupKeeps(ed2, e, "rollback", sn, f)
  <2>1. ASSUME NEW i \in DOMAIN ed2, ed2[i].backup = e, ~ed2[i].exposed
        PROVE  KeepsEdit(ed2, i, sn[ed2[i].file])
    <3>1. /\ i \in DOMAIN edits /\ ~edits[i].exposed
          /\ ed2[i].file = edits[i].file /\ ed2[i].at = edits[i].at
      <4>1. i \in DOMAIN edits
        BY <2>1, <1>6
      <4> QED BY <4>1, <2>1, <1>5
    <3>2. CASE edits[i].backup = e
      BY <1>1, <3>1, <3>2 DEF BackupKeeps, KeepsEdit
    <3>3. CASE edits[i].backup # e
      <4>1. edits[i].file = f /\ edits[i].backup = None
        BY <2>1, <3>1, <3>3, <1>5
      <4>2. i \in LastingEdits(edits) /\ f \in EditedFiles
        BY <1>1, <3>1, <4>1, EditsTyped DEF LastingEdits
      <4>3. KeepsLasting(edits, f, sn[f])
        BY <1>2, <1>4, <4>2
      <4> QED BY <3>1, <4>1, <4>2, <4>3 DEF KeepsLasting, KeepsEdit
    <3> QED BY <3>2, <3>3
  <2> QED BY <2>1, <1>4, <1>9 DEF BackupKeeps
<1>14. ASSUME NEW d \in Extenders \ {e}
       PROVE  /\ ExtenderKeeps(ed2, extendStep[d], original[d], snapshots[d], changes[d], applied[d])
              /\ BackupKeeps(ed2, d, extendStep[d], snapshots[d], restoring[d])
  <2>1. ExtenderKeeps(ed2, extendStep[d], original[d], snapshots[d], changes[d], applied[d])
    BY <1>1, <1>7, <1>10, LastingShrinks
  <2>2. BackupKeeps(edits, d, extendStep[d], snapshots[d], restoring[d])
    BY <1>1
  <2>3. ASSUME NEW i \in DOMAIN ed2, ed2[i].backup = d, ~ed2[i].exposed
        PROVE  extendStep[d] \in {"rollback", "ended"} /\ KeepsEdit(ed2, i, snapshots[d][ed2[i].file])
    <3>1. i \in DOMAIN edits /\ edits[i].backup = d /\ ~edits[i].exposed
      BY <2>3, <1>5, <1>6
    <3> QED BY <2>2, <3>1, <1>5 DEF BackupKeeps, KeepsEdit
  <2>4. \A i \in LastingEdits(ed2) : i \in LastingEdits(edits) /\ ed2[i].file = edits[i].file
    BY <1>5, <1>9, LastingIsShort
  <2> QED BY <2>1, <2>2, <2>3, <2>4 DEF BackupKeeps
<1>15. restoring'[e] = f /\ DOMAIN restoring' = Extenders /\ \A d \in Extenders \ {e} : restoring'[d] = restoring[d]
  BY <1>1 DEF ExtendersMapped
<1> HIDE DEF ap
<1>16. /\ EditsTypeOK(edits') /\ DiskKeeps(edits', disk')
       /\ ExtenderKeeps(edits', "rollback", original[e], snapshots[e], changes[e], Extension!Front(ap))
       /\ BackupKeeps(edits', e, "rollback", snapshots[e], restoring'[e])
       /\ \A d \in Extenders \ {e} :
           /\ ExtenderKeeps(edits', extendStep[d], original[d], snapshots[d], changes[d], applied[d])
           /\ BackupKeeps(edits', d, extendStep[d], snapshots[d], restoring'[d])
  BY <1>7, <1>11, <1>12, <1>13, <1>14, <1>15 DEF ch, sn
<1> QED BY <1>15, <1>16, OneWrites DEF ap

LEMMA UndoKeeps ==
  ASSUME ExtensionInv, NEW e \in Extenders, Extension!Undo(e)
  PROVE  ExtensionInv'
<1> DEFINE f == Extension!Last(applied[e])
<1>1. extendStep[e] = "rollback" /\ restoring[e] = None
  BY DEF Extension!Undo
<1>2. CASE applied[e] = <<>>
  <2>1. /\ extendStep' = [extendStep EXCEPT ![e] = "ended"]
        /\ UNCHANGED <<disk, edits, original, snapshots, changes, applied, restoring>>
    BY <1>2 DEF Extension!Undo, Extension!Ends, Extension!Goto
  <2>2. ExtenderKeeps(edits, "ended", original[e], snapshots[e], changes[e], applied[e])
    BY EndedIsLocal DEF ExtensionInv
  <2> QED BY <2>1, <2>2, OneGoes
<1>3. CASE applied[e] # <<>> /\ Extension!Missing(f, snapshots[e][f])
  BY <1>1, <1>3, MissingKeeps DEF Extension!Undo
<1>4. CASE applied[e] # <<>> /\ ~Extension!Missing(f, snapshots[e][f])
  BY <1>1, <1>4, EmptyingKeeps DEF Extension!Undo
<1> QED BY <1>2, <1>3, <1>4

\* What is put back has the edits that are in the backup.
LEMMA PutBackKeeps ==
  ASSUME ExtensionInv, NEW e \in Extenders, Extension!PutBack(e)
  PROVE  ExtensionInv'
<1> DEFINE sn == snapshots[e]
           f == restoring[e]
           alone == \A d \in Extenders \ {e} : ~Extension!Working(d)
           ed2 == edits'
<1>1. /\ extendStep[e] = "rollback" /\ f # None
      /\ disk' = [disk EXCEPT ![f] = sn[f]] /\ restoring' = [restoring EXCEPT ![e] = None]
      /\ edits' = [i \in DOMAIN edits |-> [edits[i] EXCEPT !.backup =
                      IF edits[i].file = f /\ @ = e /\ alone THEN None ELSE @]]
      /\ UNCHANGED <<extendStep, original, snapshots, changes, applied>>
  BY DEF Extension!PutBack
<1>2. /\ ExtenderKeeps(edits, "rollback", original[e], sn, changes[e], applied[e]) /\ DiskKeeps(edits, disk)
      /\ BackupKeeps(edits, e, "rollback", sn, f)
      /\ \A d \in Extenders :
           /\ ExtenderKeeps(edits, extendStep[d], original[d], snapshots[d], changes[d], applied[d])
           /\ BackupKeeps(edits, d, extendStep[d], snapshots[d], restoring[d])
      /\ EditsTypeOK(edits) /\ ExtendersMapped
  BY <1>1 DEF ExtensionInv
<1> HIDE DEF sn, f, alone
<1>3. ASSUME NEW i \in DOMAIN edits
      PROVE  /\ ed2[i] \in EditKinds /\ ed2[i].file = edits[i].file /\ ed2[i].at = edits[i].at
             /\ ed2[i].exposed = edits[i].exposed
             /\ ed2[i].backup = IF edits[i].file = f /\ edits[i].backup = e /\ alone THEN None ELSE edits[i].backup
  <2>1. edits[i] \in EditKinds
    BY <1>2, EditsTyped
  <2>2. ed2[i] = [edits[i] EXCEPT !.backup = IF edits[i].file = f /\ edits[i].backup = e /\ alone THEN None ELSE edits[i].backup]
    BY <1>1
  <2> HIDE DEF ed2
  <2> QED BY <2>1, <2>2 DEF EditKinds
<1>4. DOMAIN ed2 = DOMAIN edits /\ ed2 = [i \in DOMAIN edits |-> ed2[i]]
  BY <1>1
<1> HIDE DEF ed2
<1>5. EditsTypeOK(ed2)
  BY <1>2, <1>3, <1>4, EditsMarked
<1>6. SameEdits(edits, ed2)
  BY <1>3, <1>4 DEF SameEdits
<1>7. f \in ProjectFiles /\ \A i \in LastingEdits(edits) : edits[i].file # f
  BY <1>1, <1>2 DEF BackupKeeps
<1>8. ASSUME NEW i \in LastingEdits(ed2)
      PROVE  /\ i \in DOMAIN edits /\ ed2[i].file = edits[i].file /\ ed2[i].at = edits[i].at
             /\ \/ i \in LastingEdits(edits) /\ edits[i].file # f
                \/ edits[i].file = f /\ alone /\ KeepsEdit(ed2, i, sn[f])
  <2>1. i \in DOMAIN ed2 /\ ~ed2[i].exposed /\ ed2[i].backup = None
    BY DEF LastingEdits
  <2>2. i \in DOMAIN edits /\ ~edits[i].exposed
    BY <2>1, <1>3, <1>4
  <2>3. CASE edits[i].backup = None
    <3>1. i \in LastingEdits(edits)
      BY <2>2, <2>3 DEF LastingEdits
    <3> QED BY <3>1, <2>2, <1>3, <1>7
  <2>4. CASE edits[i].backup # None
    <3>1. edits[i].file = f /\ edits[i].backup = e /\ alone
      BY <2>1, <2>2, <2>4, <1>3
    <3>2. KeepsEdit(edits, i, sn[f])
      BY <3>1, <2>2, <1>2 DEF BackupKeeps
    <3> QED BY <3>1, <3>2, <2>2, <1>3 DEF KeepsEdit
  <2> QED BY <2>3, <2>4
<1>9. ~alone => LastingEdits(ed2) \subseteq LastingEdits(edits)
  BY <1>8
<1>10. /\ ProjectShaped(sn) /\ \A g \in EditedFiles : EditsNumbered(edits, g, sn[g])
       /\ \A g, c : EditsNumbered(edits, g, c) => EditsNumbered(ed2, g, c)
  BY <1>2, <1>6 DEF ExtenderKeeps, SnapshotsKeep, HasSnapshots, EditsNumbered, SameEdits
<1>11. \A g, c : KeepsLasting(edits, g, c) /\ g # f => KeepsLasting(ed2, g, c)
  BY <1>8 DEF KeepsLasting, KeepsEdit
<1>12. KeepsLasting(ed2, f, sn[f])
  BY <1>8 DEF KeepsLasting
<1>13. DiskKeeps(ed2, disk')
  <2>1. DOMAIN disk = ProjectFiles
    BY <1>2 DEF DiskKeeps, ProjectShaped
  <2>2. DOMAIN disk' = ProjectFiles /\ disk'[f] = sn[f] /\ \A g \in ProjectFiles \ {f} : disk'[g] = disk[g]
    BY <1>1, <1>7, <2>1
  <2>3. ProjectShaped(disk')
    BY <1>2, <1>7, <1>10, <2>2 DEF DiskKeeps, ProjectShaped
  <2>4. ASSUME NEW g \in EditedFiles PROVE EditsNumbered(ed2, g, disk'[g]) /\ KeepsLasting(ed2, g, disk'[g])
    <3>1. CASE g = f
      BY <3>1, <2>2, <1>10, <1>12
    <3>2. CASE g # f
      <4>1. disk'[g] = disk[g]
        BY <3>2, <2>2 DEF EditedFiles, ProjectFiles
      <4> QED BY <3>2, <4>1, <1>2, <1>10, <1>11 DEF DiskKeeps
    <3> QED BY <3>1, <3>2
  <2> QED BY <2>3, <2>4 DEF DiskKeeps
<1>14. ExtenderKeeps(ed2, "rollback", original[e], sn, changes[e], applied[e])
  <2>1. AppliedKeep(edits, "rollback", sn, changes[e], applied[e])
    BY <1>2 DEF ExtenderKeeps
  <2>2. \A g \in Extension!Range(applied[e]) \cap EditedFiles : KeepsLasting(ed2, g, sn[g])
    BY <2>1, <1>11, <1>12 DEF AppliedKeep, Replacing
  <2>3. AppliedKeep(ed2, "rollback", sn, changes[e], applied[e])
    BY <2>1, <2>2 DEF AppliedKeep, Replacing
  <2>4. SnapshotsKeep(ed2, "rollback", original[e], sn)
    BY <1>10 DEF SnapshotsKeep
  <2> QED BY <2>3, <2>4 DEF ExtenderKeeps, SpecKeeps, ChangesKeep, HasPlan
<1>15. BackupKeeps(ed2, e, "rollback", sn, None)
  BY <1>2, <1>3, <1>4, ExtensionHolds DEF BackupKeeps, KeepsEdit, Extension!ExtensionAssumption
<1>16. ASSUME NEW d \in Extenders \ {e}
       PROVE  /\ ExtenderKeeps(ed2, extendStep[d], original[d], snapshots[d], changes[d], applied[d])
              /\ BackupKeeps(ed2, d, extendStep[d], snapshots[d], restoring[d])
  <2>1. /\ ExtenderKeeps(edits, extendStep[d], original[d], snapshots[d], changes[d], applied[d])
        /\ BackupKeeps(edits, d, extendStep[d], snapshots[d], restoring[d])
    BY <1>2
  <2>2. alone => extendStep[d] \in {"start", "ended"}
    BY DEF alone, Extension!Working
  <2>3. ExtenderKeeps(ed2, extendStep[d], original[d], snapshots[d], changes[d], applied[d])
    <3>1. CASE alone
      BY <2>1, <2>2, <3>1, IdleKnowsNothing
    <3>2. CASE ~alone
      BY <2>1, <3>2, <1>6, <1>9, LastingShrinks
    <3> QED BY <3>1, <3>2
  <2>4. ASSUME NEW i \in DOMAIN ed2, ed2[i].backup = d, ~ed2[i].exposed
        PROVE  extendStep[d] \in {"rollback", "ended"} /\ KeepsEdit(ed2, i, snapshots[d][ed2[i].file])
    <3>1. i \in DOMAIN edits /\ edits[i].backup = d /\ ~edits[i].exposed
      BY <2>4, <1>3, <1>4, ExtensionHolds DEF Extension!ExtensionAssumption
    <3> QED BY <2>1, <3>1, <1>3 DEF BackupKeeps, KeepsEdit
  <2>5. ASSUME extendStep[d] = "rollback", restoring[d] # None, NEW i \in LastingEdits(ed2)
        PROVE  ed2[i].file # restoring[d]
    <3>1. i \in LastingEdits(edits) /\ ed2[i].file = edits[i].file
      BY <2>2, <2>5, <1>8
    <3> QED BY <2>1, <2>5, <3>1 DEF BackupKeeps
  <2> QED BY <2>1, <2>3, <2>4, <2>5 DEF BackupKeeps
<1>17. restoring'[e] = None /\ DOMAIN restoring' = Extenders /\ \A d \in Extenders \ {e} : restoring'[d] = restoring[d]
  BY <1>1, <1>2 DEF ExtendersMapped
<1>18. /\ EditsTypeOK(edits') /\ DiskKeeps(edits', disk')
       /\ ExtenderKeeps(edits', "rollback", original[e], snapshots[e], changes[e], applied[e])
       /\ BackupKeeps(edits', e, "rollback", snapshots[e], restoring'[e])
       /\ \A d \in Extenders \ {e} :
           /\ ExtenderKeeps(edits', extendStep[d], original[d], snapshots[d], changes[d], applied[d])
           /\ BackupKeeps(edits', d, extendStep[d], snapshots[d], restoring'[d])
  BY <1>5, <1>13, <1>14, <1>15, <1>16, <1>17 DEF ed2, sn
<1> QED BY <1>1, <1>17, <1>18, OneWrites

\* Nobody has edited a project that is new.
LEMMA ExtensionStarts == Extension!ExtensionInit => ExtensionInv
<1> SUFFICES ASSUME Extension!ExtensionInit PROVE ExtensionInv
  OBVIOUS
<1>1. edits = <<>> /\ EditsTypeOK(edits) /\ LastingEdits(edits) = {}
  BY DEF Extension!ExtensionInit, EditsTypeOK, LastingEdits
<1>2. ExtendersMapped
  BY DEF Extension!ExtensionInit, ExtendersMapped
<1>3. ASSUME NEW e \in Extenders
      PROVE  /\ ExtenderKeeps(edits, extendStep[e], original[e], snapshots[e], changes[e], applied[e])
             /\ BackupKeeps(edits, e, extendStep[e], snapshots[e], restoring[e])
  <2>1. extendStep[e] = "start" /\ applied[e] = <<>> /\ restoring[e] = None
    BY DEF Extension!ExtensionInit
  <2>2. ExtenderKeeps(edits, extendStep[e], original[e], snapshots[e], changes[e], applied[e])
    BY <2>1 DEF ExtenderKeeps, SpecKeeps, SnapshotsKeep, ChangesKeep, AppliedKeep, HasSnapshots,
       HasPlan, Replacing
  <2>3. BackupKeeps(edits, e, extendStep[e], snapshots[e], restoring[e])
    BY <1>1, <2>1 DEF BackupKeeps
  <2> QED BY <2>2, <2>3
<1>4. /\ DOMAIN disk = ProjectFiles
      /\ DOMAIN disk["source"] = {"blocks", "imports", "rest"}
      /\ DOMAIN disk["source"].blocks = Extension!Hooks
      /\ disk["source"].rest = {}
      /\ \A h \in Extension!Hooks : LET blk == disk["source"].blocks[h]
                                   IN  (Extension!IsOwn(blk) \/ Extension!IsEdited(blk)) => blk[2] = {}
      /\ ~Extension!IsEdited(disk["fixture"]) /\ ~Extension!IsEdited(disk["defaults"])
      /\ DOMAIN disk["config"] = {"of", "edited"} /\ disk["config"].edited = {}
      /\ DOMAIN disk["spec"] = {"there", "features", "edited"} /\ disk["spec"].edited = {}
  <2>1. CASE disk = Extension!Unmanaged
    BY <2>1 DEF Extension!Unmanaged, ProjectFiles, Extension!IsOwn, Extension!IsEdited,
       Extension!Own, Extension!Absent, Extension!NoSpec
  <2>2. CASE \E F : disk = Extension!Project(F)
    <3>1. PICK F : disk = Extension!Project(F)
      BY <2>2
    <3>2. /\ DOMAIN disk = ProjectFiles
          /\ disk["source"] = [blocks |-> [h \in Extension!Hooks |-> Extension!Block(h, F)], imports |-> Extension!ImportBlock(F), rest |-> {}]
          /\ disk["fixture"] = Extension!Generated(F) /\ disk["defaults"] = Extension!Generated(F)
          /\ disk["config"] = [of |-> F, edited |-> {}]
          /\ disk["spec"] = [there |-> TRUE, features |-> F, edited |-> {}]
      BY <3>1 DEF Extension!Project, ProjectFiles
    <3>3. \A h \in Extension!Hooks : disk["source"].blocks[h] = Extension!Block(h, F)
      BY <3>2
    <3>4. \A h \in Extension!Hooks : ~Extension!IsOwn(disk["source"].blocks[h]) /\ ~Extension!IsEdited(disk["source"].blocks[h])
      BY <3>3, BlocksAreGenerated
    <3>5. ~Extension!IsEdited(Extension!Generated(F))
      BY DEF Extension!IsEdited, Extension!Generated
    <3> QED BY <3>2, <3>4, <3>5
  <2> QED BY <2>1, <2>2 DEF Extension!ExtensionInit
<1>5. ProjectShaped(disk)
  BY <1>4 DEF ProjectShaped, FileShaped
<1>6. ASSUME NEW f \in EditedFiles, NEW at \in Extension!Places(f), NEW i
      PROVE  ~Extension!Keeps(f, at, i, disk[f])
  <2>1. CASE f = "source" /\ at # "rest"
    <3>1. at \in Extension!Hooks
      BY <2>1, ExtensionHolds DEF Extension!Places, Extension!ExtensionAssumption
    <3> QED BY <2>1, <3>1, <1>4 DEF Extension!Keeps
  <2>2. CASE f = "source" /\ at = "rest"
    BY <2>2, <1>4 DEF Extension!Keeps
  <2>3. CASE f \in {"fixture", "defaults"}
    BY <2>3, <1>4 DEF Extension!Keeps
  <2>4. CASE f \in {"config", "spec"}
    BY <2>4, <1>4 DEF Extension!Keeps
  <2> QED BY <2>1, <2>2, <2>3, <2>4 DEF EditedFiles
<1>7. DiskKeeps(edits, disk)
  BY <1>1, <1>5, <1>6 DEF DiskKeeps, EditsNumbered, KeepsLasting
<1> QED BY <1>1, <1>2, <1>3, <1>7 DEF ExtensionInv

LEMMA ExtensionRests == ASSUME ExtensionInv, UNCHANGED extensionVars PROVE ExtensionInv'
  BY DEF ExtensionInv, ExtendersMapped, extensionVars

\* The invariant of the edits is inductive.
LEMMA ExtensionKeeps == ExtensionInv /\ [Extension!ExtensionNext]_extensionVars => ExtensionInv'
<1> SUFFICES ASSUME ExtensionInv, [Extension!ExtensionNext]_extensionVars PROVE ExtensionInv'
  OBVIOUS
<1>1. CASE Extension!Edit
  BY <1>1, EditKeeps
<1>2. ASSUME NEW e \in Extenders,
             \/ Extension!ReadSpec(e) \/ Extension!Stumble(e) \/ Extension!ReadBaseline(e)
             \/ Extension!Snapshot(e) \/ Extension!Merge(e) \/ Extension!Check(e) \/ Extension!Compare(e)
             \/ Extension!Write(e) \/ Extension!WriteFails(e) \/ Extension!Undo(e) \/ Extension!PutBack(e)
             \/ Extension!Die(e)
      PROVE  ExtensionInv'
  BY <1>2, ReadSpecKeeps, StumbleKeeps, ReadBaselineKeeps, SnapshotKeeps, MergeKeeps, CheckKeeps,
     CompareKeeps, WriteKeeps, WriteFailsKeeps, UndoKeeps, PutBackKeeps, DieKeeps
<1>3. CASE UNCHANGED extensionVars
  BY <1>3, ExtensionRests
<1> QED BY <1>1, <1>2, <1>3 DEF Extension!ExtensionNext

\* It says that they survive.
LEMMA KeptIsSurviving == ExtensionInv => Extension!EditsSurvive
<1> SUFFICES ASSUME ExtensionInv, NEW i \in DOMAIN edits
             PROVE  \/ edits[i].exposed
                    \/ /\ edits[i].backup # None
                       /\ Extension!Keeps(edits[i].file, edits[i].at, i, snapshots[edits[i].backup][edits[i].file])
                    \/ Extension!Keeps(edits[i].file, edits[i].at, i, disk[edits[i].file])
  BY DEF Extension!EditsSurvive
<1>1. CASE ~edits[i].exposed /\ edits[i].backup = None
  <2>1. i \in LastingEdits(edits)
    BY <1>1 DEF LastingEdits
  <2>2. edits[i].file \in EditedFiles
    BY EditsTyped DEF ExtensionInv
  <2>3. KeepsLasting(edits, edits[i].file, disk[edits[i].file])
    BY <2>2 DEF ExtensionInv, DiskKeeps
  <2> QED BY <2>1, <2>3 DEF KeepsLasting, KeepsEdit
<1>2. CASE ~edits[i].exposed /\ edits[i].backup # None
  <2>1. PICK e \in Extenders : edits[i].backup = e
    <3>1. edits[i] \in EditKinds
      BY EditsTyped DEF ExtensionInv
    <3> QED BY <3>1, <1>2 DEF EditKinds
  <2>2. BackupKeeps(edits, e, extendStep[e], snapshots[e], restoring[e])
    BY DEF ExtensionInv
  <2>3. KeepsEdit(edits, i, snapshots[e][edits[i].file])
    BY <1>2, <2>1, <2>2 DEF BackupKeeps
  <2> QED BY <1>2, <2>1, <2>3 DEF KeepsEdit
<1> QED BY <1>1, <1>2

\* Whatever extensions run, in whatever interleaving with the author's edits and
\* with each other, and wherever they fail or are killed: an edit that was not
\* made while its file was being replaced, put back or read too early, and that a
\* dump keeps, is in the file for good, or in the backup of an extension that was
\* killed, or seen by another, while it put that file back (ProjectExtension).
THEOREM EditsStay == AllSpec => []EditsSurvive
<1>1. AllInit => ExtensionInv
  BY ExtensionStarts DEF AllInit
<1>2. ExtensionInv /\ [AllNext]_allVars => ExtensionInv'
  <2> SUFFICES ASSUME ExtensionInv, [AllNext]_allVars PROVE ExtensionInv'
    OBVIOUS
  <2>1. CASE Extension!ExtensionNext
    BY <2>1, ExtensionKeeps
  <2>2. CASE UNCHANGED extensionVars
    BY <2>2, ExtensionRests
  <2> QED
    BY <2>1, <2>2 DEF AllNext, Moves, Rests, allVars
<1>3. ExtensionInv => EditsSurvive
  BY KeptIsSurviving DEF EditsSurvive
<1> QED
  BY <1>1, <1>2, <1>3, PTL DEF AllSpec

-----------------------------------------------------------------------------
(* What an extension of a generated plugin leaves behind.                  *)

ActiveSteps == {"baseline", "snapshot", "merge", "check", "compare", "write", "rollback"}

\* The files that the selected features determine: all but the settings.
DerivedFiles == {"source", "fixture", "defaults", "spec", "state"}

TargetFeatures(F, U) == Extension!SelectFeatures(Extension!Merged(F, U))

\* Each file is as it was for F0 or as it is to be for F1, and the state is the
\* new one only when all are.
BetweenProjects(D, F0, F1) ==
  /\ DOMAIN D = ProjectFiles
  /\ D["config"].edited = {}
  /\ \A f \in DerivedFiles : D[f] = Extension!Project(F0)[f] \/ D[f] = Extension!Project(F1)[f]
  /\ D["state"] = Extension!Generated(F1) => \A f \in DerivedFiles : D[f] = Extension!Project(F1)[f]

\* The changes make the project for F1 of what was read.
PlanReaches(sn, ch, F1) ==
  /\ DOMAIN ch \subseteq ProjectFiles
  /\ \A f \in DerivedFiles :
       IF f \in DOMAIN ch THEN ch[f] = Extension!Project(F1)[f] ELSE sn[f] = Extension!Project(F1)[f]
  /\ "config" \in DOMAIN ch => ch["config"].edited = {}

\* The files of ap are replaced, each once, and the state the last of all.
PartlyApplied(D, sn, ch, ap) ==
  /\ DOMAIN D = ProjectFiles /\ Extension!Range(ap) \subseteq DOMAIN ch
  /\ \A f \in ProjectFiles : D[f] = IF f \in Extension!Range(ap) THEN ch[f] ELSE sn[f]
  /\ \A i, j \in DOMAIN ap : ap[i] = ap[j] => i = j
  /\ \A i \in DOMAIN ap : ap[i] = "state" => i = Len(ap) /\ DOMAIN ch \subseteq Extension!Range(ap)

\* What one extension knows of a project that nobody else changes.
OnItsWay(st, or, base, sn, ch, ap, D, F0, F1) ==
  /\ st \in {"baseline", "snapshot", "merge"} => or = D["spec"]
  /\ st \in {"snapshot", "merge"} => base = D["state"] /\ F1 \subseteq Extension!Catalog
  /\ st = "merge" => sn = D
  /\ st \in HasChanges =>
       BetweenProjects(sn, F0, F1) /\ PlanReaches(sn, ch, F1) /\ PartlyApplied(D, sn, ch, ap)

\* A plugin that was written by hand keeps the method that says so.
WrittenByHand(D) == Extension!IsOwn(D["source"].blocks["matches"])
ChangesByHand(st, sn, ch) ==
  /\ st \in HasSnapshots => WrittenByHand(sn)
  /\ st \in HasChanges /\ "source" \in DOMAIN ch => Extension!IsOwn(ch["source"].blocks["matches"])

IsActive(e) == extendStep[e] \in ActiveSteps
OneUpdate(U) == \A d \in Extenders : extendStep[d] = "start" \/ requested[d] = U
ExtenderOnItsWay(e, F0, F1) ==
  OnItsWay(extendStep[e], original[e], baseline[e], snapshots[e], changes[e], applied[e], Extension!Whole,
           F0, F1)

ManagedByHand ==
  WrittenByHand(Extension!Whole) /\ \A e \in Extenders : ChangesByHand(extendStep[e], snapshots[e], changes[e])

\* If all that have started were asked for U, the project is between that for F0
\* and that for F0 extended by U.
GrownFrom(F0) ==
  \A U : OneUpdate(U) =>
    /\ BetweenProjects(Extension!Whole, F0, TargetFeatures(F0, U))
    /\ \A e \in Extenders : IsActive(e) => ExtenderOnItsWay(e, F0, TargetFeatures(F0, U))

\* The author has edited nothing, and no two have overlapped.
Calm == edits = <<>> /\ ~met

\* One that has emptied a file is the only one that is at work or has done so.
OneRestores ==
  \A d, e \in Extenders : d # e /\ restoring[e] # None => ~IsActive(d) /\ restoring[d] = None

\* The inductive invariant, of the project with the file put back.
Undisturbed ==
  /\ DOMAIN baseline = Extenders
  /\ Calm =>
       /\ \A d, e \in Extenders : IsActive(d) /\ IsActive(e) => d = e
       /\ OneRestores
       /\ ManagedByHand \/ \E F0 \in SUBSET Extension!Catalog : GrownFrom(F0)

\* Adding the same features twice is adding them once.
LEMMA TargetIsStable ==
  ASSUME NEW F, NEW U PROVE TargetFeatures(TargetFeatures(F, U), U) = TargetFeatures(F, U)
<1> DEFINE Disp == UNION {family \in {Extension!Extraction, Extension!Auth} : family \cap U # {}}
           N == (F \ Disp) \cup U
           T == TargetFeatures(F, U)
<1>1. T = N \cup (IF Kind # "site_plugin" THEN {}
                  ELSE {"host"} \cup (IF N \cap Extension!Extraction = {} THEN {"html"} ELSE {}))
  BY DEF TargetFeatures, Extension!Merged, Extension!SelectFeatures
<1>2. Disp = (IF Extension!Extraction \cap U # {} THEN Extension!Extraction ELSE {}) \cup (IF Extension!Auth \cap U # {} THEN Extension!Auth ELSE {})
  OBVIOUS
<1>3. /\ "host" \notin Extension!Extraction \cup Extension!Auth
      /\ "html" \notin Extension!Auth
      /\ "html" \in Extension!Extraction
  BY DEF Extension!Extraction, Extension!Auth
<1> HIDE DEF T
<1>4. Extension!Merged(T, U) = (T \ Disp) \cup U
  BY DEF Extension!Merged
<1> HIDE DEF Disp
<1>5. Extension!Merged(T, U) = T
  <2>1. CASE Extension!Extraction \cap U # {}
    <3>1. N \cap Extension!Extraction # {}
      BY <2>1
    <3>2. T = N \cup (IF Kind # "site_plugin" THEN {} ELSE {"host"})
      BY <1>1, <3>1
    <3> QED BY <1>2, <1>3, <1>4, <3>2
  <2>2. CASE Extension!Extraction \cap U = {}
    <3>1. Disp \subseteq Extension!Auth
      BY <1>2, <2>2
    <3> QED BY <1>1, <1>2, <1>3, <1>4, <3>1
  <2> QED BY <2>1, <2>2
<1>6. Extension!SelectFeatures(T) = T
  <2>1. CASE Kind # "site_plugin"
    BY <2>1 DEF Extension!SelectFeatures
  <2>2. CASE Kind = "site_plugin"
    <3>1. "host" \in T /\ T \cap Extension!Extraction # {}
      BY <1>1, <1>3, <2>2
    <3> QED BY <2>2, <3>1 DEF Extension!SelectFeatures
  <2> QED BY <2>1, <2>2
<1> QED BY <1>5, <1>6 DEF TargetFeatures, T

\* An extension needs every block that was there: a choice that displaces another
\* has its hooks.
LEMMA HooksGrow ==
  ASSUME NEW F, NEW U
  PROVE  Extension!GeneratedHooks(F) \subseteq Extension!GeneratedHooks(TargetFeatures(F, U))
<1> SUFFICES ASSUME NEW f \in F, NEW h \in Extension!HooksOf(f)
             PROVE  \E g \in TargetFeatures(F, U) : h \in Extension!HooksOf(g)
  BY DEF Extension!GeneratedHooks
<1>1. U \subseteq TargetFeatures(F, U)
  BY DEF TargetFeatures, Extension!SelectFeatures, Extension!Merged
<1>2. CASE f \in TargetFeatures(F, U)
  BY <1>2
<1>3. CASE f \notin TargetFeatures(F, U)
  <2>1. (f \in Extension!Extraction /\ Extension!Extraction \cap U # {}) \/ (f \in Extension!Auth /\ Extension!Auth \cap U # {})
    BY <1>3 DEF TargetFeatures, Extension!SelectFeatures, Extension!Merged
  <2>2. CASE f \in Extension!Extraction
    BY <2>2 DEF Extension!HooksOf, Extension!Extraction, Extension!Auth
  <2>3. CASE f \in Extension!Auth /\ Extension!Auth \cap U # {}
    <3>1. PICK g \in Extension!Auth : g \in U
      BY <2>3
    <3>2. Extension!HooksOf(g) = Extension!HooksOf(f)
      BY <2>3, <3>1 DEF Extension!HooksOf, Extension!Auth
    <3> QED BY <1>1, <3>1, <3>2
  <2> QED BY <2>1, <2>2, <2>3
<1> QED BY <1>2, <1>3

\* The files of a generated project, one at a time.
LEMMA ProjectIs ==
  ASSUME NEW F
  PROVE  /\ DOMAIN Extension!Project(F) = ProjectFiles
         /\ Extension!Project(F)["source"] = [blocks |-> [h \in Extension!Hooks |-> Extension!Block(h, F)], imports |-> Extension!ImportBlock(F), rest |-> {}]
         /\ Extension!Project(F)["fixture"] = Extension!Generated(F)
         /\ Extension!Project(F)["defaults"] = Extension!Generated(F)
         /\ Extension!Project(F)["config"] = [of |-> F, edited |-> {}]
         /\ Extension!Project(F)["spec"] = [there |-> TRUE, features |-> F, edited |-> {}]
         /\ Extension!Project(F)["state"] = Extension!Generated(F)
  BY DEF Extension!Project, ProjectFiles

LEMMA StateIs ==
  ASSUME NEW F
  PROVE  Extension!Project(F)["state"] = Extension!Generated(F) /\ DOMAIN Extension!Project(F) = ProjectFiles
<1>1. Extension!Project(F)["state"] = Extension!Generated(F)
  BY ProjectIs
<1>2. DOMAIN Extension!Project(F) = ProjectFiles
  BY ProjectIs
<1> QED BY <1>1, <1>2

LEMMA SourceIs ==
  ASSUME NEW F
  PROVE  /\ Extension!Project(F)["source"] = [blocks |-> [h \in Extension!Hooks |-> Extension!Block(h, F)], imports |-> Extension!ImportBlock(F), rest |-> {}]
         /\ \A h \in Extension!Hooks : Extension!Project(F)["source"].blocks[h] = Extension!Block(h, F)
         /\ Extension!Project(F)["source"].imports = Extension!ImportBlock(F)
         /\ Extension!Project(F)["source"].rest = {}
<1>1. Extension!Project(F)["source"] = [blocks |-> [h \in Extension!Hooks |-> Extension!Block(h, F)], imports |-> Extension!ImportBlock(F), rest |-> {}]
  BY ProjectIs
<1>2. /\ Extension!Project(F)["source"].blocks = [h \in Extension!Hooks |-> Extension!Block(h, F)]
      /\ Extension!Project(F)["source"].imports = Extension!ImportBlock(F)
      /\ Extension!Project(F)["source"].rest = {}
  BY <1>1
<1> QED BY <1>1, <1>2

LEMMA SpecIs ==
  ASSUME NEW F
  PROVE  /\ Extension!Project(F)["spec"] = [there |-> TRUE, features |-> F, edited |-> {}]
         /\ Extension!Project(F)["spec"].features = F /\ Extension!Project(F)["spec"].edited = {}
<1>1. Extension!Project(F)["spec"] = [there |-> TRUE, features |-> F, edited |-> {}]
  BY ProjectIs
<1> QED BY <1>1

LEMMA ConfigIs ==
  ASSUME NEW F
  PROVE  /\ Extension!Project(F)["config"] = [of |-> F, edited |-> {}]
         /\ Extension!Project(F)["config"].edited = {}
         /\ DOMAIN Extension!Project(F)["config"] = {"of", "edited"}
<1>1. Extension!Project(F)["config"] = [of |-> F, edited |-> {}]
  BY ProjectIs
<1> QED BY <1>1

\* A mix of two projects, with the state the older unless all is new, is completed
\* without a conflict.
LEMMA PlansComplete ==
  ASSUME NEW F0 \in SUBSET Extension!Catalog, NEW F1 \in SUBSET Extension!Catalog,
         Extension!GeneratedHooks(F0) \subseteq Extension!GeneratedHooks(F1),
         NEW D, BetweenProjects(D, F0, F1), NEW C, C = Extension!Candidates(D, D["spec"], D["state"], F1, D["config"])
  PROVE  /\ \A U : ~Extension!Conflicts(D, D["state"], F1, U, D["defaults"])
         /\ DOMAIN C = ProjectFiles /\ C["config"].edited = {}
         /\ \A f \in DerivedFiles : C[f] = Extension!Project(F1)[f]
<1>1. \A G : Extension!Generated(G) # Extension!Absent /\ Extension!Generated(G)[2] = G
  BY DEF Extension!Generated, Extension!Absent
<1>2. /\ DOMAIN C = ProjectFiles
      /\ C["source"] = [blocks |-> [h \in Extension!Hooks |-> Extension!ReplacedBlock(h, D.source.blocks[h], D["state"], F1)],
                       imports |-> Extension!ImportBlock(F1), rest |-> D.source.rest]
      /\ C["fixture"] = (IF D["state"] = Extension!Absent THEN D.fixture ELSE Extension!Generated(F1))
      /\ C["defaults"] = Extension!Generated(F1)
      /\ C["config"] = [of |-> F1 \cup D["config"].of, edited |-> Extension!Dumped(D["config"].edited, {})]
      /\ C["spec"] = [there |-> TRUE, features |-> F1,
                      edited |-> Extension!Dumped(D["spec"].edited, UNION {Extension!SecretsOf(f) : f \in F1})]
      /\ C["state"] = Extension!Generated(F1)
  BY DEF Extension!Candidates, ProjectFiles
<1>12. \A N : Extension!Dumped({}, N) = {}
  BY DEF Extension!Dumped
<1>3. /\ \A f \in DerivedFiles : D[f] = Extension!Project(F0)[f] \/ D[f] = Extension!Project(F1)[f]
      /\ D["config"].edited = {}
      /\ D["state"] = Extension!Generated(F1) => \A f \in DerivedFiles : D[f] = Extension!Project(F1)[f]
  BY DEF BetweenProjects
<1>4. /\ D["state"] \in {Extension!Generated(F0), Extension!Generated(F1)}
      /\ D["state"] # Extension!Absent
  BY <1>1, <1>3, StateIs DEF DerivedFiles
<1>5. ASSUME NEW h \in Extension!Hooks
      PROVE  /\ Extension!ReplacedBlock(h, D["source"].blocks[h], D["state"], F1) = Extension!Block(h, F1)
             /\ h \in Extension!GeneratedHooks(F1) => \A U : ~Extension!BlockConflicts(h, D["source"].blocks[h], D["state"], F1, U)
  <2> DEFINE blk == D["source"].blocks[h]
  <2>1. ASSUME NEW G, D["source"] = Extension!Project(G)["source"] PROVE blk = Extension!Block(h, G)
    BY <2>1, SourceIs
  <2>2. blk = Extension!Block(h, F1) \/ (blk = Extension!Block(h, F0) /\ D["state"] = Extension!Generated(F0))
    BY <1>3, <1>4, <2>1 DEF DerivedFiles
  <2>3. Extension!OldBlock(h, D["state"]) = Extension!Block(h, D["state"][2]) /\ \A G : Extension!Generated(G)[2] = G
    BY <1>1, <1>4 DEF Extension!OldBlock
  <2>4. ASSUME NEW G
        PROVE  /\ Extension!Block(h, G) = Extension!Absent <=> h \notin Extension!GeneratedHooks(G)
               /\ ~Extension!IsOwn(Extension!Block(h, G))
               /\ Extension!IsMarked(Extension!Block(h, G)) <=> h \in Extension!GeneratedHooks(G)
    <3>1. Extension!Block(h, G) = Extension!Absent <=> h \notin Extension!GeneratedHooks(G)
      BY DEF Extension!Block, Extension!Absent
    <3> QED BY <3>1, BlocksAreGenerated DEF Extension!IsMarked
  <2> HIDE DEF blk
  <2>5. Extension!ReplacedBlock(h, blk, D["state"], F1) = Extension!Block(h, F1)
    BY <2>2, <2>3, <2>4 DEF Extension!ReplacedBlock, Extension!IsMarked
  <2>6. h \in Extension!GeneratedHooks(F1) => \A U : ~Extension!BlockConflicts(h, blk, D["state"], F1, U)
    BY <2>2, <2>3, <2>4 DEF Extension!BlockConflicts, Extension!IsMarked
  <2> QED BY <2>5, <2>6 DEF blk
<1>6. ASSUME NEW f \in {"fixture", "defaults"}
      PROVE  ~Extension!WholeConflicts(D[f], D["state"], F1)
  <2>1. ASSUME NEW G, D[f] = Extension!Project(G)[f] PROVE D[f] = Extension!Generated(G)
    BY <2>1, ProjectIs
  <2>2. D[f] = Extension!Generated(F1) \/ (D[f] = Extension!Generated(F0) /\ D["state"] = Extension!Generated(F0))
    BY <1>3, <1>4, <2>1 DEF DerivedFiles
  <2> QED BY <1>1, <1>4, <2>2 DEF Extension!WholeConflicts
<1>7. /\ ~Extension!ImportsConflict(D["source"].imports, D["state"], F1) /\ D["source"].rest = {}
      /\ D["spec"].edited = {}
  <2>1. ASSUME NEW G
        PROVE  Extension!Project(G)["source"].imports = Extension!ImportBlock(G) /\ Extension!Project(G)["source"].rest = {}
                           /\ Extension!Project(G)["spec"].edited = {}
    BY SourceIs, SpecIs
  <2>2. D["source"].imports = Extension!ImportBlock(F1) \/ (D["source"].imports = Extension!ImportBlock(F0) /\ D["state"] = Extension!Generated(F0))
    BY <1>3, <1>4, <2>1 DEF DerivedFiles
  <2>3. D["source"].rest = {} /\ D["spec"].edited = {}
    BY <1>3, <2>1 DEF DerivedFiles
  <2> QED BY <1>1, <1>4, <2>2, <2>3 DEF Extension!ImportsConflict
<1>8. ASSUME NEW U PROVE ~Extension!Conflicts(D, D["state"], F1, U, D["defaults"])
  <2>1. Extension!GeneratedHooks(F1) \subseteq Extension!Hooks
    BY DEF Extension!GeneratedHooks, Extension!Hooks, Extension!SiteHooks
  <2>2. \A h \in Extension!GeneratedHooks(F1) : ~Extension!BlockConflicts(h, D["source"].blocks[h], D["state"], F1, U)
    BY <1>5, <2>1
  <2>3. /\ ~Extension!FixtureConflicts(D["fixture"], D["state"], F1)
        /\ ~Extension!WholeConflicts(D["defaults"], D["state"], F1)
    BY <1>6 DEF Extension!FixtureConflicts
  <2> QED BY <1>7, <2>2, <2>3 DEF Extension!Conflicts
<1>9. C["source"] = Extension!Project(F1)["source"]
  <2>1. [h \in Extension!Hooks |-> Extension!ReplacedBlock(h, D["source"].blocks[h], D["state"], F1)] = [h \in Extension!Hooks |-> Extension!Block(h, F1)]
    BY <1>5
  <2> QED BY <1>2, <1>7, <2>1, SourceIs
<1>10. \A f \in DerivedFiles \ {"source"} : C[f] = Extension!Project(F1)[f]
  <2>1. /\ C["fixture"] = Extension!Project(F1)["fixture"]
        /\ C["defaults"] = Extension!Project(F1)["defaults"]
        /\ C["state"] = Extension!Project(F1)["state"]
    BY <1>2, <1>4, ProjectIs
  <2>2. C["spec"] = Extension!Project(F1)["spec"]
    BY <1>2, <1>7, <1>12, SpecIs
  <2> QED BY <2>1, <2>2 DEF DerivedFiles
<1>11. C["config"].edited = {}
  BY <1>2, <1>3, <1>12
<1> QED BY <1>2, <1>8, <1>9, <1>10, <1>11

\* What it is completed to.
LEMMA PlansReach ==
  ASSUME NEW F0 \in SUBSET Extension!Catalog, NEW F1 \in SUBSET Extension!Catalog,
         Extension!GeneratedHooks(F0) \subseteq Extension!GeneratedHooks(F1),
         NEW D, BetweenProjects(D, F0, F1), NEW f \in DerivedFiles
  PROVE  Extension!Candidates(D, D["spec"], D["state"], F1, D["config"])[f] = Extension!Project(F1)[f]
<1>1. ASSUME NEW c, c = Extension!Candidates(D, D["spec"], D["state"], F1, D["config"])
      PROVE  c[f] = Extension!Project(F1)[f]
  BY <1>1, PlansComplete
<1> QED BY <1>1

\* Such a mix asks for the same features as the older project.
LEMMA TargetOfMixed ==
  ASSUME NEW F0 \in SUBSET Extension!Catalog, NEW U, NEW D,
         BetweenProjects(D, F0, TargetFeatures(F0, U))
  PROVE  /\ TargetFeatures(D["spec"].features, U) = TargetFeatures(F0, U)
         /\ ~WrittenByHand(D)
<1> DEFINE F1 == TargetFeatures(F0, U)
<1>1. D["spec"] = Extension!Project(F0)["spec"] \/ D["spec"] = Extension!Project(F1)["spec"]
  BY DEF BetweenProjects, DerivedFiles
<1>2. D["spec"].features \in {F0, F1}
  BY <1>1, SpecIs
<1>4. D["source"] = Extension!Project(F0)["source"] \/ D["source"] = Extension!Project(F1)["source"]
  BY DEF BetweenProjects, DerivedFiles
<1>5. "matches" \in Extension!Hooks
  BY DEF Extension!Hooks, Extension!SiteHooks
<1>6. ~WrittenByHand(D)
  <2>1. ASSUME NEW G PROVE ~Extension!IsOwn(Extension!Project(G)["source"].blocks["matches"])
    <3>1. Extension!Project(G)["source"].blocks["matches"] = Extension!Block("matches", G)
      BY <1>5, SourceIs
    <3>2. ~Extension!IsOwn(Extension!Block("matches", G))
      BY BlocksAreGenerated
    <3> QED BY <3>1, <3>2
  <2> QED BY <1>4, <2>1 DEF WrittenByHand
<1> QED BY <1>2, <1>6, TargetIsStable

\* The project with the file put back that one has emptied.
LEMMA WholeIs ==
  /\ (\A d \in Extenders : restoring[d] = None) => Extension!Whole = disk
  /\ (\A d \in Extenders : restoring'[d] = None) => Extension!Whole' = disk'
  /\ \A e \in Extenders : restoring[e] # None /\ (\A d \in Extenders \ {e} : restoring[d] = None)
       => Extension!Whole = [disk EXCEPT ![restoring[e]] = snapshots[e][restoring[e]]]
  /\ \A e \in Extenders : restoring'[e] # None /\ (\A d \in Extenders \ {e} : restoring'[d] = None)
       => Extension!Whole' = [disk' EXCEPT ![restoring'[e]] = snapshots'[e][restoring'[e]]]
<1>1. \A rs : \A e \in Extenders : rs[e] # None /\ (\A d \in Extenders \ {e} : rs[d] = None)
        => (CHOOSE d \in Extenders : rs[d] # None) = e
  OBVIOUS
<1> QED BY <1>1 DEF Extension!Whole

LEMMA WholeRests ==
  ASSUME UNCHANGED <<disk, restoring, snapshots>> PROVE Extension!Whole' = Extension!Whole
  BY DEF Extension!Whole

\* One that is at work is alone, and the files are whole unless it puts them back.
LEMMA OneMoving ==
  ASSUME ExtensionInv, Undisturbed, Calm, NEW e \in Extenders, IsActive(e)
  PROVE  /\ \A d \in Extenders \ {e} : ~IsActive(d) /\ restoring[d] = None
         /\ restoring[e] = None => Extension!Whole = disk
         /\ extendStep[e] # "rollback" => restoring[e] = None
<1>1. \A d \in Extenders \ {e} : ~IsActive(d) /\ restoring[d] = None
  BY DEF Undisturbed, OneRestores
<1>2. restoring[e] = None => Extension!Whole = disk
  BY <1>1, WholeIs
<1>3. extendStep[e] # "rollback" => restoring[e] = None
  BY DEF ExtensionInv, BackupKeeps, IsActive, ActiveSteps
<1> QED BY <1>1, <1>2, <1>3

\* One extension moves, alone.
LEMMA OneRuns ==
  ASSUME ExtensionInv, Undisturbed, Calm, NEW e \in Extenders, IsActive(e),
         DOMAIN baseline' = Extenders, UNCHANGED requested, extendStep'[e] # "start",
         \A d \in Extenders \ {e} : extendStep'[d] = extendStep[d] /\ restoring'[d] = restoring[d],
         WrittenByHand(Extension!Whole) /\ ChangesByHand(extendStep[e], snapshots[e], changes[e])
           => WrittenByHand(Extension!Whole') /\ ChangesByHand(extendStep'[e], snapshots'[e], changes'[e]),
         \A F0 \in SUBSET Extension!Catalog :
           LET F1 == TargetFeatures(F0, requested[e])
           IN  BetweenProjects(Extension!Whole, F0, F1) /\ ExtenderOnItsWay(e, F0, F1)
                 => /\ BetweenProjects(Extension!Whole', F0, F1)
                    /\ extendStep'[e] \in ActiveSteps =>
                                        OnItsWay(extendStep'[e], original'[e], baseline'[e], snapshots'[e], changes'[e], applied'[e],
                                         Extension!Whole', F0, F1)
  PROVE  Undisturbed'
<1> SUFFICES /\ \A d, g \in Extenders : IsActive(d)' /\ IsActive(g)' => d = g
             /\ OneRestores'
             /\ ManagedByHand' \/ \E F0 \in SUBSET Extension!Catalog : GrownFrom(F0)'
  BY DEF Undisturbed
<1>2. ASSUME NEW d \in Extenders, d # e
      PROVE  /\ ~IsActive(d) /\ ~(extendStep'[d] \in ActiveSteps) /\ extendStep'[d] = extendStep[d]
             /\ restoring'[d] = None
  BY <1>2, OneMoving DEF IsActive
<1>1. OneRestores'
  BY <1>2 DEF OneRestores, IsActive
<1>3. \A d, g \in Extenders : IsActive(d)' /\ IsActive(g)' => d = g
  BY <1>2 DEF IsActive
<1>4. CASE ManagedByHand
  <2>1. WrittenByHand(Extension!Whole') /\ ChangesByHand(extendStep'[e], snapshots'[e], changes'[e])
    BY <1>4 DEF ManagedByHand
  <2>2. ASSUME NEW d \in Extenders PROVE ChangesByHand(extendStep'[d], snapshots'[d], changes'[d])
    <3>1. CASE d = e
      BY <2>1, <3>1
    <3>2. CASE d # e
      BY <3>2, <1>2 DEF ChangesByHand, ActiveSteps, HasSnapshots, HasChanges
    <3> QED BY <3>1, <3>2
  <2> QED BY <1>1, <1>3, <2>1, <2>2 DEF ManagedByHand
<1>5. ASSUME NEW F0 \in SUBSET Extension!Catalog, GrownFrom(F0) PROVE GrownFrom(F0)'
  <2> SUFFICES ASSUME NEW U, OneUpdate(U)'
               PROVE  /\ BetweenProjects(Extension!Whole', F0, TargetFeatures(F0, U))
                      /\ \A d \in Extenders : IsActive(d)' => ExtenderOnItsWay(d, F0, TargetFeatures(F0, U))'
    BY DEF GrownFrom
  <2>1. extendStep[e] # "start" /\ requested[e] = U
    BY DEF OneUpdate, IsActive, ActiveSteps
  <2>2. OneUpdate(U)
    BY <2>1, <1>2 DEF OneUpdate
  <2>3. /\ BetweenProjects(Extension!Whole, F0, TargetFeatures(F0, U))
        /\ ExtenderOnItsWay(e, F0, TargetFeatures(F0, U))
    BY <1>5, <2>2 DEF GrownFrom
  <2>4. /\ BetweenProjects(Extension!Whole', F0, TargetFeatures(F0, U))
        /\ extendStep'[e] \in ActiveSteps =>
             OnItsWay(extendStep'[e], original'[e], baseline'[e], snapshots'[e], changes'[e], applied'[e],
                  Extension!Whole', F0, TargetFeatures(F0, U))
    BY <2>1, <2>3
  <2>5. ASSUME NEW d \in Extenders, IsActive(d)'
        PROVE  ExtenderOnItsWay(d, F0, TargetFeatures(F0, U))'
    <3>1. d = e /\ extendStep'[e] \in ActiveSteps
      BY <2>5, <1>2 DEF IsActive
    <3> QED BY <2>4, <3>1 DEF ExtenderOnItsWay
  <2> QED BY <2>4, <2>5
<1>6. ManagedByHand \/ \E F0 \in SUBSET Extension!Catalog : GrownFrom(F0)
  BY DEF Undisturbed
<1> QED BY <1>1, <1>3, <1>4, <1>5, <1>6

\* Nothing is said once the author has edited a file, or two have overlapped.
LEMMA DisturbedStays ==
  ASSUME ExtensionInv, Undisturbed, Extension!ExtensionNext, ~Calm \/ Extension!Edit
  PROVE  Undisturbed'
<1>1. edits \in Seq(EditKinds)
  BY DEF ExtensionInv, EditsTypeOK
<1>2. \/ (met => met') /\ (edits' = edits \/ DOMAIN edits' = DOMAIN edits)
      \/ \E r : edits' = Append(edits, r)
  <2>1. ASSUME NEW e \in Extenders,
               Extension!Merge(e) \/ Extension!Undo(e) \/ Extension!PutBack(e)
        PROVE  (met => met') /\ (edits' = edits \/ DOMAIN edits' = DOMAIN edits)
    <3>1. CASE Extension!Merge(e)
      BY <3>1 DEF Extension!Merge
    <3>2. CASE Extension!Undo(e)
      BY <3>2 DEF Extension!Undo
    <3>3. CASE Extension!PutBack(e)
      BY <3>3 DEF Extension!PutBack
    <3> QED BY <2>1, <3>1, <3>2, <3>3
  <2>2. ASSUME NEW e \in Extenders,
               \/ Extension!Stumble(e) \/ Extension!ReadBaseline(e) \/ Extension!Snapshot(e)
               \/ Extension!Check(e) \/ Extension!Compare(e) \/ Extension!Write(e)
               \/ Extension!WriteFails(e) \/ Extension!Die(e)
        PROVE  (met => met') /\ edits' = edits
    BY <2>2 DEF Extension!Stumble, Extension!ReadBaseline, Extension!Snapshot, Extension!Check,
       Extension!Compare, Extension!Write, Extension!WriteFails, Extension!Die
  <2>3. ASSUME NEW e \in Extenders, Extension!ReadSpec(e)
        PROVE  edits' = edits /\ (met => met')
    BY <2>3 DEF Extension!ReadSpec
  <2>4. Extension!Edit => \E r : edits' = Append(edits, r)
    BY DEF Extension!Edit
  <2> QED BY <2>1, <2>2, <2>3, <2>4 DEF Extension!ExtensionNext
<1>3. Extension!Edit => \E r : edits' = Append(edits, r)
  BY DEF Extension!Edit
<1>4. ASSUME NEW r PROVE Append(edits, r) # <<>>
  <2>1. DOMAIN Append(edits, r) = 1..(Len(edits) + 1) /\ Len(edits) \in Nat
    BY <1>1
  <2>2. 1 \in DOMAIN Append(edits, r) /\ DOMAIN <<>> = {}
    BY <2>1
  <2> QED BY <2>2
<1>5. edits # <<>> /\ DOMAIN edits' = DOMAIN edits => edits' # <<>>
  <2>1. edits # <<>> => 1 \in DOMAIN edits
    BY <1>1
  <2>2. DOMAIN <<>> = {}
    OBVIOUS
  <2> QED BY <2>1, <2>2
<1>6. ~Calm'
  BY <1>2, <1>3, <1>4, <1>5 DEF Calm
<1>7. DOMAIN baseline' = Extenders
  BY DEF Undisturbed, Extension!ExtensionNext, Extension!Edit, Extension!ReadSpec, Extension!Stumble,
     Extension!ReadBaseline, Extension!Snapshot, Extension!Merge, Extension!Check, Extension!Compare,
     Extension!Write, Extension!WriteFails, Extension!Undo, Extension!PutBack, Extension!Die
<1> QED BY <1>6, <1>7 DEF Undisturbed

\* One extension starts, while no other is active.
LEMMA ReadSpecQuiet ==
  ASSUME ExtensionInv, Undisturbed, NEW e \in Extenders, Extension!ReadSpec(e)
  PROVE  Undisturbed'
<1>1. /\ extendStep[e] = "start" /\ extendStep' = [extendStep EXCEPT ![e] = "baseline"]
      /\ original' = [original EXCEPT ![e] = disk.spec]
      /\ met' = (met \/ \E d \in Extenders : Extension!Working(d) \/ Extension!Interrupted(d))
      /\ UNCHANGED <<disk, edits, requested, baseline, snapshots, changes, applied, restoring>>
  BY DEF Extension!ReadSpec, Extension!Goto
<1> SUFFICES ASSUME Calm'
             PROVE  /\ \A d, g \in Extenders : IsActive(d)' /\ IsActive(g)' => d = g
                    /\ OneRestores'
                    /\ ManagedByHand' \/ \E F0 \in SUBSET Extension!Catalog : GrownFrom(F0)'
  BY <1>1 DEF Undisturbed
<1>2. Calm /\ \A d \in Extenders : ~Extension!Working(d) /\ ~Extension!Interrupted(d)
  BY <1>1 DEF Calm
<1>12. ASSUME NEW d \in Extenders PROVE extendStep[d] = "start" \/ extendStep[d] = "ended"
  BY <1>2 DEF Extension!Working
<1>13. ASSUME NEW d \in Extenders PROVE extendStep[d] = "ended" => restoring[d] = None
  BY <1>2 DEF Extension!Interrupted
<1>3. ExtendersMapped /\ \A d \in Extenders : BackupKeeps(edits, d, extendStep[d], snapshots[d], restoring[d])
  BY DEF ExtensionInv
<1>4. extendStep'[e] = "baseline" /\ original'[e] = disk["spec"] /\ \A d \in Extenders \ {e} : extendStep'[d] = extendStep[d]
  BY <1>1, <1>3 DEF ExtendersMapped
<1>5. ASSUME NEW d \in Extenders
      PROVE  (extendStep'[d] \in ActiveSteps <=> d = e) /\ (d # e => extendStep'[d] = extendStep[d])
  BY <1>12, <1>4 DEF ActiveSteps
<1>10. \A d \in Extenders : restoring[d] = None /\ restoring'[d] = None
  BY <1>1, <1>3, <1>12, <1>13 DEF BackupKeeps
<1>11. Extension!Whole = disk /\ Extension!Whole' = disk
  BY <1>1, <1>10, WholeIs
<1>6. (\A d, g \in Extenders : IsActive(d)' /\ IsActive(g)' => d = g) /\ OneRestores'
  BY <1>5, <1>10 DEF IsActive, OneRestores
<1>7. CASE ManagedByHand
  <2>1. WrittenByHand(Extension!Whole')
    BY <1>7, <1>11 DEF ManagedByHand
  <2>2. ASSUME NEW d \in Extenders PROVE ChangesByHand(extendStep'[d], snapshots'[d], changes'[d])
    BY <1>12, <1>4 DEF ChangesByHand, HasSnapshots, HasChanges
  <2> QED BY <1>6, <2>1, <2>2 DEF ManagedByHand
<1>8. ASSUME NEW F0 \in SUBSET Extension!Catalog, GrownFrom(F0) PROVE GrownFrom(F0)'
  <2> SUFFICES ASSUME NEW U, OneUpdate(U)'
               PROVE  /\ BetweenProjects(Extension!Whole', F0, TargetFeatures(F0, U))
                      /\ \A d \in Extenders : IsActive(d)' => ExtenderOnItsWay(d, F0, TargetFeatures(F0, U))'
    BY DEF GrownFrom
  <2>1. OneUpdate(U)
    BY <1>1, <1>5 DEF OneUpdate
  <2>2. BetweenProjects(Extension!Whole', F0, TargetFeatures(F0, U))
    BY <1>8, <1>11, <2>1 DEF GrownFrom
  <2>3. ASSUME NEW d \in Extenders, IsActive(d)'
        PROVE  ExtenderOnItsWay(d, F0, TargetFeatures(F0, U))'
    <3>1. d = e
      BY <2>3, <1>5 DEF IsActive
    <3> QED BY <1>4, <1>11, <3>1 DEF ExtenderOnItsWay, OnItsWay, HasChanges
  <2> QED BY <2>2, <2>3
<1>9. ManagedByHand \/ \E F0 \in SUBSET Extension!Catalog : GrownFrom(F0)
  BY <1>2 DEF Undisturbed
<1> QED BY <1>6, <1>7, <1>8, <1>9

\* One that ends at once leaves the project as it is.
LEMMA StumbleQuiet ==
  ASSUME ExtensionInv, Undisturbed, Calm, NEW e \in Extenders, Extension!Stumble(e)
  PROVE  Undisturbed'
<1>1. /\ extendStep[e] \in {"start", "merge"} /\ extendStep' = [extendStep EXCEPT ![e] = "ended"]
      /\ UNCHANGED <<disk, edits, met, requested, original, baseline, snapshots, changes, applied, restoring>>
  BY DEF Extension!Stumble, Extension!Ends, Extension!Goto
<1>2. ExtendersMapped /\ DOMAIN baseline' = Extenders
  BY <1>1 DEF ExtensionInv, Undisturbed
<1>3. extendStep'[e] = "ended" /\ \A d \in Extenders \ {e} : extendStep'[d] = extendStep[d]
  BY <1>1, <1>2 DEF ExtendersMapped
<1>4. Extension!Whole' = Extension!Whole
  BY <1>1, WholeRests
<1>5. \A d \in Extenders : extendStep'[d] \in ActiveSteps => d # e /\ extendStep[d] \in ActiveSteps
  BY <1>3 DEF ActiveSteps
<1>6. (\A d, g \in Extenders : IsActive(d)' /\ IsActive(g)' => d = g) /\ OneRestores'
  BY <1>1, <1>5 DEF Undisturbed, OneRestores, IsActive
<1>7. CASE ManagedByHand
  <2>1. WrittenByHand(Extension!Whole')
    BY <1>7, <1>4 DEF ManagedByHand
  <2>2. ASSUME NEW d \in Extenders PROVE ChangesByHand(extendStep'[d], snapshots'[d], changes'[d])
    <3>1. CASE d = e
      BY <1>3, <3>1 DEF ChangesByHand, HasSnapshots, HasChanges
    <3>2. CASE d # e
      BY <1>1, <1>3, <1>7, <3>2 DEF ManagedByHand
    <3> QED BY <3>1, <3>2
  <2>3. ManagedByHand'
    BY <2>1, <2>2 DEF ManagedByHand
  <2> QED BY <1>2, <1>6, <2>3 DEF Undisturbed
<1>8. ASSUME NEW F0 \in SUBSET Extension!Catalog, GrownFrom(F0) PROVE GrownFrom(F0)'
  <2> SUFFICES ASSUME NEW U, OneUpdate(U)'
               PROVE  /\ BetweenProjects(Extension!Whole', F0, TargetFeatures(F0, U))
                      /\ \A d \in Extenders : IsActive(d)' => ExtenderOnItsWay(d, F0, TargetFeatures(F0, U))'
    BY DEF GrownFrom
  <2>1. OneUpdate(U)
    <3> SUFFICES ASSUME NEW d \in Extenders PROVE extendStep[d] = "start" \/ requested[d] = U
      BY DEF OneUpdate
    <3>1. extendStep'[d] = "start" \/ requested'[d] = U
      BY DEF OneUpdate
    <3> QED BY <1>1, <1>3, <3>1
  <2>2. BetweenProjects(Extension!Whole', F0, TargetFeatures(F0, U))
    BY <1>8, <1>4, <2>1 DEF GrownFrom
  <2>3. ASSUME NEW d \in Extenders, IsActive(d)'
        PROVE  ExtenderOnItsWay(d, F0, TargetFeatures(F0, U))'
    <3>1. d # e /\ IsActive(d)
      BY <2>3, <1>5 DEF IsActive
    <3>2. ExtenderOnItsWay(d, F0, TargetFeatures(F0, U))
      BY <3>1, <1>8, <2>1 DEF GrownFrom
    <3> QED BY <1>1, <1>3, <1>4, <3>1, <3>2 DEF ExtenderOnItsWay
  <2> QED BY <2>2, <2>3
<1> QED BY <1>2, <1>6, <1>7, <1>8 DEF Undisturbed

LEMMA ReadBaselineQuiet ==
  ASSUME ExtensionInv, Undisturbed, Calm, NEW e \in Extenders, Extension!ReadBaseline(e)
  PROVE  Undisturbed'
<1>1. /\ extendStep[e] = "baseline"
      /\ UNCHANGED <<disk, edits, met, requested, original, snapshots, changes, applied, restoring>>
      /\ \/ /\ Extension!Selectable(Extension!Selected(e)) /\ extendStep' = [extendStep EXCEPT ![e] = "snapshot"]
            /\ baseline' = [baseline EXCEPT ![e] = disk.state]
         \/ extendStep' = [extendStep EXCEPT ![e] = "ended"] /\ UNCHANGED baseline
  BY DEF Extension!ReadBaseline, Extension!Goto, Extension!Ends
<1>0. Extension!Whole = disk /\ Extension!Whole' = disk' /\ \A d \in Extenders : restoring'[d] = restoring[d]
  <2>1. \A d \in Extenders : restoring[d] = None /\ restoring'[d] = None
    BY <1>1, OneMoving DEF IsActive, ActiveSteps
  <2> QED BY <2>1, WholeIs
<1>2. ExtendersMapped /\ DOMAIN baseline = Extenders
  BY DEF ExtensionInv, Undisturbed
<1>3. /\ DOMAIN baseline' = Extenders /\ \A d \in Extenders \ {e} : extendStep'[d] = extendStep[d]
      /\ \/ Extension!Selectable(Extension!Selected(e)) /\ extendStep'[e] = "snapshot" /\ baseline'[e] = disk["state"]
         \/ extendStep'[e] = "ended"
  BY <1>1, <1>2 DEF ExtendersMapped
<1>4. WrittenByHand(disk) => WrittenByHand(disk') /\ ChangesByHand(extendStep'[e], snapshots'[e], changes'[e])
  BY <1>1, <1>3 DEF ChangesByHand, HasSnapshots, HasChanges
<1>5. ASSUME NEW F0 \in SUBSET Extension!Catalog, NEW F1, F1 = TargetFeatures(F0, requested[e]),
             BetweenProjects(disk, F0, F1), ExtenderOnItsWay(e, F0, F1)
      PROVE  /\ BetweenProjects(disk', F0, F1)
             /\ extendStep'[e] \in ActiveSteps =>
                  OnItsWay(extendStep'[e], original'[e], baseline'[e], snapshots'[e], changes'[e], applied'[e], disk', F0, F1)
  <2>1. BetweenProjects(disk', F0, F1) /\ original[e] = disk["spec"]
    BY <1>0, <1>1, <1>5 DEF ExtenderOnItsWay, OnItsWay
  <2>2. CASE extendStep'[e] = "ended"
    BY <2>1, <2>2 DEF ActiveSteps
  <2>3. CASE Extension!Selectable(Extension!Selected(e)) /\ extendStep'[e] = "snapshot" /\ baseline'[e] = disk["state"]
    <3>1. requested[e] \subseteq Extension!Catalog
      BY <2>3 DEF Extension!Selected, Extension!Merged, Extension!Selectable
    <3>2. {"host", "html"} \subseteq Extension!Catalog
      BY DEF Extension!Catalog, Extension!SiteOnly
    <3>3. F1 \subseteq Extension!Catalog
      BY <1>5, <3>1, <3>2 DEF TargetFeatures, Extension!Merged, Extension!SelectFeatures
    <3> QED BY <1>1, <2>1, <2>3, <3>3 DEF OnItsWay, HasChanges
  <2> QED BY <1>3, <2>2, <2>3
<1> QED BY <1>0, <1>1, <1>3, <1>4, <1>5, OneRuns DEF IsActive, ActiveSteps

LEMMA SnapshotQuiet ==
  ASSUME ExtensionInv, Undisturbed, Calm, NEW e \in Extenders, Extension!Snapshot(e)
  PROVE  Undisturbed'
<1>1. /\ extendStep[e] = "snapshot" /\ extendStep' = [extendStep EXCEPT ![e] = "merge"]
      /\ snapshots' = [snapshots EXCEPT ![e] = disk]
      /\ UNCHANGED <<disk, edits, met, requested, original, baseline, changes, applied, restoring>>
  BY DEF Extension!Snapshot, Extension!Goto
<1>0. Extension!Whole = disk /\ Extension!Whole' = disk' /\ \A d \in Extenders : restoring'[d] = restoring[d]
  <2>1. \A d \in Extenders : restoring[d] = None /\ restoring'[d] = None
    BY <1>1, OneMoving DEF IsActive, ActiveSteps
  <2> QED BY <2>1, WholeIs
<1>2. ExtendersMapped /\ DOMAIN baseline = Extenders
  BY DEF ExtensionInv, Undisturbed
<1>3. /\ extendStep'[e] = "merge" /\ snapshots'[e] = disk /\ \A d \in Extenders \ {e} : extendStep'[d] = extendStep[d]
  BY <1>1, <1>2 DEF ExtendersMapped
<1>4. WrittenByHand(disk) => WrittenByHand(disk') /\ ChangesByHand(extendStep'[e], snapshots'[e], changes'[e])
  BY <1>1, <1>3 DEF ChangesByHand, HasChanges
<1>5. ASSUME NEW F0 \in SUBSET Extension!Catalog, NEW F1, F1 = TargetFeatures(F0, requested[e]),
             BetweenProjects(disk, F0, F1), ExtenderOnItsWay(e, F0, F1)
      PROVE  /\ BetweenProjects(disk', F0, F1)
             /\ extendStep'[e] \in ActiveSteps =>
                  OnItsWay(extendStep'[e], original'[e], baseline'[e], snapshots'[e], changes'[e], applied'[e], disk', F0, F1)
  BY <1>0, <1>1, <1>3, <1>5 DEF ExtenderOnItsWay, OnItsWay, HasChanges
<1> QED BY <1>0, <1>1, <1>2, <1>3, <1>4, <1>5, OneRuns DEF IsActive, ActiveSteps

\* A method of the author is not replaced.
LEMMA PlansOfOwn ==
  ASSUME NEW sn, WrittenByHand(sn), NEW or, NEW base, NEW F, NEW config
  PROVE  WrittenByHand(Extension!Candidates(sn, or, base, F, config))
<1> DEFINE C == Extension!Candidates(sn, or, base, F, config)
<1>1. C["source"] = [blocks |-> [h \in Extension!Hooks |-> Extension!ReplacedBlock(h, sn.source.blocks[h], base, F)],
                     imports |-> Extension!ImportBlock(F), rest |-> sn.source.rest]
  BY DEF Extension!Candidates
<1> HIDE DEF C
<1>2. "matches" \in Extension!Hooks
  BY DEF Extension!Hooks, Extension!SiteHooks
<1>3. C["source"].blocks["matches"] = Extension!ReplacedBlock("matches", sn["source"].blocks["matches"], base, F)
  BY <1>1, <1>2
<1>4. Extension!IsOwn(C["source"].blocks["matches"])
  BY <1>3 DEF Extension!ReplacedBlock, WrittenByHand
<1> QED BY <1>4 DEF WrittenByHand, C

LEMMA MergeQuiet ==
  ASSUME ExtensionInv, Undisturbed, Calm, NEW e \in Extenders, Extension!Merge(e)
  PROVE  Undisturbed'
<1> DEFINE sn == snapshots[e]
           or == original[e]
           F == Extension!SelectFeatures(Extension!Selected(e))
           C == Extension!Candidates(sn, or, baseline[e], F, disk.config)
           ch == [f \in {g \in Extension!Range(Extension!Files) : C[g] # sn[g]} |-> C[f]]
<1>1. /\ extendStep[e] = "merge"
      /\ UNCHANGED <<disk, met, requested, original, baseline, snapshots, applied, restoring>>
  BY DEF Extension!Merge
<1>0. Extension!Whole = disk /\ Extension!Whole' = disk' /\ \A d \in Extenders : restoring'[d] = restoring[d]
  <2>1. \A d \in Extenders : restoring[d] = None /\ restoring'[d] = None
    BY <1>1, OneMoving DEF IsActive, ActiveSteps
  <2> QED BY <2>1, WholeIs
<1>2. ExtendersMapped /\ DOMAIN baseline = Extenders
  BY DEF ExtensionInv, Undisturbed
<1>3. \/ extendStep' = [extendStep EXCEPT ![e] = "ended"] /\ UNCHANGED changes
      \/ extendStep' = [extendStep EXCEPT ![e] = "check"] /\ changes' = [changes EXCEPT ![e] = ch]
  BY DEF Extension!Merge, Extension!Goto, Extension!Ends
<1> HIDE DEF ch
<1>4. /\ \A d \in Extenders \ {e} : extendStep'[d] = extendStep[d]
      /\ \/ extendStep'[e] = "ended"
         \/ extendStep'[e] = "check" /\ changes'[e] = ch
  BY <1>2, <1>3 DEF ExtendersMapped
<1>5. DOMAIN ch = {g \in ProjectFiles : C[g] # sn[g]} /\ \A f \in DOMAIN ch : ch[f] = C[f]
  BY FilesAre DEF ch
<1> HIDE DEF C, F
<1>6. WrittenByHand(disk) /\ ChangesByHand(extendStep[e], snapshots[e], changes[e])
        => WrittenByHand(disk') /\ ChangesByHand(extendStep'[e], snapshots'[e], changes'[e])
  <2> SUFFICES ASSUME WrittenByHand(disk), ChangesByHand(extendStep[e], snapshots[e], changes[e])
               PROVE  WrittenByHand(disk') /\ ChangesByHand(extendStep'[e], snapshots'[e], changes'[e])
    OBVIOUS
  <2>1. WrittenByHand(sn)
    BY <1>1 DEF ChangesByHand, HasSnapshots
  <2>2. WrittenByHand(C)
    BY <2>1, PlansOfOwn DEF C
  <2>3. extendStep'[e] = "check" => ChangesByHand("check", sn, ch)
    BY <1>5, <2>1, <2>2 DEF ChangesByHand, WrittenByHand
  <2>4. ChangesByHand("ended", sn, changes'[e])
    BY DEF ChangesByHand, HasSnapshots, HasChanges
  <2> QED BY <1>1, <1>4, <2>3, <2>4
<1>7. ASSUME NEW F0 \in SUBSET Extension!Catalog, NEW F1, F1 = TargetFeatures(F0, requested[e]),
             BetweenProjects(disk, F0, F1), ExtenderOnItsWay(e, F0, F1)
      PROVE  /\ BetweenProjects(disk', F0, F1)
             /\ extendStep'[e] \in ActiveSteps =>
                  OnItsWay(extendStep'[e], original'[e], baseline'[e], snapshots'[e], changes'[e], applied'[e], disk', F0, F1)
  <2>1. CASE extendStep'[e] = "ended"
    BY <1>1, <1>7, <2>1 DEF ActiveSteps
  <2>2. CASE extendStep'[e] = "check" /\ changes'[e] = ch
    <3>1. /\ sn = disk
          /\ or = disk["spec"]
          /\ baseline[e] = disk["state"]
          /\ F1 \in SUBSET Extension!Catalog
      BY <1>0, <1>1, <1>7 DEF ExtenderOnItsWay, OnItsWay
    <3>2. TargetFeatures(disk["spec"].features, requested[e]) = F1
      BY <1>7, <3>1, TargetOfMixed
    <3>3. F = F1
      BY <3>1, <3>2 DEF F, Extension!Selected, TargetFeatures
    <3>4. Extension!GeneratedHooks(F0) \subseteq Extension!GeneratedHooks(F1)
      BY <1>7, HooksGrow
    <3>5. C = Extension!Candidates(disk, disk["spec"], disk["state"], F1, disk["config"])
      BY <3>1, <3>3 DEF C
    <3>6. C["config"].edited = {} /\ \A f \in DerivedFiles : C[f] = Extension!Project(F1)[f]
      <4>1. F1 \in SUBSET Extension!Catalog /\ BetweenProjects(disk, F0, F1)
        BY <1>7, <3>1
      <4> HIDE DEF sn, or
      <4>2. ASSUME NEW c,
                   c = Extension!Candidates(disk, disk["spec"], disk["state"], F1, disk["config"])
            PROVE  c["config"].edited = {} /\ \A f \in DerivedFiles : c[f] = Extension!Project(F1)[f]
        BY <4>1, <4>2, <3>4, PlansComplete
      <4> QED BY <4>2, <3>5
    <3>7. PlanReaches(disk, ch, F1)
      <4>1. \A f \in DerivedFiles : f \in ProjectFiles
        BY DEF DerivedFiles, ProjectFiles
      <4> HIDE DEF sn
      <4>2. \A f \in DerivedFiles : IF f \in DOMAIN ch THEN ch[f] = Extension!Project(F1)[f] ELSE disk[f] = Extension!Project(F1)[f]
        BY <1>5, <3>1, <3>6, <4>1
      <4>3. "config" \in DOMAIN ch => ch["config"].edited = {}
        BY <1>5, <3>6
      <4> QED BY <1>5, <4>2, <4>3 DEF PlanReaches
    <3>8. applied[e] = <<>>
      <4>1. ExtenderKeeps(edits, "merge", original[e], snapshots[e], changes[e], applied[e])
        BY <1>1 DEF ExtensionInv
      <4> QED BY <4>1 DEF ExtenderKeeps, AppliedKeep, Replacing
    <3>9. PartlyApplied(disk, disk, ch, <<>>)
      <4>1. DOMAIN disk = ProjectFiles
        BY <1>7 DEF BetweenProjects
      <4> QED BY <4>1 DEF PartlyApplied, Extension!Range
    <3> QED BY <1>1, <1>7, <2>2, <3>1, <3>7, <3>8, <3>9 DEF OnItsWay, HasChanges
  <2> QED BY <1>4, <2>1, <2>2
<1> QED BY <1>0, <1>1, <1>2, <1>4, <1>6, <1>7, OneRuns DEF IsActive, ActiveSteps

\* A step that replaces no file leaves the project as it is.
LEMMA WritesNothing ==
  ASSUME ExtensionInv, Undisturbed, Calm, NEW e \in Extenders, extendStep[e] \in HasChanges,
         UNCHANGED <<disk, edits, met, requested, original, baseline, snapshots, changes, applied, restoring>>,
         NEW s \in HasChanges \cup {"ended"}, extendStep' = [extendStep EXCEPT ![e] = s]
  PROVE  Undisturbed'
<1>1. ExtendersMapped /\ DOMAIN baseline = Extenders
  BY DEF ExtensionInv, Undisturbed
<1>2. extendStep'[e] = s /\ \A d \in Extenders \ {e} : extendStep'[d] = extendStep[d]
  BY <1>1 DEF ExtendersMapped
<1>3. ChangesByHand(extendStep[e], snapshots[e], changes[e]) => ChangesByHand(extendStep'[e], snapshots'[e], changes'[e])
  BY <1>2 DEF ChangesByHand, HasSnapshots, HasChanges
<1>4. ASSUME NEW F0, NEW F1, ExtenderOnItsWay(e, F0, F1), s # "ended"
      PROVE  OnItsWay(s, original[e], baseline[e], snapshots[e], changes[e], applied[e], Extension!Whole,
               F0, F1)
  BY <1>4 DEF ExtenderOnItsWay, OnItsWay, HasChanges
<1>5. \A F0, F1 : ExtenderOnItsWay(e, F0, F1) /\ s # "ended" =>
        OnItsWay(s, original[e], baseline[e], snapshots[e], changes[e], applied[e], Extension!Whole, F0, F1)
  BY <1>4
<1>6. extendStep[e] # "start" /\ IsActive(e) /\ s # "start" /\ (s \in ActiveSteps => s # "ended")
  BY DEF HasChanges, IsActive, ActiveSteps
<1>7. Extension!Whole' = Extension!Whole
  BY WholeRests
<1> QED BY <1>7, <1>1, <1>2, <1>3, <1>5, <1>6, OneRuns

\* The steps that only compare, fail or end.
LEMMA QuietSteps ==
  ASSUME ExtensionInv, Undisturbed, Calm, NEW e \in Extenders,
         Extension!Check(e) \/ Extension!Compare(e) \/ Extension!WriteFails(e) \/ Extension!Die(e)
  PROVE  Undisturbed'
<1>1. /\ extendStep[e] \in HasChanges
      /\ UNCHANGED <<disk, edits, met, requested, original, baseline, snapshots, changes, applied, restoring>>
      /\ \E s \in HasChanges \cup {"ended"} : extendStep' = [extendStep EXCEPT ![e] = s]
  BY DEF Extension!Check, Extension!Compare, Extension!WriteFails, Extension!Die,
     Extension!Goto, Extension!Ends, HasChanges
<1> QED BY <1>1, WritesNothing

\* The state is the last file to be replaced.
LEMMA StateIsLast ==
  ASSUME NEW ch, NEW ap, Unwritten(ch, ap) # {}, DOMAIN ch \subseteq ProjectFiles
  PROVE  /\ Extension!FileAt(Unwritten(ch, ap)) \in DOMAIN ch /\ Extension!FileAt(Unwritten(ch, ap)) \notin Extension!Range(ap)
         /\ Extension!FileAt(Unwritten(ch, ap)) = "state" => DOMAIN ch \subseteq Extension!Range(ap) \cup {"state"}
<1> DEFINE L == Unwritten(ch, ap)
<1>1. \E n \in L : Extension!FileAt(L) = Extension!Files[n] /\ \A m \in L : n <= m
  BY PlacesGiven DEF Unwritten
<1>2. PICK n \in L : Extension!FileAt(L) = Extension!Files[n] /\ \A m \in L : n <= m
  BY <1>1
<1>3. /\ DOMAIN Extension!Files = 1..6
      /\ Extension!Files[1] = "fixture"
      /\ Extension!Files[2] = "source"
      /\ Extension!Files[3] = "defaults"
      /\ Extension!Files[4] = "config"
      /\ Extension!Files[5] = "spec"
      /\ Extension!Files[6] = "state"
  BY DEF Extension!Files
<1>4. \A m \in L : m \in 1..6 /\ Extension!Files[m] \in DOMAIN ch \ Extension!Range(ap)
  BY <1>3 DEF Unwritten
<1>5. ASSUME Extension!FileAt(L) = "state", NEW f \in DOMAIN ch, f \notin Extension!Range(ap)
      PROVE  f = "state"
  <2>1. PICK m \in 1..6 : f = Extension!Files[m]
    BY <1>3 DEF ProjectFiles
  <2>2. m \in L
    BY <1>3, <1>5, <2>1 DEF Unwritten
  <2>3. n \in 1..6 /\ n <= m /\ Extension!Files[n] = "state"
    BY <1>2, <1>4, <1>5, <2>2
  <2>4. n = 6
    BY <1>3, <2>3
  <2>5. m = 6
    BY <2>3, <2>4
  <2> QED BY <1>3, <2>1, <2>5
<1> QED BY <1>2, <1>4, <1>5

\* Part of the files replaced, in that order, is such a mix.
LEMMA MidwayIsGood ==
  ASSUME NEW sn, NEW ch, NEW ap, NEW D, NEW F0, NEW F1,
         BetweenProjects(sn, F0, F1), PlanReaches(sn, ch, F1), PartlyApplied(D, sn, ch, ap), NEW S, ap \in Seq(S)
  PROVE  BetweenProjects(D, F0, F1)
<1>1. /\ DOMAIN D = ProjectFiles /\ \A f \in ProjectFiles : D[f] = IF f \in Extension!Range(ap) THEN ch[f] ELSE sn[f]
      /\ Extension!Range(ap) \subseteq DOMAIN ch
  BY DEF PartlyApplied
<1>2. DerivedFiles \subseteq ProjectFiles /\ "config" \in ProjectFiles /\ "state" \in DerivedFiles
  BY DEF DerivedFiles, ProjectFiles
<1>3. D["config"].edited = {}
  <2>1. CASE "config" \in Extension!Range(ap)
    BY <2>1, <1>1, <1>2 DEF PlanReaches
  <2>2. CASE "config" \notin Extension!Range(ap)
    BY <2>2, <1>1, <1>2 DEF BetweenProjects
  <2> QED BY <2>1, <2>2
<1>4. ASSUME NEW f \in DerivedFiles
      PROVE  D[f] = Extension!Project(F1)[f] \/ (D[f] = sn[f] /\ f \notin Extension!Range(ap))
  BY <1>1, <1>2 DEF PlanReaches
<1>5. ASSUME NEW f \in DerivedFiles
      PROVE  D[f] = Extension!Project(F0)[f] \/ D[f] = Extension!Project(F1)[f]
  BY <1>4 DEF BetweenProjects
<1>6. ASSUME D["state"] = Extension!Generated(F1), NEW f \in DerivedFiles
      PROVE  D[f] = Extension!Project(F1)[f]
  <2>1. CASE "state" \in Extension!Range(ap)
    <3>1. DOMAIN ch \subseteq Extension!Range(ap)
      BY <2>1 DEF PartlyApplied, Extension!Range
    <3>2. f \in DOMAIN ch => D[f] = Extension!Project(F1)[f]
      BY <3>1, <1>1, <1>2 DEF PlanReaches
    <3>3. f \notin DOMAIN ch => D[f] = Extension!Project(F1)[f]
      BY <1>1, <1>2 DEF PlanReaches
    <3> QED BY <3>2, <3>3
  <2>2. CASE "state" \notin Extension!Range(ap)
    <3>1. sn["state"] = Extension!Generated(F1)
      BY <2>2, <1>1, <1>2, <1>6
    <3>2. sn[f] = Extension!Project(F1)[f]
      BY <3>1 DEF BetweenProjects
    <3> QED BY <3>2, <1>4
  <2> QED BY <2>1, <2>2
<1> QED BY <1>1, <1>3, <1>5, <1>6 DEF BetweenProjects

LEMMA WriteQuiet ==
  ASSUME ExtensionInv, Undisturbed, Calm, NEW e \in Extenders, Extension!Write(e)
  PROVE  Undisturbed'
<1> DEFINE ch == changes[e]
           sn == snapshots[e]
           ap == applied[e]
           nf == Extension!FileAt(Unwritten(ch, ap))
           ap2 == Append(ap, nf)
<1>1. Extension!Remaining(e) = Unwritten(ch, ap) /\ Extension!NextFile(e) = nf
  BY DEF Extension!Remaining, Unwritten, Extension!NextFile
<1> HIDE DEF nf
<1>2. /\ extendStep[e] = "write" /\ extendStep' = [extendStep EXCEPT ![e] = "compare"]
      /\ disk' = [disk EXCEPT ![nf] = ch[nf]]
      /\ applied' = [applied EXCEPT ![e] = ap2]
      /\ UNCHANGED <<edits, met, requested, original, baseline, snapshots, changes, restoring>>
  BY <1>1 DEF Extension!Write, Extension!Goto
<1>0. Extension!Whole = disk /\ Extension!Whole' = disk' /\ \A d \in Extenders : restoring'[d] = restoring[d]
  <2>1. \A d \in Extenders : restoring[d] = None /\ restoring'[d] = None
    BY <1>2, OneMoving DEF IsActive, ActiveSteps
  <2> QED BY <2>1, WholeIs
<1>3. /\ ExtendersMapped
      /\ DOMAIN baseline = Extenders
      /\ ExtenderKeeps(edits, "write", original[e], sn, ch, ap)
      /\ DiskKeeps(edits, disk)
  BY <1>2 DEF ExtensionInv, Undisturbed
<1>4. /\ extendStep'[e] = "compare" /\ applied'[e] = ap2 /\ \A d \in Extenders \ {e} : extendStep'[d] = extendStep[d]
  BY <1>2, <1>3 DEF ExtendersMapped
<1>5. /\ Unwritten(ch, ap) # {}
      /\ ap \in Seq(ProjectFiles)
      /\ DOMAIN ch \subseteq ProjectFiles
      /\ DOMAIN disk = ProjectFiles
  BY <1>3 DEF ExtenderKeeps, AppliedKeep, ChangesKeep, HasPlan, DiskKeeps, ProjectShaped
<1>6. /\ nf \in DOMAIN ch /\ nf \notin Extension!Range(ap) /\ nf = "state" => DOMAIN ch \subseteq Extension!Range(ap) \cup {"state"}
  BY <1>5, StateIsLast DEF nf
<1>7. /\ nf \in DOMAIN ch /\ nf \notin Extension!Range(ap) /\ nf \in ProjectFiles
  BY <1>5, StateIsLast DEF nf
<1>8. DOMAIN disk' = ProjectFiles /\ disk'[nf] = ch[nf] /\ \A f \in ProjectFiles \ {nf} : disk'[f] = disk[f]
  BY <1>2, <1>5, <1>7
<1>9. Extension!Range(ap2) = Extension!Range(ap) \cup {nf}
  BY <1>5, <1>7, Appended
<1>10. /\ Len(ap) \in Nat
       /\ DOMAIN ap = 1..Len(ap)
       /\ DOMAIN ap2 = 1..(Len(ap) + 1)
       /\ Len(ap2) = Len(ap) + 1
       /\ ap2[Len(ap) + 1] = nf /\ (\A i \in DOMAIN ap : ap2[i] = ap[i] /\ ap[i] \in Extension!Range(ap))
       /\ ap2 \in Seq(ProjectFiles)
  BY <1>5, <1>7 DEF Extension!Range
<1> HIDE DEF ch, sn, ap, ap2
<1>11. WrittenByHand(disk) /\ ChangesByHand(extendStep[e], sn, ch) => WrittenByHand(disk') /\ ChangesByHand("compare", sn, ch)
  <2>1. "source" \in ProjectFiles
    BY DEF ProjectFiles
  <2> QED BY <1>2, <1>7, <1>8, <2>1 DEF WrittenByHand, ChangesByHand, HasSnapshots, HasChanges
<1>12. ASSUME NEW F0 \in SUBSET Extension!Catalog, NEW F1, F1 = TargetFeatures(F0, requested[e]),
              BetweenProjects(disk, F0, F1), ExtenderOnItsWay(e, F0, F1)
       PROVE  /\ BetweenProjects(disk', F0, F1)
              /\ OnItsWay("compare", original[e], baseline[e], sn, ch, ap2, disk', F0, F1)
  <2>1. BetweenProjects(sn, F0, F1) /\ PlanReaches(sn, ch, F1) /\ PartlyApplied(disk, sn, ch, ap)
    BY <1>0, <1>2, <1>12 DEF ExtenderOnItsWay, OnItsWay, HasChanges, sn, ch, ap
  <2>2. \A i, j \in DOMAIN ap2 : ap2[i] = ap2[j] => i = j
    <3> SUFFICES ASSUME NEW i \in DOMAIN ap2, NEW j \in DOMAIN ap2, ap2[i] = ap2[j] PROVE i = j
      OBVIOUS
    <3>1. (i \in DOMAIN ap \/ i = Len(ap) + 1) /\ (j \in DOMAIN ap \/ j = Len(ap) + 1)
      BY <1>10
    <3> QED BY <1>7, <1>10, <2>1, <3>1 DEF PartlyApplied
  <2>3. \A i \in DOMAIN ap2 : ap2[i] = "state" => i = Len(ap2) /\ DOMAIN ch \subseteq Extension!Range(ap2)
    <3> SUFFICES ASSUME NEW i \in DOMAIN ap2, ap2[i] = "state"
                 PROVE  i = Len(ap2) /\ DOMAIN ch \subseteq Extension!Range(ap2)
      OBVIOUS
    <3>1. CASE i \in DOMAIN ap
      <4>1. DOMAIN ch \subseteq Extension!Range(ap)
        BY <1>10, <2>1, <3>1 DEF PartlyApplied
      <4> QED BY <4>1, <1>7
    <3>2. CASE i = Len(ap) + 1
      BY <1>6, <1>7, <1>9, <1>10, <3>2
    <3> QED BY <1>10, <3>1, <3>2
  <2>4. PartlyApplied(disk', sn, ch, ap2)
    <3>1. Extension!Range(ap2) \subseteq DOMAIN ch
      BY <1>7, <1>9, <2>1 DEF PartlyApplied
    <3>2. \A f \in ProjectFiles : disk'[f] = IF f \in Extension!Range(ap2) THEN ch[f] ELSE sn[f]
      BY <1>8, <1>9, <2>1 DEF PartlyApplied
    <3> QED BY <1>8, <2>2, <2>3, <3>1, <3>2 DEF PartlyApplied
  <2>5. BetweenProjects(disk', F0, F1)
    BY <2>1, <2>4, <1>10, MidwayIsGood
  <2> QED BY <2>1, <2>4, <2>5 DEF OnItsWay
<1> QED BY <1>0, <1>2, <1>3, <1>4, <1>11, <1>12, OneRuns DEF IsActive, ActiveSteps, ch, sn

\* What is undone counts as put back.
LEMMA UndoQuiet ==
  ASSUME ExtensionInv, Undisturbed, Calm, NEW e \in Extenders, Extension!Undo(e)
  PROVE  Undisturbed'
<1> DEFINE ch == changes[e]
           sn == snapshots[e]
           ap == applied[e]
           l == Extension!Last(ap)
           ap2 == Extension!Front(ap)
           W2 == Extension!Whole'
<1>1. /\ extendStep[e] = "rollback" /\ restoring[e] = None
      /\ ExtenderKeeps(edits, "rollback", original[e], sn, ch, ap)
      /\ DiskKeeps(edits, disk)
      /\ ExtendersMapped /\ DOMAIN baseline = Extenders
  BY DEF ExtensionInv, Extension!Undo, Undisturbed
<1>4. /\ \A d \in Extenders : restoring[d] = None
      /\ Extension!Whole = disk
  BY <1>1, OneMoving DEF IsActive, ActiveSteps
<1>2. CASE ap = <<>>
  <2>1. /\ extendStep' = [extendStep EXCEPT ![e] = "ended"] /\ extendStep[e] \in HasChanges
        /\ UNCHANGED <<disk, edits, met, requested, original, baseline, snapshots, changes, applied, restoring>>
    BY <1>2 DEF Extension!Undo, Extension!Ends, Extension!Goto, HasChanges
  <2> QED BY <2>1, WritesNothing
<1>3. CASE ap # <<>>
  <2>1. /\ applied' = [applied EXCEPT ![e] = ap2]
        /\ UNCHANGED <<extendStep, met, requested, original, baseline, snapshots, changes>>
        /\ \/ disk' = [disk EXCEPT ![l] = sn[l]] /\ UNCHANGED restoring
           \/ disk' = [disk EXCEPT ![l] = Extension!Emptied(l, @)] /\ restoring' = [restoring EXCEPT ![e] = l]
    BY <1>3 DEF Extension!Undo
  <2>2. applied'[e] = ap2 /\ ap \in Seq(ProjectFiles) /\ DOMAIN disk = ProjectFiles
    BY <1>1, <2>1 DEF ExtendersMapped, ExtenderKeeps, AppliedKeep, DiskKeeps, ProjectShaped
  <2> HIDE DEF ch, sn, ap, l, ap2, W2
  <2>3. /\ Len(ap) \in Nat \ {0} /\ DOMAIN ap = 1..Len(ap) /\ DOMAIN ap2 = 1..(Len(ap) - 1)
        /\ l = ap[Len(ap)] /\ (\A i \in DOMAIN ap2 : ap2[i] = ap[i] /\ i \in DOMAIN ap /\ i # Len(ap))
        /\ ap2 \in Seq(ProjectFiles) /\ l \in ProjectFiles
    BY <1>3, <2>2 DEF l, ap2, Extension!Front, Extension!Last
  <2>4. Len(ap) \in DOMAIN ap
    BY <2>3
  <2>5. DOMAIN W2 = ProjectFiles /\ W2[l] = sn[l] /\ \A f \in ProjectFiles \ {l} : W2[f] = disk[f]
    <3>1. CASE disk' = [disk EXCEPT ![l] = sn[l]] /\ UNCHANGED restoring
      <4>1. W2 = disk'
        BY <1>4, <3>1, WholeIs DEF W2
      <4> QED BY <2>2, <2>3, <3>1, <4>1
    <3>2. CASE disk' = [disk EXCEPT ![l] = Extension!Emptied(l, @)] /\ restoring' = [restoring EXCEPT ![e] = l]
      <4>1. restoring'[e] = l /\ l # None /\ \A d \in Extenders \ {e} : restoring'[d] = None
        BY <1>1, <1>4, <2>3, <3>2, ExtensionHolds DEF ExtendersMapped, ProjectFiles, Extension!ExtensionAssumption
      <4>2. W2 = [disk' EXCEPT ![l] = sn[l]]
        <5>1. W2 = [disk' EXCEPT ![l] = snapshots'[e][l]]
          BY <4>1, WholeIs DEF W2
        <5> QED BY <2>1, <5>1 DEF sn
      <4>3. DOMAIN disk' = ProjectFiles /\ \A f \in ProjectFiles \ {l} : disk'[f] = disk[f]
        BY <2>2, <2>3, <3>2
      <4> QED BY <2>3, <4>2, <4>3
    <3> QED BY <2>1, <3>1, <3>2
  <2>8. \A d \in Extenders \ {e} : restoring'[d] = restoring[d]
    BY <1>1, <2>1 DEF ExtendersMapped
  <2>6. WrittenByHand(disk) /\ ChangesByHand("rollback", sn, ch) => WrittenByHand(W2)
    <3>1. "source" \in ProjectFiles
      BY DEF ProjectFiles
    <3> QED BY <2>5, <3>1 DEF WrittenByHand, ChangesByHand, HasSnapshots
  <2>7. ASSUME NEW F0 \in SUBSET Extension!Catalog, NEW F1,
               F1 = TargetFeatures(F0, requested[e]), BetweenProjects(disk, F0, F1),
               ExtenderOnItsWay(e, F0, F1)
        PROVE  /\ BetweenProjects(W2, F0, F1)
               /\ OnItsWay("rollback", original[e], baseline[e], sn, ch, ap2, W2, F0, F1)
    <3>1. BetweenProjects(sn, F0, F1) /\ PlanReaches(sn, ch, F1) /\ PartlyApplied(disk, sn, ch, ap)
      BY <1>1, <1>4, <2>7 DEF ExtenderOnItsWay, OnItsWay, HasChanges, sn, ch, ap
    <3>2. \A i \in DOMAIN ap : ap[i] = l => i = Len(ap)
      BY <2>3, <2>4, <3>1 DEF PartlyApplied
    <3>3. Extension!Range(ap2) = Extension!Range(ap) \ {l}
      <4>1. Extension!Range(ap2) \subseteq Extension!Range(ap) \ {l}
        BY <2>3, <3>2 DEF Extension!Range
      <4>2. \A i \in DOMAIN ap : i \in DOMAIN ap2 \/ i = Len(ap)
        BY <2>3
      <4>3. Extension!Range(ap) \ {l} \subseteq Extension!Range(ap2)
        BY <2>3, <4>2 DEF Extension!Range
      <4> QED BY <4>1, <4>3
    <3>4. \A f \in ProjectFiles : W2[f] = IF f \in Extension!Range(ap2) THEN ch[f] ELSE sn[f]
      BY <2>5, <3>1, <3>3 DEF PartlyApplied
    <3>5. \A i, j \in DOMAIN ap2 : ap2[i] = ap2[j] => i = j
      BY <2>3, <3>1 DEF PartlyApplied
    <3>6. \A i \in DOMAIN ap2 : ap2[i] # "state"
      BY <2>3, <3>1 DEF PartlyApplied
    <3>7. PartlyApplied(W2, sn, ch, ap2)
      <4>1. Extension!Range(ap2) \subseteq DOMAIN ch
        BY <3>1, <3>3 DEF PartlyApplied
      <4> QED BY <2>5, <3>4, <3>5, <3>6, <4>1 DEF PartlyApplied
    <3>8. BetweenProjects(W2, F0, F1)
      BY <2>3, <3>1, <3>7, MidwayIsGood
    <3> QED BY <3>1, <3>7, <3>8 DEF OnItsWay
  <2> QED BY <1>1, <1>4, <2>1, <2>2, <2>6, <2>7, <2>8, OneRuns DEF IsActive, ActiveSteps, ch, sn, W2, ChangesByHand
<1> QED BY <1>2, <1>3

LEMMA PutBackQuiet ==
  ASSUME ExtensionInv, Undisturbed, Calm, NEW e \in Extenders, Extension!PutBack(e)
  PROVE  Undisturbed'
<1> DEFINE f == restoring[e]
<1>1. /\ extendStep[e] = "rollback" /\ f # None
      /\ disk' = [disk EXCEPT ![f] = snapshots[e][f]] /\ restoring' = [restoring EXCEPT ![e] = None]
      /\ UNCHANGED <<extendStep, met, requested, original, baseline, snapshots, changes, applied>>
  BY DEF Extension!PutBack
<1>2. ExtendersMapped /\ DOMAIN baseline = Extenders /\ IsActive(e)
  BY <1>1 DEF ExtensionInv, Undisturbed, IsActive, ActiveSteps
<1>3. \A d \in Extenders \ {e} : restoring[d] = None
  BY <1>2, OneMoving
<1>4. restoring'[e] = None /\ \A d \in Extenders \ {e} : restoring'[d] = restoring[d]
  BY <1>1, <1>2 DEF ExtendersMapped
<1>5. Extension!Whole' = Extension!Whole
  <2>1. Extension!Whole = [disk EXCEPT ![f] = snapshots[e][f]]
    BY <1>1, <1>3, WholeIs
  <2>2. Extension!Whole' = disk'
    BY <1>3, <1>4, WholeIs
  <2> QED BY <1>1, <2>1, <2>2
<1>6. \A F0, F1 : ExtenderOnItsWay(e, F0, F1) =>
        OnItsWay(extendStep[e], original[e], baseline[e], snapshots[e], changes[e], applied[e], Extension!Whole, F0, F1)
  BY DEF ExtenderOnItsWay
<1> QED BY <1>1, <1>2, <1>4, <1>5, <1>6, OneRuns DEF ActiveSteps

\* A plugin is generated, or it was written by hand.
LEMMA StartsQuiet == ASSUME Extension!ExtensionInit PROVE Undisturbed
<1>1. /\ DOMAIN baseline = Extenders /\ \A e \in Extenders : extendStep[e] = "start"
      /\ disk = Extension!Unmanaged \/ \E F \in Originals : disk = Extension!Project(Extension!SelectFeatures(F))
  BY DEF Extension!ExtensionInit
<1>5. (\A e \in Extenders : restoring[e] = None) /\ Extension!Whole = disk /\ OneRestores
  <2>1. \A e \in Extenders : restoring[e] = None
    BY DEF Extension!ExtensionInit
  <2> QED BY <2>1, WholeIs DEF OneRestores
<1>2. \A e \in Extenders : ~IsActive(e)
  BY <1>1 DEF IsActive, ActiveSteps
<1>3. CASE disk = Extension!Unmanaged
  <2>1. disk["source"] = [blocks |-> [h \in Extension!Hooks |-> IF h \in Extension!SiteHooks THEN Extension!Own({}) ELSE Extension!Absent],
                          imports |-> Extension!Absent, rest |-> {}]
    BY <1>3 DEF Extension!Unmanaged
  <2>2. "matches" \in Extension!Hooks /\ "matches" \in Extension!SiteHooks
    BY DEF Extension!Hooks, Extension!SiteHooks
  <2>3. disk["source"].blocks["matches"] = Extension!Own({})
    BY <2>1, <2>2
  <2>4. WrittenByHand(disk)
    BY <2>3 DEF WrittenByHand, Extension!IsOwn, Extension!Own
  <2>5. ManagedByHand
    BY <1>1, <1>5, <2>4 DEF ManagedByHand, ChangesByHand, HasSnapshots, HasChanges
  <2> QED BY <1>1, <1>2, <1>5, <2>5 DEF Undisturbed
<1>4. ASSUME NEW F \in Originals, disk = Extension!Project(Extension!SelectFeatures(F))
      PROVE  Undisturbed
  <2> DEFINE F0 == Extension!SelectFeatures(F)
  <2>1. F0 \in SUBSET Extension!Catalog
    <3>1. F \subseteq Extension!Catalog /\ {"host", "html"} \subseteq Extension!Catalog
      BY ExtensionHolds DEF Extension!ExtensionAssumption, Extension!Selectable,
         Extension!Catalog, Extension!SiteOnly
    <3> QED BY <3>1 DEF Extension!SelectFeatures
  <2> HIDE DEF F0
  <2>2. disk = Extension!Project(F0)
    BY <1>4 DEF F0
  <2>3. /\ DOMAIN disk = ProjectFiles /\ disk["state"] = Extension!Generated(F0)
        /\ disk["config"].edited = {}
    <3>1. disk["config"].edited = {}
      BY <2>2, ConfigIs
    <3>2. /\ DOMAIN Extension!Project(F0) = ProjectFiles
          /\ Extension!Project(F0)["state"] = Extension!Generated(F0)
      BY ProjectIs
    <3> QED BY <2>2, <3>1, <3>2
  <2>4. ASSUME NEW F1 PROVE BetweenProjects(disk, F0, F1)
    <3>1. Extension!Generated(F0) = Extension!Generated(F1) => F0 = F1
      BY DEF Extension!Generated
    <3>2. \A f \in DerivedFiles : disk[f] = Extension!Project(F0)[f]
      BY <2>2
    <3>3. disk["state"] = Extension!Generated(F1) => \A f \in DerivedFiles : disk[f] = Extension!Project(F1)[f]
      BY <2>3, <3>1, <3>2
    <3> QED BY <2>3, <3>2, <3>3 DEF BetweenProjects
  <2>5. GrownFrom(F0)
    BY <1>2, <1>5, <2>4 DEF GrownFrom
  <2> QED BY <1>1, <1>2, <1>5, <2>1, <2>5 DEF Undisturbed
<1> QED BY <1>1, <1>3, <1>4

\* The invariant of the mix is inductive together with that of the edits.
LEMMA QuietStays == ExtensionInv /\ Undisturbed /\ [Extension!ExtensionNext]_extensionVars => Undisturbed'
<1> SUFFICES ASSUME ExtensionInv, Undisturbed, [Extension!ExtensionNext]_extensionVars
             PROVE  Undisturbed'
  OBVIOUS
<1>1. CASE Extension!ExtensionNext /\ (~Calm \/ Extension!Edit)
  BY <1>1, DisturbedStays
<1>2. ASSUME NEW e \in Extenders, Calm,
             \/ Extension!ReadSpec(e) \/ Extension!Stumble(e) \/ Extension!ReadBaseline(e)
             \/ Extension!Snapshot(e) \/ Extension!Merge(e) \/ Extension!Check(e) \/ Extension!Compare(e)
             \/ Extension!Write(e) \/ Extension!WriteFails(e) \/ Extension!Undo(e) \/ Extension!PutBack(e)
             \/ Extension!Die(e)
      PROVE  Undisturbed'
  BY <1>2, ReadSpecQuiet, StumbleQuiet, ReadBaselineQuiet, SnapshotQuiet, MergeQuiet, QuietSteps,
     WriteQuiet, UndoQuiet, PutBackQuiet
<1>3. CASE UNCHANGED extensionVars
  <2>1. Extension!Whole' = Extension!Whole
    BY <1>3, WholeRests DEF extensionVars
  <2> QED BY <1>3, <2>1 DEF Undisturbed, Calm, OneRestores, extensionVars, ManagedByHand, GrownFrom,
             OneUpdate, IsActive, ExtenderOnItsWay
<1> QED BY <1>1, <1>2, <1>3 DEF Extension!ExtensionNext

\* Records of the settings differ in what they stand for.
LEMMA OfReplaced ==
  ASSUME NEW r, NEW old, NEW v, r = [of |-> old, edited |-> {}]
  PROVE  [r EXCEPT !["of"] = v] = [of |-> v, edited |-> {}]
  OBVIOUS

\* It says that the same extension completes what was left.
LEMMA QuietCompletes == ASSUME ExtensionInv, Undisturbed PROVE Extension!RerunCompletes
<1> SUFFICES ASSUME NEW e \in Extenders,
                    \A h \in Extension!Hooks : ~Extension!IsOwn(Extension!Whole.source.blocks[h]), edits = <<>>, ~met,
                    \A d \in Extenders : extendStep[d] = "start" \/ (extendStep[d] = "ended" /\ requested[d] = requested[e]),
                    Extension!Selectable(Extension!Merged(Extension!Whole.spec.features, requested[e]))
             PROVE  LET F == Extension!SelectFeatures(Extension!Merged(Extension!Whole.spec.features, requested[e]))
                        again == Extension!Candidates(Extension!Whole, Extension!Whole.spec, Extension!Whole.state, F, Extension!Whole.config)
                    IN  /\ ~Extension!Conflicts(Extension!Whole, Extension!Whole.state, F, requested[e], Extension!Whole.defaults)
                        /\ again = [Extension!Project(F) EXCEPT !.config.of = again.config.of]
  BY DEF Extension!RerunCompletes
<1>1. ~ManagedByHand
  BY DEF ManagedByHand, WrittenByHand, Extension!Hooks, Extension!SiteHooks
<1>2. PICK F0 \in SUBSET Extension!Catalog : GrownFrom(F0)
  BY <1>1 DEF Undisturbed, Calm
<1>3. OneUpdate(requested[e])
  BY DEF OneUpdate
<1> DEFINE F == Extension!SelectFeatures(Extension!Merged(Extension!Whole.spec.features, requested[e]))
           F1 == TargetFeatures(F0, requested[e])
           C == Extension!Candidates(Extension!Whole, Extension!Whole.spec, Extension!Whole.state, F, Extension!Whole.config)
<1>4. BetweenProjects(Extension!Whole, F0, F1)
  BY <1>2, <1>3 DEF GrownFrom
<1>5. F = F1
  BY <1>4, TargetOfMixed DEF TargetFeatures
<1>6. F1 \in SUBSET Extension!Catalog
  <2>1. {"host", "html"} \subseteq Extension!Catalog
    BY DEF Extension!Catalog, Extension!SiteOnly
  <2> QED BY <1>5, <2>1 DEF Extension!Selectable, Extension!SelectFeatures
<1>7. Extension!GeneratedHooks(F0) \subseteq Extension!GeneratedHooks(F1)
  BY HooksGrow
<1> HIDE DEF F1
<1>8. C = Extension!Candidates(Extension!Whole, Extension!Whole["spec"], Extension!Whole["state"], F1, Extension!Whole["config"])
  BY <1>5
<1>9. DOMAIN C = ProjectFiles /\ C = [f \in ProjectFiles |-> C[f]]
  BY DEF Extension!Candidates, ProjectFiles
<1> HIDE DEF F, C
<1>10. ASSUME NEW c, c = Extension!Candidates(Extension!Whole, Extension!Whole["spec"], Extension!Whole["state"], F1, Extension!Whole["config"])
       PROVE  /\ ~Extension!Conflicts(Extension!Whole, Extension!Whole["state"], F1, requested[e], Extension!Whole["defaults"])
              /\ c["config"].edited = {} /\ \A f \in DerivedFiles : c[f] = Extension!Project(F1)[f]
  <2>1. \A f \in DerivedFiles : c[f] = Extension!Project(F1)[f]
    <3> SUFFICES ASSUME NEW f \in DerivedFiles PROVE c[f] = Extension!Project(F1)[f]
      OBVIOUS
    <3>1. Extension!Candidates(Extension!Whole, Extension!Whole["spec"], Extension!Whole["state"], F1, Extension!Whole["config"])[f] = Extension!Project(F1)[f]
      BY <1>4, <1>6, <1>7, PlansReach
    <3> QED BY <3>1, <1>10
  <2>3. c["config"].edited = {}
    BY <1>4, <1>6, <1>7, <1>10, PlansComplete
  <2>2. ~Extension!Conflicts(Extension!Whole, Extension!Whole["state"], F1, requested[e], Extension!Whole["defaults"])
    BY <1>4, <1>6, <1>7, <1>10, PlansComplete
  <2> QED BY <2>1, <2>2, <2>3
<1>11. /\ ~Extension!Conflicts(Extension!Whole, Extension!Whole["state"], F1, requested[e], Extension!Whole["defaults"])
       /\ C["config"].edited = {} /\ \A f \in DerivedFiles : C[f] = Extension!Project(F1)[f]
  BY <1>8, <1>10
<1>12. C["config"] = [of |-> C["config"].of, edited |-> {}]
  <2>1. C["config"] = [of |-> F1 \cup Extension!Whole["config"].of, edited |-> Extension!Dumped(Extension!Whole["config"].edited, {})]
    BY <1>8 DEF Extension!Candidates
  <2> QED BY <2>1, <1>11
<1>13. C = [Extension!Project(F1) EXCEPT !.config.of = C.config.of]
  <2> DEFINE P == Extension!Project(F1)
             w == [P EXCEPT !["config"] = [P["config"] EXCEPT !["of"] = C["config"].of]]
  <2>1. P["config"] = [of |-> F1, edited |-> {}]
    BY ConfigIs
  <2>2. [P["config"] EXCEPT !["of"] = C["config"].of] = [of |-> C["config"].of, edited |-> {}]
    BY <2>1, OfReplaced
  <2>3. DOMAIN P = ProjectFiles
    BY ProjectIs
  <2> HIDE DEF P
  <2>4. /\ DOMAIN w = ProjectFiles /\ w = [f \in ProjectFiles |-> w[f]]
        /\ w["config"] = C["config"] /\ \A f \in ProjectFiles \ {"config"} : w[f] = P[f]
    <3>1. "config" \in ProjectFiles
      BY DEF ProjectFiles
    <3> QED BY <2>2, <2>3, <3>1, <1>12
  <2> USE DEF P
  <2> HIDE DEF w
  <2>5. \A f \in ProjectFiles : w[f] = C[f]
    BY <2>4, <1>11 DEF ProjectFiles, DerivedFiles
  <2>6. w = C
    BY <2>4, <2>5, <1>9
  <2> QED BY <2>6 DEF w
<1> QED BY <1>5, <1>11, <1>13 DEF F, C

\* For every selection and every addition: what one extension after the other
\* leaves of a generated plugin, wherever each of them fails or is killed, is
\* completed without a conflict by the same extension (ProjectExtension).
THEOREM RerunsComplete == AllSpec => []RerunCompletes
<1>1. AllInit => ExtensionInv /\ Undisturbed
  BY ExtensionStarts, StartsQuiet DEF AllInit
<1>2. ExtensionInv /\ Undisturbed /\ [AllNext]_allVars => ExtensionInv' /\ Undisturbed'
  <2> SUFFICES ASSUME ExtensionInv, Undisturbed, [AllNext]_allVars
               PROVE  ExtensionInv' /\ Undisturbed'
    OBVIOUS
  <2>1. [Extension!ExtensionNext]_extensionVars
    BY DEF AllNext, Moves, Rests, allVars
  <2> QED
    BY <2>1, ExtensionKeeps, QuietStays
<1>3. ExtensionInv /\ Undisturbed => RerunCompletes
  BY QuietCompletes DEF RerunCompletes
<1> QED
  BY <1>1, <1>2, <1>3, PTL DEF AllSpec
=============================================================================
