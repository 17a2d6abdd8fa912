---------------------------- MODULE WorkflowRun ----------------------------
(***************************************************************************)
(* A workflow over one feed (application/workflow.py): check the feed,     *)
(* decide what to download (storage/workflow.py), download each URL, mark  *)
(* it completed, and repeat in retry rounds; several processes may run the *)
(* same feed, be interrupted, time out or die.                             *)
(*                                                                         *)
(* A run holds the feed lock (a mutex, see InterProcessLock) from before   *)
(* the first check until after the last round.  workflow.json and          *)
(* updates.json change in short transactions under locks of their own,     *)
(* which finish_transaction completes before a cancellation is raised, so  *)
(* each is one step here.  Other feeds live in other entries of the same   *)
(* documents and are left out.                                             *)
(***************************************************************************)
EXTENDS Integers, Sequences

CONSTANTS Runs,       \* processes that run the workflow of this feed
          Ids,        \* identities of candidates
          Urls, Revs,
          Snapshots,  \* what the site plugin's check may return
          Retries,    \* workflow_retries
          None

\* A snapshot maps the identities present to a URL and a revision.  The
\* duplicate identities select_candidates refuses are left out.
IsSnapshot(S) ==
  /\ DOMAIN S \subseteq Ids
  /\ \A i \in DOMAIN S : S[i] \in [url : Urls, rev : Revs]

ASSUME WorkflowAssumption ==
  /\ None \notin Runs \cup BOOLEAN
  /\ Retries \in Nat
  /\ \A S \in Snapshots : IsSnapshot(S)

Statuses == {"none", "unprocessed", "success", "partial", "failed", "removed"}
Exits == {"none", "ok", "error", "cancelled", "timeout"}
Phases == {"idle", "validating", "checking", "preparing", "downloading",
           "completing", "waiting", "leaving"}

VARIABLES
  records,   \* workflow.json: identity -> url, revision, completed
  updates,   \* updates.json: the snapshot of the last check
  earned,    \* history: candidates of records whose URL was downloaded since
             \* their present url and revision were recorded
  feedLock,  \* the run holding the feed lock
  phase,     \* phase[w]: what run w is doing
  scope,     \* scope[w]: download_scope
  round,     \* round[w]: number of the current round
  snap,      \* snap[w]: the snapshot of the current round
  items,     \* items[w][u]: status of the item, "none" when there is none
  ledger,    \* ledger[w][u]: None, or whether needs_retry holds for the item
  todo,      \* todo[w]: selected URLs the round has still to download
  current,   \* current[w]: the URL whose success is being recorded
  rounds,    \* rounds[w]: the round results, in order
  exit       \* exit[w]: how the run left its rounds

run == <<phase, scope, round, snap, items, ledger, todo, current, rounds, exit>>
vars == <<records, updates, earned, feedLock, run>>

Empty == [i \in {} |-> None]

Init ==
  /\ records = Empty
  /\ updates = Empty
  /\ earned = {}
  /\ feedLock = None
  /\ phase = [w \in Runs |-> "idle"]
  /\ scope = [w \in Runs |-> "updated"]
  /\ round = [w \in Runs |-> 0]
  /\ snap = [w \in Runs |-> Empty]
  /\ items = [w \in Runs |-> [u \in Urls |-> "none"]]
  /\ ledger = [w \in Runs |-> [u \in Urls |-> None]]
  /\ todo = [w \in Runs |-> {}]
  /\ current = [w \in Runs |-> None]
  /\ rounds = [w \in Runs |-> <<>>]
  /\ exit = [w \in Runs |-> "none"]

Goto(w, p) == phase' = [phase EXCEPT ![w] = p]

----------------------------------------------------------------------------
(* select_candidates *)

Changed(previous, S, i) ==
  \/ i \notin DOMAIN previous
  \/ previous[i].url # S[i].url
  \/ previous[i].rev # S[i].rev

StillComplete(previous, S, i) == ~Changed(previous, S, i) /\ previous[i].completed

\* Mutant: only what is new or changed is selected.
SelectedIfChanged(previous, S, all) ==
  {S[i].url : i \in {j \in DOMAIN S : all \/ Changed(previous, S, j)}}

\* URLs selected for download; round zero uses the scope, later ones "updated".
Selected(previous, S, all) ==
  {S[i].url : i \in {j \in DOMAIN S : all \/ ~StillComplete(previous, S, j)}}

\* Mutant: a completed candidate stays so although its URL is selected.
MergedApart(previous, S, all) ==
  [i \in DOMAIN S |->
     [url |-> S[i].url, rev |-> S[i].rev,
      completed |-> StillComplete(previous, S, i) /\ ~all]]

\* The records that replace the previous ones: any candidate that shares a
\* selected URL takes part in its attempt.
Merged(previous, S, all) ==
  [i \in DOMAIN S |->
     [url |-> S[i].url, rev |-> S[i].rev,
      completed |-> StillComplete(previous, S, i) /\ S[i].url \notin Selected(previous, S, all)]]

\* The only reason u was selected for is that it was unfinished.
OnlyUnfinished(previous, S, all, u) ==
  /\ ~all
  /\ \A i \in DOMAIN S : S[i].url = u /\ ~StillComplete(previous, S, i) => ~Changed(previous, S, i)

----------------------------------------------------------------------------
(* Rounds *)

\* A round that stops replaces its own result or, when preparation never
\* appended one, adds it.
Stopped(log, number) ==
  LET result == [number |-> number, status |-> "stopped"]
  IN IF log # <<>> /\ log[Len(log)].number = number
       THEN [log EXCEPT ![Len(log)] = result]
       ELSE Append(log, result)

\* An error or an interruption leaves the round; cleanup comes next.
Stop(w, reason) ==
  /\ Goto(w, "leaving")
  /\ exit' = [exit EXCEPT ![w] = reason]
  /\ rounds' = [rounds EXCEPT ![w] = Stopped(@, round[w])]

\* What may interrupt a run: its caller, and in retry rounds the deadline.
Interruptions(w) == {"cancelled"} \cup (IF round[w] > 0 THEN {"timeout"} ELSE {})

\* Mutant: the feed is not locked.
AcquireFeedUnlocked(w) ==
  /\ phase[w] = "idle"
  /\ feedLock' = w
  /\ Goto(w, "validating")
  /\ \E s \in {"all", "updated"} : scope' = [scope EXCEPT ![w] = s]
  /\ UNCHANGED <<records, updates, earned, round, snap, items, ledger, todo, current, rounds, exit>>

\* run(): a fresh execution takes the feed lock.
AcquireFeed(w) ==
  /\ phase[w] = "idle"
  /\ feedLock = None
  /\ feedLock' = w
  /\ Goto(w, "validating")
  /\ \E s \in {"all", "updated"} : scope' = [scope EXCEPT ![w] = s]
  /\ UNCHANGED <<records, updates, earned, round, snap, items, ledger, todo, current, rounds, exit>>

Validate(w) ==
  /\ phase[w] = "validating"
  /\ Goto(w, "checking")
  /\ UNCHANGED <<records, updates, earned, feedLock, scope, round, snap, items, ledger, todo, current, rounds, exit>>

\* An unreadable workflow.json, or a cancellation before round zero.
ValidateFails(w) ==
  /\ phase[w] = "validating"
  /\ Goto(w, "leaving")
  /\ \E e \in {"error", "cancelled"} : exit' = [exit EXCEPT ![w] = e]
  /\ UNCHANGED <<records, updates, earned, feedLock, scope, round, snap, items, ledger, todo, current, rounds>>

\* check(): the plugin's snapshot is applied to updates.json.
Check(w) ==
  /\ phase[w] = "checking"
  /\ \E S \in Snapshots : snap' = [snap EXCEPT ![w] = S] /\ updates' = S
  /\ Goto(w, "preparing")
  /\ UNCHANGED <<records, earned, feedLock, scope, round, items, ledger, todo, current, rounds, exit>>

\* Any error of the check, of plugin selection or of the plugin's cleanup
\* stops the workflow; updates.json may have been written already.
CheckFails(w) ==
  /\ phase[w] = "checking"
  /\ updates' \in Snapshots \cup {updates}
  /\ \E reason \in {"error"} \cup Interruptions(w) : Stop(w, reason)
  /\ UNCHANGED <<records, earned, feedLock, scope, round, snap, items, ledger, todo, current>>

\* Mutant: the scope of the run is used in every round.
SelectsAllAlways(w) == scope[w] = "all"

\* The scope counts in round zero, retry rounds use "updated".
SelectsAll(w) == round[w] = 0 /\ scope[w] = "all"

\* The URLs a round downloads: a retry round leaves out what is merely
\* unfinished when its item has nothing worth retrying.
Chosen(w, all) ==
  {u \in Selected(records, snap[w], all) :
     \/ round[w] = 0
     \/ ~OnlyUnfinished(records, snap[w], all, u)
     \/ items[w][u] \in {"none", "removed"}
     \/ ledger[w][u] = TRUE}

IsItem(w, u) == items[w][u] \notin {"none", "removed"}
Present(w) == {snap[w][i].url : i \in DOMAIN snap[w]}

\* A new item gets a fresh ledger, a removed one loses its ledger.
PreparedLedger(w, chosen) ==
  [u \in Urls |->
     IF u \in chosen /\ ~IsItem(w, u) THEN FALSE
     ELSE IF IsItem(w, u) /\ u \notin Present(w) THEN None
     ELSE ledger[w][u]]

\* prepare(): one transaction on workflow.json, then the items.
Prepare(w) ==
  LET chosen == Chosen(w, SelectsAll(w))
      log == Append(rounds[w], [number |-> round[w], status |-> "completed"])
  IN
  /\ phase[w] = "preparing"
  /\ records' = Merged(records, snap[w], SelectsAll(w))
  /\ earned' = earned \cap {[id |-> i, url |-> snap[w][i].url, rev |-> snap[w][i].rev] : i \in DOMAIN snap[w]}
  /\ items' = [items EXCEPT ![w] = [u \in Urls |->
       IF u \in chosen THEN "unprocessed"
       ELSE IF IsItem(w, u) /\ u \notin Present(w) THEN "removed"
       ELSE @[u]]]
  /\ ledger' = [ledger EXCEPT ![w] = PreparedLedger(w, chosen)]
  /\ todo' = [todo EXCEPT ![w] = chosen]
  /\ \/ /\ Goto(w, "downloading")
        /\ rounds' = [rounds EXCEPT ![w] = log]
        /\ UNCHANGED exit
     \/ \* cancelled while the transaction ran
        /\ Goto(w, "leaving")
        /\ rounds' = [rounds EXCEPT ![w] = Stopped(log, round[w])]
        /\ \E reason \in Interruptions(w) : exit' = [exit EXCEPT ![w] = reason]
  /\ UNCHANGED <<updates, feedLock, scope, round, snap, current>>

\* The transaction itself fails: nothing was written.
PrepareFails(w) ==
  /\ phase[w] = "preparing"
  /\ Stop(w, "error")
  /\ UNCHANGED <<records, updates, earned, feedLock, scope, round, snap, items, ledger, todo, current>>

Publish(w, u, status, retry) ==
  /\ items' = [items EXCEPT ![w][u] = status]
  /\ ledger' = [ledger EXCEPT ![w][u] = retry]

\* download() of the next URL succeeds.  The item is published first; the
\* completion is recorded by a transaction of its own.
DownloadSucceeds(w) ==
  /\ phase[w] = "downloading"
  /\ \E u \in todo[w] :
       /\ Publish(w, u, "success", FALSE)
       /\ current' = [current EXCEPT ![w] = u]
       /\ todo' = [todo EXCEPT ![w] = @ \ {u}]
       /\ earned' = earned \cup {[id |-> i, url |-> u, rev |-> snap[w][i].rev] :
                                   i \in {j \in DOMAIN snap[w] : snap[w][j].url = u}}
  /\ Goto(w, "completing")
  /\ UNCHANGED <<records, updates, feedLock, scope, round, snap, rounds, exit>>

\* Image failures, or an authentication, plugin, request, processing or
\* conflict error: the run goes on with the next URL.
DownloadFails(w) ==
  /\ phase[w] = "downloading"
  /\ \E u \in todo[w] :
       /\ \E status \in {"partial", "failed"}, retry \in BOOLEAN : Publish(w, u, status, retry)
       /\ todo' = [todo EXCEPT ![w] = @ \ {u}]
  /\ UNCHANGED <<records, updates, earned, feedLock, phase, scope, round, snap, current, rounds, exit>>

\* Any other error, or an interruption: the ledger is published, the run ends.
DownloadStops(w) ==
  /\ phase[w] = "downloading"
  /\ \E u \in todo[w] :
       /\ todo' = [todo EXCEPT ![w] = @ \ {u}]
       /\ \E retry \in BOOLEAN :
            \/ Publish(w, u, "failed", retry) /\ Stop(w, "error")
            \/ /\ Publish(w, u, "unprocessed", retry)
               /\ \E reason \in Interruptions(w) : Stop(w, reason)
  /\ UNCHANGED <<records, updates, earned, feedLock, scope, round, snap, current>>

\* complete(): every record with this URL, in one transaction.
Complete(w) ==
  /\ phase[w] = "completing"
  /\ records' = [i \in DOMAIN records |->
       IF records[i].url = current[w] THEN [records[i] EXCEPT !.completed = TRUE] ELSE records[i]]
  /\ current' = [current EXCEPT ![w] = None]
  /\ \/ Goto(w, "downloading") /\ UNCHANGED <<exit, rounds>>
     \/ \E reason \in Interruptions(w) : Stop(w, reason)
  /\ UNCHANGED <<updates, earned, feedLock, scope, round, snap, items, ledger, todo>>

\* Interrupted while the end of the download was logged, or the transaction
\* failed: the item stays a success, its completion is not recorded.
CompleteFails(w) ==
  /\ phase[w] = "completing"
  /\ current' = [current EXCEPT ![w] = None]
  /\ \E reason \in {"error"} \cup Interruptions(w) : Stop(w, reason)
  /\ UNCHANGED <<records, updates, earned, feedLock, scope, round, snap, items, ledger, todo>>

Pending(w) ==
  \E u \in Urls : items[w][u] \in {"partial", "failed", "unprocessed"} /\ ledger[w][u] = TRUE

RoundEnds(w) ==
  /\ phase[w] = "downloading"
  /\ todo[w] = {}
  /\ IF Pending(w) /\ round[w] < Retries
       THEN Goto(w, "waiting") /\ UNCHANGED exit
       ELSE Goto(w, "leaving") /\ exit' = [exit EXCEPT ![w] = "ok"]
  /\ UNCHANGED <<records, updates, earned, feedLock, scope, round, snap, items, ledger, todo, current, rounds>>

NextRound(w) ==
  /\ phase[w] = "waiting"
  /\ round' = [round EXCEPT ![w] = @ + 1]
  /\ Goto(w, "checking")
  /\ UNCHANGED <<records, updates, earned, feedLock, scope, snap, items, ledger, todo, current, rounds, exit>>

\* Between rounds: the deadline adds a stopped result for the round that was
\* to come, a cancellation adds nothing.
InterruptWait(w) ==
  /\ phase[w] = "waiting"
  /\ Goto(w, "leaving")
  /\ \/ /\ exit' = [exit EXCEPT ![w] = "timeout"]
        /\ rounds' = [rounds EXCEPT ![w] = Stopped(@, round[w] + 1)]
     \/ /\ exit' = [exit EXCEPT ![w] = "cancelled"]
        /\ UNCHANGED rounds
  /\ UNCHANGED <<records, updates, earned, feedLock, scope, round, snap, items, ledger, todo, current>>

\* The run is over, its result handed out, nothing of it remains in memory.
Forget(w) ==
  /\ Goto(w, "idle")
  /\ scope' = [scope EXCEPT ![w] = "updated"]
  /\ round' = [round EXCEPT ![w] = 0]
  /\ snap' = [snap EXCEPT ![w] = Empty]
  /\ items' = [items EXCEPT ![w] = [u \in Urls |-> "none"]]
  /\ ledger' = [ledger EXCEPT ![w] = [u \in Urls |-> None]]
  /\ todo' = [todo EXCEPT ![w] = {}]
  /\ current' = [current EXCEPT ![w] = None]
  /\ rounds' = [rounds EXCEPT ![w] = <<>>]
  /\ exit' = [exit EXCEPT ![w] = "none"]

\* Mutant: the lock is released on the normal way out only.
LeaveLocked(w) ==
  /\ phase[w] = "leaving"
  /\ feedLock' = IF exit[w] = "ok" THEN None ELSE feedLock
  /\ Forget(w)
  /\ UNCHANGED <<records, updates, earned>>

\* After an error the selected plugin is cleaned up first, then, as on a
\* normal end, the feed lock is released.
Leave(w) ==
  /\ phase[w] = "leaving"
  /\ feedLock' = None
  /\ Forget(w)
  /\ UNCHANGED <<records, updates, earned>>

\* The process dies: the operating system frees the lock, documents stay.
Crash(w) ==
  /\ phase[w] # "idle"
  /\ feedLock' = None
  /\ Forget(w)
  /\ UNCHANGED <<records, updates, earned>>

\* An update check outside any workflow writes updates.json without the feed
\* lock (application/update_executor.py).
CheckUpdates ==
  /\ \E S \in Snapshots : updates' = S
  /\ UNCHANGED <<records, earned, feedLock, run>>

RunStep(w) ==
  \/ Validate(w) \/ ValidateFails(w)
  \/ Check(w) \/ CheckFails(w)
  \/ Prepare(w) \/ PrepareFails(w)
  \/ DownloadSucceeds(w) \/ DownloadFails(w) \/ DownloadStops(w)
  \/ Complete(w) \/ CompleteFails(w)
  \/ RoundEnds(w) \/ NextRound(w) \/ InterruptWait(w)
  \/ Leave(w)

Next ==
  \/ \E w \in Runs : AcquireFeed(w) \/ RunStep(w) \/ Crash(w)
  \/ CheckUpdates

Spec == Init /\ [][Next]_vars

\* A run that was started goes on: requests time out, waits are finite.
Fairness == \A w \in Runs : WF_vars(RunStep(w))
FairSpec == Spec /\ Fairness

----------------------------------------------------------------------------

Record == [url : Urls, rev : Revs, completed : BOOLEAN]
Candidate == [id : Ids, url : Urls, rev : Revs]

\* Every variable has its type.
TypeOK ==
  /\ DOMAIN records \subseteq Ids /\ \A i \in DOMAIN records : records[i] \in Record
  /\ IsSnapshot(updates)
  /\ earned \subseteq Candidate
  /\ feedLock \in Runs \cup {None}
  /\ phase \in [Runs -> Phases]
  /\ scope \in [Runs -> {"all", "updated"}]
  /\ round \in [Runs -> 0..Retries]
  /\ \A w \in Runs : IsSnapshot(snap[w])
  /\ items \in [Runs -> [Urls -> Statuses]]
  /\ ledger \in [Runs -> [Urls -> BOOLEAN \cup {None}]]
  /\ todo \in [Runs -> SUBSET Urls]
  /\ current \in [Runs -> Urls \cup {None}]
  /\ exit \in [Runs -> Exits]

\* A candidate is completed only if its URL was downloaded after the feed
\* lock holder had recorded its present url and revision: a run can never
\* mark completed what another run, or a later check, has changed since.
CompletedWasEarned ==
  \A i \in DOMAIN records : records[i].completed =>
    [id |-> i, url |-> records[i].url, rev |-> records[i].rev] \in earned

\* Candidates that share a URL are completed together.
SharedUrlAgrees ==
  \A i, j \in DOMAIN records :
    records[i].url = records[j].url => records[i].completed = records[j].completed

\* A round that ends normally accounts for every candidate of its check:
\* it is recorded as completed or its item says what failed.  Nothing a crash,
\* an interrupted run or a separate update check left behind is skipped.
NothingSkipped ==
  \A w \in Runs : phase[w] = "downloading" /\ todo[w] = {} =>
    \A i \in DOMAIN snap[w] :
      \/ i \in DOMAIN records /\ records[i].completed
      \/ items[w][snap[w][i].url] \in {"partial", "failed"}

\* Exactly the items that are part of the run have a ledger: pending() and
\* prepare() index the ledgers by URL and would stop the run otherwise.
LedgerPerItem ==
  \A w \in Runs, u \in Urls :
    ledger[w][u] = None <=> items[w][u] \in {"none", "removed"}

\* A completion is never taken back by the round that recorded it nor by a
\* later retry round, unless the feed changed a candidate of that URL: work
\* done is not repeated by a retry.
RetriesKeepCompletions ==
  [][\A w \in Runs : phase[w] = "preparing" /\ round[w] > 0 /\ records' # records =>
       \A i \in DOMAIN records \cap DOMAIN records' :
         records[i].completed /\ ~records'[i].completed =>
           \E j \in DOMAIN records' : records'[j].url = records'[i].url
                                      /\ Changed(records, snap[w], j)]_vars

\* A run that got the feed lock gives it up.
FeedIsReleased == \A w \in Runs : feedLock = w ~> feedLock # w

=============================================================================
