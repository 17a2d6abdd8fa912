-------------------------- MODULE WorkflowHistory --------------------------
(***************************************************************************)
(* The history of workflow runs in a profile (storage/workflow_history.py) *)
(* as the processes that share it see it.  A process fixes the record of   *)
(* its run, with the time it ended, before it waits for the history lock;  *)
(* under the lock it reads the file, merges, applies the retention policy  *)
(* and replaces the file, which is one step here.  Runs may therefore be   *)
(* saved in another order than they ended, or never when a process dies.   *)
(***************************************************************************)
EXTENDS Integers, FiniteSetsExt

CONSTANTS Runs,      \* run IDs, which are compared when runs end together
          RunSizes,  \* bytes a record may take
          MaxSize,   \* max_size_bytes, less the envelope
          MaxAge,    \* max_age_days
          Until,     \* bound: the last moment considered
          None

HistoryAssumption ==
  /\ Runs \subseteq Int
  /\ RunSizes \subseteq Nat \ {0}
  /\ MaxSize \in Nat /\ MaxAge \in Nat \ {0} /\ Until \in Nat
  /\ None \notin Runs \cup [run : Runs, entry : [ended : Nat, size : RunSizes]]

VARIABLES
  clock,    \* the time of the machine
  stage,    \* stage[r]: "running", "ended", "saved" (history_saved) or "unsaved"
  record,   \* record[r]: [ended, size] of a run that has ended, until it is saved
  runs,     \* workflow-history.json: run ID -> its record
  incoming  \* history: the run that was just saved or revised, and its record

vars == <<clock, stage, record, runs, incoming>>

Only(f, S) == [r \in S |-> f[r]]
Set(f, r, v) == [q \in DOMAIN f \cup {r} |-> IF q = r THEN v ELSE f[q]]

Init ==
  /\ clock = 0
  /\ stage = [r \in Runs |-> "running"]
  /\ record = [r \in {} |-> None]
  /\ runs = [r \in {} |-> None]
  /\ incoming = None

Expired(entry) == entry.ended <= clock - MaxAge

\* The order in which runs are kept in the file and dropped from it.
Earlier(f, q, r) ==
  \/ f[q].ended < f[r].ended
  \/ f[q].ended = f[r].ended /\ q < r

Size(f, S) == MapThenSumSet(LAMBDA r : f[r].size, S)

\* The runs of S that ended no earlier than r.
Since(f, S, r) == {q \in S : ~Earlier(f, q, r)}

\* The runs of S that stay when the oldest go until the others fit, the last
\* one never.
Fitting(f, S) == {r \in S : Size(f, Since(f, S, r)) <= MaxSize \/ Since(f, S, r) = {r}}

\* visible(): the runs of f that are listed.
Visible(f) == {r \in DOMAIN f : ~Expired(f[r])}

\* Mutant: an oversized record makes room for itself.
RetainBySizeOnly(f, new) == Fitting(f, Visible(f))

\* _retain: expired runs go, then the oldest, unless the new record exceeds the
\* limit all alone.
Retain(f, new) ==
  IF \E r \in new : f[r].size > MaxSize THEN Visible(f) ELSE Fitting(f, Visible(f))

Tick ==
  /\ clock < Until
  /\ clock' = clock + 1
  /\ incoming' = None
  /\ UNCHANGED <<stage, record, runs>>

\* record_result: the record of run r is made.
End(r) ==
  /\ stage[r] = "running"
  /\ stage' = [stage EXCEPT ![r] = "ended"]
  /\ \E size \in RunSizes : record' = Set(record, r, [ended |-> clock, size |-> size])
  /\ UNCHANGED <<clock, runs, incoming>>

\* A transaction writes entry as the record of r.
Write(r, entry) ==
  LET merged == Set(runs, r, entry) IN
  /\ runs' = Only(merged, Retain(merged, {r}))
  /\ incoming' = [run |-> r, entry |-> entry]

\* save(): the run counts as saved when nothing was raised, retained or not.
Save(r) ==
  /\ stage[r] = "ended"
  /\ stage' = [stage EXCEPT ![r] = "saved"]
  /\ Write(r, record[r])
  /\ record' = Only(record, DOMAIN record \ {r})
  /\ UNCHANGED clock

\* revise(): the run ended now, with other details.
Revise(r) ==
  /\ stage[r] = "saved" /\ r \in DOMAIN runs
  /\ \E size \in RunSizes : Write(r, [ended |-> clock, size |-> size])
  /\ UNCHANGED <<clock, stage, record>>

\* The lock, the read or the write fails, or the run to revise is no longer
\* stored: the run counts as not saved.
RecordingFails(r) ==
  /\ stage[r] \in {"ended", "saved"}
  /\ stage' = [stage EXCEPT ![r] = "unsaved"]
  /\ record' = Only(record, DOMAIN record \ {r})
  /\ UNCHANGED <<clock, runs, incoming>>

\* prune(), by any process.
Prune ==
  /\ runs' = Only(runs, Retain(runs, {}))
  /\ incoming' = None
  /\ UNCHANGED <<clock, stage, record>>

Next ==
  \/ Tick \/ Prune
  \/ \E r \in Runs : End(r) \/ Save(r) \/ Revise(r) \/ RecordingFails(r)

Spec == Init /\ [][Next]_vars

----------------------------------------------------------------------------

\* What the transaction of this step had to retain of: the runs listed before
\* and the record it came with.
Candidates ==
  IF incoming' = None \/ incoming' = incoming THEN runs ELSE Set(runs, incoming'.run, incoming'.entry)

\* A run that is listed, or has just been saved, by whichever process and in
\* whichever order, disappears only when it expires or to make room: then all
\* runs that are kept ended after it, it did not fit with them and the later
\* runs that went too, and what it had to make room for is not one record that
\* exceeds the limit by itself.
RunsMakeRoomInOrder ==
  [][LET gone == Visible(Candidates) \ DOMAIN runs' IN
     \A r \in gone :
       /\ DOMAIN runs' # {}
       /\ \A q \in DOMAIN runs' : Earlier(Candidates, r, q)
       /\ Size(Candidates, Since(Candidates, gone \cup DOMAIN runs', r)) > MaxSize
       /\ incoming' # None => incoming'.entry.size <= MaxSize]_vars
=============================================================================
