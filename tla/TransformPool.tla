--------------------------- MODULE TransformPool ---------------------------
(***************************************************************************)
(* media/transform_executor.py: the synchronous transforms of plugins run  *)
(* in threads, at most Workers at a time.  A user waits for a slot on the  *)
(* event loop, submits its callback and waits for the thread; a thread     *)
(* cannot be stopped, so a cancelled user waits on (finish_task), keeping  *)
(* its slot.  close() admits nobody any more and waits for the threads.    *)
(***************************************************************************)
EXTENDS Integers, FiniteSets

CONSTANTS Users,     \* the tasks that run a transform
          Workers    \* media.transform_workers

PoolAssumption == Workers \in Nat \ {0}

VARIABLES
  use,      \* use[u]: where user u is in run()
  slots,    \* who holds a slot of the semaphore
  threads,  \* whose callback a thread executes
  shut      \* _closed

vars == <<use, slots, threads, shut>>

Uses == {"out", "waiting", "submitted", "left"}

Init ==
  /\ use = [u \in Users |-> "out"]
  /\ slots = {}
  /\ threads = {}
  /\ shut = FALSE

Go(u, s, t) == use[u] = s /\ use' = [use EXCEPT ![u] = t]

\* run(): refused once the pool is closed.
Enter(u) ==
  /\ Go(u, "out", IF shut THEN "left" ELSE "waiting")
  /\ UNCHANGED <<slots, threads, shut>>

\* A slot is free; the pool may have been closed meanwhile.
Admit(u) ==
  /\ Cardinality(slots) < Workers
  /\ Go(u, "waiting", IF shut THEN "left" ELSE "submitted")
  /\ slots' = IF shut THEN slots ELSE slots \cup {u}
  /\ threads' = IF shut THEN threads ELSE threads \cup {u}
  /\ UNCHANGED shut

ThreadEnds(u) ==
  /\ u \in threads
  /\ threads' = threads \ {u}
  /\ UNCHANGED <<use, slots, shut>>

Leave(u) ==
  /\ u \notin threads
  /\ Go(u, "submitted", "left")
  /\ slots' = slots \ {u}
  /\ UNCHANGED <<threads, shut>>

\* Mutant: a cancelled user does not wait for its thread.
CancelAbandoning(S) ==
  /\ use' = [u \in Users |-> IF u \in S /\ use[u] \in {"waiting", "submitted"} THEN "left" ELSE use[u]]
  /\ slots' = slots \ S
  /\ UNCHANGED <<threads, shut>>

\* The users in S are cancelled: who waits for a slot leaves, who has submitted
\* its callback stays.
Cancel(S) ==
  /\ use' = [u \in Users |-> IF u \in S /\ use[u] = "waiting" THEN "left" ELSE use[u]]
  /\ UNCHANGED <<slots, threads, shut>>

Shut == ~shut /\ shut' = TRUE /\ UNCHANGED <<use, slots, threads>>

\* The pool's shutdown(wait=True) returns.
IsDown == shut /\ threads = {}

\* Every variable has its type; a thread works for the holder of a slot.
TypeOK ==
  /\ use \in [Users -> Uses]
  /\ slots \subseteq Users /\ Cardinality(slots) <= Workers
  /\ threads \subseteq slots
  /\ shut \in BOOLEAN
=============================================================================
