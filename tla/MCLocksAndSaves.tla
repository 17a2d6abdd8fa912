--------------------------- MODULE MCLocksAndSaves ---------------------------
(* What is taken and given back: the inter-process lock, for which three     *)
(* processes contend, and the saves that run under it, of one job in each of *)
(* two processes.  The save takes the lock for the mutex that the lock       *)
(* implements, so in a behaviour only one of the two moves.                  *)
EXTENDS InterProcessLock, TLC

CONSTANTS t1, u1, proc1, proc2,
          Tasks, Procs, ProcOf, Base, Names, Keys, KeyOf, MaxSuffix, Renamed, First,
          Old, MaybeOld

VARIABLES
  mover,  \* the one that moves in this behaviour
  mode, disk, holder, known, reserved, committed, saveStep, target, ledger, fault, interrupted

Saves == INSTANCE OutputSave WITH step <- saveStep

saveVars == <<mode, disk, holder, known, reserved, committed, saveStep, target, ledger,
              fault, interrupted>>
allVars == <<mover, vars, saveVars>>

\* Some setting of those that do not move is enough.
AllInit ==
  /\ mover \in {"lock", "saves"}
  /\ Init /\ Saves!Init
  /\ mover # "lock" => platform = "posix"
  /\ mover # "saves" => mode = "rename" /\ \A n \in Names : disk[n] = None

LockMoves(A) == mover = "lock" /\ A /\ UNCHANGED <<mover, saveVars>>
SavesMove(A) == mover = "saves" /\ A /\ UNCHANGED <<mover, vars>>

AllNext == LockMoves(Next) \/ SavesMove(Saves!Next)

\* The fairness of each, while it moves.
AllFairness ==
  /\ WF_vars(mover = "lock" /\ Tick)
  /\ \A c \in Clients : WF_vars(mover = "lock" /\ ClientStep(c))
  /\ \A t \in Tasks : WF_saveVars(mover = "saves" /\ Saves!Runs(t))

AllSpec == AllInit /\ [][AllNext]_allVars /\ AllFairness

\* Whoever waits for the lock file gets it, gives up or dies, and every job that
\* waits for the directory ends (see InterProcessLock and OutputSave).
EveryWaitEnds == AcquireEnds /\ Saves!JobEnds

MCTasks == {t1, u1}
MCProcs == {proc1, proc2}
MCProcOf == [t \in MCTasks |-> IF t = u1 THEN proc2 ELSE proc1]
MCBase == [t \in MCTasks |-> IF t = t1 THEN "a" ELSE "A"]

\* The names differ in case only and are renamed to one name.
MCNames == {"a", "A", "a_1", "A_1"}
MCKeys == {"a", "a_1"}
MCKeyOf == [n \in MCNames |-> IF n \in {"a", "A"} THEN "a" ELSE "a_1"]
MCRenamed == [n \in MCNames |-> IF n = "a" THEN <<"a_1">> ELSE IF n = "A" THEN <<"A_1">> ELSE <<n>>]
MCOrder == <<"A", "A_1", "a", "a_1">>
MCFirst == [S \in SUBSET MCNames |->
  IF S = {} THEN "a"
  ELSE MCOrder[CHOOSE i \in 1..4 : MCOrder[i] \in S /\ \A j \in 1..(i - 1) : MCOrder[j] \notin S]]
=============================================================================
