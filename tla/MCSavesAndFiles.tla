--------------------------- MODULE MCSavesAndFiles ---------------------------
(* Two jobs of one process and one of another save images whose names collide:  *)
(* "a" and "A" differ in case only, "a_1" is both a base name and a rename of   *)
(* "a".  Or it is about one file that several processes write, append to and    *)
(* read: in a behaviour only one of the two moves.                             *)
EXTENDS OutputSave

CONSTANTS t1, t2, u1, proc1, proc2,
          w1, w2, l1, l2, r1, i1, i2, i3, i4,
          Writers, Appenders, Readers, Casts, Numbers, Pieces, MaxDeletes

VARIABLES
  mover,  \* the one that moves in this behaviour
  path, data, kind, fileStep, temp, seen, opened, value, since, published, atLink, deletes

File == INSTANCE FileWrites WITH step <- fileStep

ASSUME FileHolds == File!FileAssumption

fileVars == <<path, data, kind, fileStep, temp, seen, opened, value, since, published, atLink,
              deletes>>
allVars == <<mover, vars, fileVars>>

\* Some setting of the one that does not move is enough.
AllInit ==
  /\ mover \in {"saves", "file"}
  /\ Init /\ File!FileInit
  /\ mover # "saves" => mode = "rename" /\ \A n \in Names : disk[n] = None
  /\ mover # "file" => path = None /\ \A f \in Writers : kind[f] = "plain"

\* Those that work on the file have come to their end, or their processes to theirs.
Rests ==
  /\ mover = "file" /\ \A f \in File!Actors : fileStep[f] \in {"ok", "failed", "absent"}
  /\ UNCHANGED allVars

AllNext ==
  \/ mover = "saves" /\ Next /\ UNCHANGED <<mover, fileVars>>
  \/ mover = "file" /\ File!FileNext /\ UNCHANGED <<mover, vars>>
  \/ Rests

AllSpec == AllInit /\ [][AllNext]_allVars

\* See FileWrites.
FilesAreWhole == mover = "file" => File!FilesAreWhole

\* The operations that are applied to one kind of file: updates, records and
\* images are replaced; exports are written anywhere; backups and workflow logs
\* get new names; logs are appended to.
Cast(w, x, l, m, r) ==
  [f \in {w1, w2, l1, l2, r1} |->
     CASE f = w1 -> w [] f = w2 -> x [] f = l1 -> l [] f = l2 -> m [] f = r1 -> r]

MCCasts ==
  {Cast("replace", "replace", None, None, r) : r \in {"text", "bounded", "stable"}}
    \cup {Cast("plain", "plain", None, None, None),
          Cast("new", "new", None, None, "bounded"),
          Cast("new", None, "append", None, "stable"),
          Cast(None, None, "append", "append", "stable")}

MCTasks == {t1, t2, u1}
MCProcs == {proc1, proc2}
MCProcOf == [t \in MCTasks |-> IF t = u1 THEN proc2 ELSE proc1]
MCBase == [t \in MCTasks |-> IF t = t1 THEN "a" ELSE IF t = t2 THEN "A" ELSE "a_1"]

MCNames == {"a", "A", "a_1", "A_1", "a_2", "a_1_1"}
MCKeys == {"a", "a_1", "a_2", "a_1_1"}
MCKeyOf == [n \in MCNames |-> IF n = "A" THEN "a" ELSE IF n = "A_1" THEN "a_1" ELSE n]
MCMaxSuffix == 2
\* The names that no reachable choice renames further map to themselves.
MCRenamed == [n \in MCNames |->
  IF n = "a" THEN <<"a_1", "a_2">>
  ELSE IF n = "A" THEN <<"A_1", "a_2">>
  ELSE IF n \in {"a_1", "A_1"} THEN <<"a_1_1", "a_1_1">>
  ELSE <<n, n>>]

\* Upper case sorts first.
MCOrder == <<"A", "A_1", "a", "a_1", "a_1_1", "a_2">>
MCFirst == [S \in SUBSET MCNames |->
  IF S = {} THEN "a"
  ELSE MCOrder[CHOOSE i \in 1..6 : MCOrder[i] \in S /\ \A j \in 1..(i - 1) : MCOrder[j] \notin S]]
=============================================================================
