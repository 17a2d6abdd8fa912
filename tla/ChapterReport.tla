--------------------------- MODULE ChapterReport ---------------------------
(***************************************************************************)
(* How the log of a chapter comes to list its images in the order of the   *)
(* site while bounded() saves them in any order: ChapterReporter           *)
(* (observability/chapter_reporter.py) under ChapterExecutor._chapter and  *)
(* the end of ImageExecutor.execute.  Children record their outcome; the   *)
(* reporter holds a saved image back until everything before it has been   *)
(* recorded, and finish() writes the failures, grouped, and "done".        *)
(*                                                                         *)
(* What becomes of a line once it is handed to the sink is ChapterLog's.   *)
(***************************************************************************)
EXTENDS BoundedJobs, Sequences

CONSTANTS Indexes,  \* the image.index a manifest may give to each position
          Kinds     \* FailureKind: where in the pipeline an image fails

ReportAssumption ==
  /\ \A i \in Indexes : i \in [Jobs -> Nat]
  /\ Kinds \cap {"absent", "saved", "download", "save", "done"} = {}

VARIABLES
  index,     \* the index of the image at each position
  items,     \* ChapterReporter._items: "absent", "saved" or a kind
  next,      \* ChapterReporter._next: recorded without a gap
  lines,     \* lines[j]: what child j still writes under the reporter's lock
  log,       \* what has been written
  groups,    \* the kinds whose group finish() has still to write
  finishing  \* where finish() is: "no", "writing", "ended", "cancelled"

reportVars == <<stage, outcome, owner, raised, index, items, next, lines, log, groups, finishing>>

\* The place of a position in _positions, sorted by (index, position).
Rank(j) == Cardinality({k \in Jobs : index[k] < index[j] \/ (index[k] = index[j] /\ k <= j)})

Recorded(i) == {j \in Jobs : i[j] # "absent"}

\* Where the cursor stops: at the first position not recorded.
Cursor(i) == Cardinality({j \in Jobs : \A k \in Jobs : Rank(k) <= Rank(j) => k \in Recorded(i)})

\* The saved images the cursor passes between two of its places, in order.
Ready(i, from, to) ==
  LET passed == {j \in Jobs : Rank(j) \in (from + 1)..to /\ i[j] = "saved"} IN
  [n \in 1..Cardinality(passed) |->
     CHOOSE j \in passed : Cardinality({k \in passed : Rank(k) <= Rank(j)}) = n]

Entry(what, of) == [what |-> what, of |-> of]

\* Two lines for each saved image, each written in an await of its own.
LinesFor(ready) ==
  [n \in 1..(2 * Len(ready)) |->
     Entry(IF n % 2 = 1 THEN "download" ELSE "save", {ready[(n + 1) \div 2]})]

ReportInit ==
  /\ Init
  /\ index \in Indexes
  /\ items = [j \in Jobs |-> "absent"]
  /\ next = 0
  /\ lines = [j \in Jobs |-> <<>>]
  /\ log = <<>>
  /\ groups = {}
  /\ finishing = "no"

\* A saved image is a value.  A failed one is a value too, or it is fatal and
\* raised once it is recorded (_is_fatal_image_error).
EndsAs(j, result) ==
  /\ stage' = [stage EXCEPT ![j] = "finished"]
  /\ \E o \in IF result = "saved" THEN {"value"} ELSE {"value", "url", "other"} :
       outcome' = [outcome EXCEPT ![j] = o]

RecordUnder(j, lockFree) ==
  /\ stage[j] = "running"
  /\ j \notin Recorded(items)
  /\ lockFree
  /\ \E result \in {"saved"} \cup Kinds :
       LET recorded == [items EXCEPT ![j] = result]
           ready == Ready(recorded, next, Cursor(recorded))
       IN /\ items' = recorded
          /\ next' = Cursor(recorded)
          /\ lines' = [lines EXCEPT ![j] = LinesFor(ready)]
          /\ IF ready = <<>> THEN EndsAs(j, result) ELSE UNCHANGED <<stage, outcome>>
  /\ UNCHANGED <<owner, raised, index, log, groups, finishing>>

\* Mutant: record() does not hold the reporter's lock while it writes.
RecordUnlocked(j) == RecordUnder(j, TRUE)

\* The image of a child is settled and record() has the lock: the child that
\* has lines to write holds it.
Record(j) == RecordUnder(j, \A k \in Jobs : lines[k] = <<>>)

WriteLine(j) ==
  /\ stage[j] = "running"
  /\ lines[j] # <<>>
  /\ log' = Append(log, Head(lines[j]))
  /\ lines' = [lines EXCEPT ![j] = Tail(@)]
  /\ IF Len(lines[j]) = 1 THEN EndsAs(j, items[j]) ELSE UNCHANGED <<stage, outcome>>
  /\ UNCHANGED <<owner, raised, index, items, next, groups, finishing>>

\* Cancellation leaves execute() wherever it is: an image not yet recorded
\* never is, and the lines record() had still to write are dropped.
CancelledEnds(j) ==
  /\ stage[j] = "cancelling"
  /\ stage' = [stage EXCEPT ![j] = "finished"]
  /\ outcome' = [outcome EXCEPT ![j] = "fatal"]
  /\ lines' = [lines EXCEPT ![j] = <<>>]
  /\ UNCHANGED <<owner, raised, index, items, next, log, groups, finishing>>

\* bounded() goes on beside the reporter.
OwnerMoves ==
  /\ Collect \/ DrainEnds \/ CancelOwner \/ AbortEnds
  /\ UNCHANGED <<index, items, next, lines, log, groups, finishing>>

FailedAs(kind) == {j \in Jobs : items[j] = kind}

\* The finally clause of _chapter: finish() takes a copy of the outcomes under
\* the lock, which no child can hold any more.
FinishStarts ==
  /\ owner \in Ended
  /\ finishing = "no"
  /\ finishing' = "writing"
  /\ groups' = {k \in Kinds : FailedAs(k) # {}}
  /\ UNCHANGED <<stage, outcome, owner, raised, index, items, next, lines, log>>

LowestIndex(kind) == CHOOSE n \in {index[j] : j \in FailedAs(kind)} :
                       \A j \in FailedAs(kind) : n <= index[j]

\* The groups are written in the order in which the sorted outcomes first
\* name them.
WriteGroup(kind) ==
  /\ finishing = "writing"
  /\ kind \in groups
  /\ \A other \in groups : LowestIndex(kind) <= LowestIndex(other)
  /\ log' = Append(log, Entry(kind, FailedAs(kind)))
  /\ groups' = groups \ {kind}
  /\ UNCHANGED <<stage, outcome, owner, raised, index, items, next, lines, finishing>>

WriteDone ==
  /\ finishing = "writing"
  /\ groups = {}
  /\ log' = Append(log, Entry("done", {}))
  /\ finishing' = "ended"
  /\ UNCHANGED <<stage, outcome, owner, raised, index, items, next, lines, groups>>

\* A second cancellation arrives while finish() writes.
CancelFinish ==
  /\ finishing = "writing"
  /\ finishing' = "cancelled"
  /\ UNCHANGED <<stage, outcome, owner, raised, index, items, next, lines, log, groups>>

ReportDone == finishing \in {"ended", "cancelled"} /\ UNCHANGED reportVars

ReportNext ==
  \/ \E j \in Jobs : Record(j) \/ WriteLine(j) \/ CancelledEnds(j)
  \/ OwnerMoves
  \/ FinishStarts \/ WriteDone \/ CancelFinish
  \/ \E kind \in Kinds : WriteGroup(kind)
  \/ ReportDone

ReportSpec == ReportInit /\ [][ReportNext]_reportVars

----------------------------------------------------------------------------

Rendered == UNION {log[n].of : n \in {m \in DOMAIN log : log[m].what # "download"}}

EachOnce ==
  \A m, n \in DOMAIN log :
    m # n => log[m].what = "download" \/ log[n].what = "download" \/ log[m].of \cap log[n].of = {}

\* Whatever order the images are saved in, wherever children are cancelled:
\* a "save" follows its own "download", the images of the log are in the order
\* of the site with nothing unrecorded before them, failures stand only in the
\* group of their kind, nothing follows "done"; and a chapter that bounded()
\* returned from shows every outcome exactly once.
RenderedInOrder ==
  /\ \A n \in DOMAIN log :
       LET e == log[n] IN
       /\ e.what = "save" =>
            /\ n > 1 /\ log[n - 1] = Entry("download", e.of)
            /\ \A j \in e.of : items[j] = "saved" /\ Rank(j) <= Cursor(items)
       /\ e.what \in Kinds => \A j \in e.of : items[j] = e.what
       /\ e.what = "done" => n = Len(log)
  /\ \A m, n \in DOMAIN log :
       m < n /\ log[m].what = "save" /\ log[n].what = "save" =>
         \A j \in log[m].of, k \in log[n].of : Rank(j) < Rank(k)
  /\ EachOnce
  /\ finishing = "ended" /\ owner = "returned" => Rendered = Jobs

\* ChapterReporter.finish says of itself that it renders every recorded
\* outcome, fail-fast exits included.
EveryOutcomeIsRendered ==
  finishing = "ended" /\ owner \in {"returned", "raised"} => Rendered = Recorded(items)

=============================================================================
