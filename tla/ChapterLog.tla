----------------------------- MODULE ChapterLog -----------------------------
(***************************************************************************)
(* A log.log and the verdict "verify logs" gives on it.  Every session of a *)
(* chapter appends to the same file (ChapterFileSink in                     *)
(* observability/log_sinks.py, the chapter messages of                      *)
(* observability/logging.py): a header, entries, groups of errors, "done".  *)
(* Sessions of several processes may overlap, a write may fail or be cut    *)
(* short by a full disk, what was not written stays in the buffer of the    *)
(* stream, and a process may die at any point.  Afterwards _LogParser       *)
(* (application/log_verification.py) reads the file, line by line.          *)
(*                                                                         *)
(* The file is kept as what the parser has made of its complete lines, and  *)
(* the unfinished last line.                                                *)
(***************************************************************************)
EXTENDS Integers, Sequences, SequencesExt

CONSTANT Sessions  \* the sessions that may append to this file

\* What a line reads as.  "entry" stands for every line with one of the
\* prefixes of chapter_record, "url" and "title" for the fields of a header.
Header == <<"---", "url", "title", "---">>
\* ("blank" and "junk" are lines no session means to write).

VARIABLES
  parsed,  \* _LogParser after the complete lines: header, session, flags
  tail,    \* what the unfinished last line reads as, "" when there is none
  buffer,  \* buffer[s]: the lines in the stream of s that are not on disk
  cut,     \* the session whose first buffered line is partly on disk, if any
  torn,    \* whether a flush() has ended in the middle: bound, one does at most
  phase,   \* phase[s]: "new", "open", "done", "closed", "dead"
  wrote    \* wrote[s]: what session s has put into the file, at least in part

logVars == <<parsed, tail, buffer, cut, torn, phase, wrote>>

----------------------------------------------------------------------------
\* chapter_record, one line at a time.

\* Mutant: a header says nothing of the session before it.
HeaderEndsSilently(p, keys) ==
  IF keys = SubSeq(Header, 2, 3)
  THEN [p EXCEPT !.header = <<>>, !.recognized = TRUE, !.session = TRUE]
  ELSE [p EXCEPT !.header = <<>>, !.flagged = TRUE]

\* finish_header: a valid header opens a session, and one still open is
\* incomplete.  Keys that are not those of one header make it invalid.
HeaderEnds(p, keys) ==
  IF keys = SubSeq(Header, 2, 3)
  THEN [p EXCEPT !.header = <<>>, !.recognized = TRUE,
                 !.flagged = @ \/ p.session, !.session = TRUE]
  ELSE [p EXCEPT !.header = <<>>, !.flagged = TRUE]

Line(p, kind) ==
  CASE p.header # <<>> /\ kind = "---" -> HeaderEnds(p, Tail(p.header))
    [] p.header # <<>> /\ kind # "---" -> [p EXCEPT !.header = Append(@, kind)]
    [] p.header = <<>> /\ kind = "---" -> [p EXCEPT !.header = <<"---">>]
    [] p.header = <<>> /\ kind = "done" ->
         [p EXCEPT !.flagged = @ \/ ~p.session, !.session = FALSE]
    [] p.header = <<>> /\ kind = "group" -> [p EXCEPT !.errors = TRUE]
    [] p.header = <<>> /\ kind = "entry" -> [p EXCEPT !.flagged = @ \/ ~p.session]
    [] p.header = <<>> /\ kind \in {"url", "title", "junk"} -> [p EXCEPT !.flagged = TRUE]
    [] OTHER -> p

Lines(p, kinds) == FoldLeft(Line, p, kinds)

\* finish(), and the precedence of verify_logs.  The last line is read
\* although nothing ends it.
Verdict ==
  LET p == IF tail = "" THEN parsed ELSE Line(parsed, tail)
  IN IF p.flagged \/ p.session \/ p.header # <<>> \/ ~p.recognized THEN "indeterminate"
     ELSE IF p.errors THEN "failed" ELSE "passed"

----------------------------------------------------------------------------
\* The file.

\* A line of which only the first part is there: entries and the fields of a
\* header are known by how they begin, the others only as a whole.
Begins(kind) == {kind, "junk"}

\* What the first line session s has to write reads as behind what is in the
\* file.  The line it was cut in is completed, unless another session has
\* written on: then that has been swallowed by the cut line, and its end stands
\* alone, to be read as an entry or as nothing known, or empty.
FirstReads(s, kind) ==
  IF s \in cut THEN IF tail # "" THEN {kind} ELSE {"entry", "blank", "junk"}
  ELSE IF tail = "" THEN {kind}
  ELSE IF tail \in {"entry", "url", "title"} THEN {tail}
  ELSE {"junk"}

InPart(n, cuts, unwritten) == cuts \/ n \in 1..(Len(unwritten) - 1)

\* flush() of what the stream of s holds: all of it reaches the file, or the
\* disk is full (at once, or after n lines and perhaps a part of the next) and
\* the stream keeps the rest.
Flush(s, unwritten) ==
  \E n \in 0..Len(unwritten), cuts \in BOOLEAN :
    /\ cuts => n < Len(unwritten)
    /\ InPart(n, cuts, unwritten) => ~torn
    /\ buffer' = [buffer EXCEPT ![s] = SubSeq(unwritten, n + 1, Len(unwritten))]
    /\ IF n = 0 /\ ~cuts
       THEN UNCHANGED <<parsed, tail, cut, torn, wrote>>
       ELSE \E first \in FirstReads(s, Head(unwritten)) :
              LET reads == <<first>> \o Tail(unwritten) IN
              /\ parsed' = Lines(parsed, SubSeq(reads, 1, n))
              /\ IF cuts THEN tail' \in Begins(reads[n + 1]) ELSE tail' = ""
              /\ cut' = IF cuts THEN {s} ELSE cut \ {s}
              /\ torn' = (torn \/ InPart(n, cuts, unwritten))
              /\ wrote' = [wrote EXCEPT ![s] =
                             @ \cup Range(SubSeq(unwritten, 1, IF cuts THEN n + 1 ELSE n))]

LogInit ==
  /\ parsed = [header |-> <<>>, session |-> FALSE, recognized |-> FALSE,
               errors |-> FALSE, flagged |-> FALSE]
  /\ tail = ""
  /\ buffer = [s \in Sessions |-> <<>>]
  /\ cut = {}
  /\ phase = [s \in Sessions |-> "new"]
  /\ wrote = [s \in Sessions |-> {}]
  /\ torn = FALSE

\* ChapterFileSink.write: the message joins what an earlier flush() left in
\* the stream.  That a write failed stops nothing (best_effort_diagnostic).
Writes(s, message, from, to) ==
  /\ phase[s] \in from
  /\ phase' = [phase EXCEPT ![s] = to]
  /\ Flush(s, buffer[s] \o message)

ChapterHeader(s) == Writes(s, Header, {"new"}, "open")

\* The messages chapter_download and chapter_save write for the saved images.
ChapterSaves(s) == Writes(s, <<"entry">>, {"open"}, "saved")

\* chapter_error_group: one message, of a heading and what is known of each
\* image.
ChapterErrorGroup(s) == Writes(s, <<"group", "entry">>, {"open", "saved"}, "failed")

ChapterDone(s) == Writes(s, <<"done">>, {"open", "saved", "failed"}, "done")

\* close_chapter, after "done" or a cancelled finish(): closing flushes once
\* more, and what cannot be written then is lost.
CloseChapter(s) ==
  /\ phase[s] \in {"open", "saved", "failed", "done"}
  /\ phase' = [phase EXCEPT ![s] = "closed"]
  /\ \/ buffer[s] = <<>> /\ UNCHANGED <<parsed, tail, buffer, cut, torn, wrote>>
     \/ buffer[s] # <<>> /\ Flush(s, buffer[s])

\* The process dies; bytes it had handed to the file stay there.
Crash(s) ==
  /\ phase[s] \in {"open", "saved", "failed", "done"}
  /\ phase' = [phase EXCEPT ![s] = "dead"]
  /\ buffer' = [buffer EXCEPT ![s] = <<>>]
  /\ UNCHANGED <<parsed, tail, cut, torn, wrote>>

LogDone ==
  /\ \A s \in Sessions : phase[s] \in {"closed", "dead"}
  /\ UNCHANGED logVars

LogNext ==
  \/ \E s \in Sessions :
       \/ ChapterHeader(s) \/ ChapterSaves(s) \/ ChapterErrorGroup(s) \/ ChapterDone(s)
       \/ CloseChapter(s) \/ Crash(s)
  \/ LogDone

LogSpec == LogInit /\ [][LogNext]_logVars

----------------------------------------------------------------------------

\* A log passes only if every session that has left a trace in it ended with
\* "done" and no failure was written: no overlap, no torn line and no lost
\* write can hide an interrupted chapter or an error behind a later session.
PassedMeansDone ==
  Verdict = "passed" =>
    \A s \in Sessions : wrote[s] # {} => "done" \in wrote[s] /\ "group" \notin wrote[s]

=============================================================================
