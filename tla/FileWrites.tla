----------------------------- MODULE FileWrites -----------------------------
(***************************************************************************)
(* The file operations that everything the program keeps is written and read *)
(* with (storage/filesystem, storage/reading), of several processes on one    *)
(* path: a temporary file is written and renamed over the path, or linked to  *)
(* it when the name must be new; readers compare what they look at with what  *)
(* they have opened and with what is there afterwards; logs are appended to.  *)
(* Any step may fail or be the last of its process, and the user may delete   *)
(* the file.                                                                *)
(*                                                                         *)
(* A process that dies, or in which an interrupt is raised that is no          *)
(* Exception, takes no further step: nothing is undone.  An inode number is     *)
(* used again once nothing refers to it.  The directories above the path stay,  *)
(* and the size or the time of a file changes with its content.               *)
(***************************************************************************)
EXTENDS Naturals, Sequences, SequencesExt, FiniteSets

CONSTANTS
  Writers,     \* processes that write the file
  Appenders,   \* that append to it
  Readers,     \* that read it
  Casts,       \* which operation each of them performs, or None: of a writer "replace"
               \* (write_bytes_atomic), "new" (write_bytes_atomic_new) or "plain" (atomic_write),
               \* of a reader "text" (read_text), "bounded" (read_bytes_bounded) or "stable"
               \* (stable_file), of an appender "append" (open_text_append)
  Numbers,
  Old,         \* who wrote the file that is there at first
  Pieces,      \* the number of pieces in which something is written
  MaxDeletes,  \* bound: how often the user deletes the file
  None

Actors == Writers \cup Appenders \cup Readers

\* Whoever writes is known by its pieces.  read_text is not used on files that
\* are appended to.
FileAssumption ==
  /\ Pieces \in Nat \ {0}
  /\ Numbers # {} /\ None \notin Numbers
  /\ Writers \cap Appenders = {} /\ Writers \cap Readers = {} /\ Appenders \cap Readers = {}
  /\ Old \notin Writers /\ \A a \in Appenders : <<a>> \notin Writers \cup {Old}
  /\ \A c \in Casts :
       /\ DOMAIN c = Actors
       /\ \A r \in Readers : c[r] \in {"text", "bounded", "stable", None}
       /\ (\E r \in Readers : c[r] = "text") => \A a \in Appenders : c[a] = None

VARIABLES
  path,       \* the inode that has the name, or None
  data,       \* data[i]: who wrote its pieces
  kind,       \* kind[a]: its operation
  step,       \* step[a]
  temp,       \* temp[w]: the inode of the writer's temporary file
  seen,       \* seen[r]: what the reader has looked at first
  opened,     \* opened[a]: the inode that a reader or appender has open
  value,      \* value[r]: what was read
  since,      \* history: since[r] is what the file has been since the reader looked
  published,  \* history: the writers whose content has had the name
  atLink,     \* history: the writers that failed after they had linked their file
  deletes

fileVars == <<path, data, kind, step, temp, seen, opened, value, since, published, atLink, deletes>>
-----------------------------------------------------------------------------
Links(i) == Cardinality({w \in Writers : temp[w] = i}) + (IF path = i THEN 1 ELSE 0)

InUse == {path} \cup {temp[w] : w \in Writers} \cup {opened[a] : a \in Appenders \cup Readers}
Free == Numbers \ InUse

\* What nothing refers to any longer is gone.
Cleared == [i \in Numbers |-> IF i \in InUse' THEN data[i] ELSE <<>>]

\* _assert_regular, of what may be absent.
IsRegular(i) == i = None \/ Links(i) = 1

FirstInode == CHOOSE i \in Numbers : TRUE

Whole(x) == [n \in 1..Pieces |-> x]

FileInit ==
  /\ path \in {None, FirstInode}
  /\ data = [i \in Numbers |-> IF i = path THEN Whole(Old) ELSE <<>>]
  /\ kind \in Casts
  /\ step = [a \in Actors |-> IF kind[a] = None THEN "absent" ELSE "start"]
  /\ temp = [w \in Writers |-> None]
  /\ seen = [r \in Readers |-> None]
  /\ opened = [a \in Appenders \cup Readers |-> None]
  /\ value = [r \in Readers |-> None]
  /\ since = [r \in Readers |-> {}]
  /\ published = {} /\ atLink = {}
  /\ deletes = 0

Goto(a, s) == step' = [step EXCEPT ![a] = s]
-----------------------------------------------------------------------------
(* _write_bytes_atomic and atomic_write.                                    *)

Checked(w) == kind[w] # "plain"

\* The path is looked at, and a temporary file is made beside it.
Begin(w) ==
  /\ step[w] = "start"
  /\ IF Checked(w) /\ ~IsRegular(path)
     THEN Goto(w, "failed") /\ UNCHANGED <<data, temp>>
     ELSE \E i \in Free : /\ temp' = [temp EXCEPT ![w] = i]
                         /\ data' = [data EXCEPT ![i] = <<>>]
                         /\ Goto(w, "write")
  /\ UNCHANGED <<path, kind, seen, opened, value, published, atLink, deletes>>

Write(w) ==
  /\ step[w] = "write" /\ Len(data[temp[w]]) < Pieces
  /\ data' = [data EXCEPT ![temp[w]] = Append(@, w)]
  /\ UNCHANGED <<path, kind, step, temp, seen, opened, value, published, atLink, deletes>>

\* Mutant: the file is not waited for.
CheckEarly(w) ==
  /\ step[w] = "write"
  /\ Goto(w, IF Checked(w) /\ ~IsRegular(path) THEN "abort" ELSE "publish")
  /\ UNCHANGED <<path, data, kind, temp, seen, opened, value, published, atLink, deletes>>

\* It is complete and on the disk; the path is looked at again.
Check(w) ==
  /\ step[w] = "write" /\ data[temp[w]] = Whole(w)
  /\ Goto(w, IF Checked(w) /\ ~IsRegular(path) THEN "abort" ELSE "publish")
  /\ UNCHANGED <<path, data, kind, temp, seen, opened, value, published, atLink, deletes>>

\* os.replace
Replace(w) ==
  /\ step[w] = "publish" /\ kind[w] # "new"
  /\ path' = temp[w]
  /\ temp' = [temp EXCEPT ![w] = None]
  /\ published' = published \cup {w}
  /\ Goto(w, "ok")
  /\ UNCHANGED <<kind, seen, opened, value, atLink, deletes>>
  /\ data' = Cleared

\* os.link, which refuses a name that exists
Link(w) ==
  /\ step[w] = "publish" /\ kind[w] = "new"
  /\ IF path = None
     THEN path' = temp[w] /\ published' = published \cup {w} /\ Goto(w, "unlink")
     ELSE Goto(w, "abort") /\ UNCHANGED <<path, published>>
  /\ UNCHANGED <<data, kind, temp, seen, opened, value, atLink, deletes>>

Unlink(w) ==
  /\ step[w] = "unlink"
  /\ temp' = [temp EXCEPT ![w] = None]
  /\ Goto(w, "ok")
  /\ UNCHANGED <<path, data, kind, seen, opened, value, published, atLink, deletes>>

\* The system refuses a step: no space, no permission, or on Windows a reader has
\* the file open.
Breaks(w) ==
  /\ step[w] \in {"start", "write", "publish", "unlink"}
  /\ Goto(w, IF step[w] = "start" THEN "failed" ELSE "abort")
  /\ atLink' = IF step[w] = "unlink" THEN atLink \cup {w} ELSE atLink
  /\ UNCHANGED <<path, data, kind, temp, seen, opened, value, published, deletes>>

\* The temporary file is removed, if that is possible.
Abort(w) ==
  /\ step[w] = "abort"
  /\ temp' \in {temp, [temp EXCEPT ![w] = None]}
  /\ Goto(w, "failed")
  /\ UNCHANGED <<path, kind, seen, opened, value, published, atLink, deletes>>
  /\ data' = Cleared
-----------------------------------------------------------------------------
(* open_text_append and what is written to its stream.                      *)

\* An empty file, whose times are its maker's.
Created(a) == <<<<a>>>>

LookToAppend(a) ==
  /\ step[a] = "start"
  /\ Goto(a, IF IsRegular(path) THEN "open" ELSE "failed")
  /\ UNCHANGED <<path, data, kind, temp, seen, opened, value, published, atLink, deletes>>

OpenToAppend(a) ==
  /\ step[a] = "open"
  /\ \/ /\ path # None
        /\ opened' = [opened EXCEPT ![a] = path]
        /\ UNCHANGED <<path, data>>
     \/ /\ path = None
        /\ \E i \in Free : /\ opened' = [opened EXCEPT ![a] = i]
                          /\ path' = i
                          /\ data' = [data EXCEPT ![i] = Created(a)]
  /\ Goto(a, "opened")
  /\ UNCHANGED <<kind, temp, seen, value, published, atLink, deletes>>

\* What was opened must be what has the name now.
VerifyAppend(a) ==
  /\ step[a] = "opened"
  /\ IF path = opened[a] THEN Goto(a, "append") /\ UNCHANGED opened
     ELSE Goto(a, "failed") /\ opened' = [opened EXCEPT ![a] = None]
  /\ UNCHANGED <<path, kind, temp, seen, value, published, atLink, deletes>>
  /\ data' = Cleared

AppendPiece(a) ==
  /\ step[a] = "append"
  /\ data' = [data EXCEPT ![opened[a]] = Append(@, a)]
  /\ IF Cardinality({n \in DOMAIN data'[opened[a]] : data'[opened[a]][n] = a}) = Pieces
     THEN Goto(a, "ok") /\ opened' = [opened EXCEPT ![a] = None]
     ELSE UNCHANGED <<step, opened>>
  /\ UNCHANGED <<path, kind, temp, seen, value, published, atLink, deletes>>
-----------------------------------------------------------------------------
(* read_text, read_bytes_bounded, stable_file.                              *)

Look(r) ==
  /\ step[r] = "start"
  /\ IF path # None /\ IsRegular(path)
     THEN /\ seen' = [seen EXCEPT ![r] = [inode |-> path, data |-> data[path]]]
          /\ Goto(r, "open")
     ELSE Goto(r, "failed") /\ UNCHANGED seen
  /\ UNCHANGED <<path, data, kind, temp, opened, value, published, atLink, deletes>>

\* What was opened is compared with what was seen: not at all, by its inode, or
\* by everything that is known of it.
IsAsSeen(r) ==
  CASE kind[r] = "text" -> TRUE
    [] kind[r] = "bounded" -> path = seen[r].inode
    [] kind[r] = "stable" -> /\ path = seen[r].inode /\ data[path] = seen[r].data
                             /\ IsRegular(path)

OpenToRead(r) ==
  /\ step[r] = "open"
  /\ IF path # None /\ IsAsSeen(r)
     THEN opened' = [opened EXCEPT ![r] = path] /\ Goto(r, "read")
     ELSE Goto(r, "failed") /\ UNCHANGED opened
  /\ UNCHANGED <<path, data, kind, temp, seen, value, published, atLink, deletes>>

\* read_text closes the file before it looks again.
Read(r) ==
  /\ step[r] = "read"
  /\ value' = [value EXCEPT ![r] = data[opened[r]]]
  /\ opened' = IF kind[r] = "text" THEN [opened EXCEPT ![r] = None] ELSE opened
  /\ Goto(r, "verify")
  /\ UNCHANGED <<path, kind, temp, seen, published, atLink, deletes>>
  /\ data' = Cleared

\* Mutant: the time and the size are not compared.
IsUnchangedInode(r) == path = seen[r].inode

IsUnchanged(r) ==
  /\ path = seen[r].inode
  /\ kind[r] = "stable" => IsRegular(path) /\ data[path] = seen[r].data

\* read_bytes_bounded looks again once its file is closed, stable_file before.
\* Nothing can take the inode in between, whose name is what is looked at.
Verify(r) ==
  /\ step[r] = "verify"
  /\ Goto(r, IF IsUnchanged(r) THEN "ok" ELSE "failed")
  /\ opened' = [opened EXCEPT ![r] = None]
  /\ UNCHANGED <<path, kind, temp, seen, value, published, atLink, deletes>>
  /\ data' = Cleared
-----------------------------------------------------------------------------
Delete ==
  /\ path # None /\ deletes < MaxDeletes
  /\ path' = None
  /\ deletes' = deletes + 1
  /\ UNCHANGED <<kind, step, temp, seen, opened, value, published, atLink>>
  /\ data' = Cleared

WriterStep(w) == Begin(w) \/ Write(w) \/ Check(w) \/ Replace(w) \/ Link(w) \/ Unlink(w) \/ Breaks(w) \/ Abort(w)
AppenderStep(a) == LookToAppend(a) \/ OpenToAppend(a) \/ VerifyAppend(a) \/ AppendPiece(a)
ReaderStep(r) == Look(r) \/ OpenToRead(r) \/ Read(r) \/ Verify(r)

Content(p, d) == IF p = None THEN None ELSE d[p]

\* A reader has looked and has not ended.
Observe ==
  since' = [r \in Readers |->
    IF step'[r] \in {"open", "read", "verify"} THEN since[r] \cup {Content(path', data')} ELSE since[r]]

FileNext ==
  /\ \/ \E w \in Writers : WriterStep(w)
     \/ \E a \in Appenders : AppenderStep(a)
     \/ \E r \in Readers : ReaderStep(r)
     \/ Delete
  /\ Observe

FileSpec == FileInit /\ [][FileNext]_fileVars
-----------------------------------------------------------------------------
\* Pieces that were appended follow a whole content.
IsWhole(c) ==
  \E x \in {Created(a) : a \in Appenders} \cup {Whole(w) : w \in Writers \cup {Old}} :
    IsPrefix(x, c) /\ \A n \in (Len(x) + 1)..Len(c) : c[n] \in Appenders

\* Whoever dies or fails where, the name stands for one write that was completed,
\* and a write that says it failed has not changed what has the name, unless all
\* that failed was to remove its temporary file after it was linked.
WritesAreWhole ==
  /\ path # None => IsWhole(data[path])
  /\ \A w \in Writers : /\ step[w] = "ok" => w \in published
                        /\ step[w] = "failed" /\ w \in published => w \in atLink

\* A read that succeeds returns what the file was at one moment while it lasted,
\* though inode numbers come back; one of stable_file, what it was all the time.
ReadsAreWhole ==
  \A r \in Readers : step[r] = "ok" =>
    /\ value[r] \in since[r]
    /\ kind[r] = "stable" => since[r] = {value[r]}

\* The file is what was written as a whole, for those who write it and for those
\* who read it.
FilesAreWhole == WritesAreWhole /\ ReadsAreWhole
=============================================================================
