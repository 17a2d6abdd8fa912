-------------------------- MODULE AdditionalFiles --------------------------
(***************************************************************************)
(* The files a site's plugin asks for beside its images, in one operation   *)
(* (application/additional_files.py, DownloadExecutor._execute_manifest).   *)
(* A hook names files; each is received, told to the plugin, saved in the   *)
(* directory of its chapter and told again.  What is received before the    *)
(* manifest waits in a temporary directory, for chapters that may not come. *)
(* Every step may fail, which fails the file and never the operation, and   *)
(* every await may be cancelled, that of the diagnostic behind an outcome    *)
(* included.                                                               *)
(*                                                                         *)
(* The plugin has both callbacks.  How a call of one ends, that a hook has   *)
(* failed or named what is no file, are only recorded, and are left out.     *)
(* The hooks of images run in the images' own tasks; they share nothing     *)
(* with the others but the list of outcomes, and are left out.  The names   *)
(* of saved files are those of OutputSave.                                  *)
(***************************************************************************)
EXTENDS Naturals, Sequences, FiniteSets

CONSTANTS
  MaxFiles,    \* bound: files the hooks name, taken together
  MaxChapters  \* bound: chapters of a manifest

FilesAssumption == MaxFiles \in Nat /\ MaxChapters \in Nat

VARIABLES
  doing,     \* "declare", "before_manifest", "inspect", "flush", "after_manifest",
             \* "after_download", "ended" or "stopped"
  point,     \* whether the plugin declared the hook
  specs,     \* files the hook has named and process() has not come to
  named,     \* how many files were named: the last of them is at hand
  at,        \* what is next for it: "none", "receive", "tell", "keep", "save", "read"
             \* or "report"
  pending,   \* files in the temporary directory
  chapters,  \* chapters of the manifest
  chapter,   \* the chapter of the hook or the save, 0 before the manifest
  results,   \* the outcomes recorded: [file, chapter, phase, status]
  heard,     \* what the plugin was told: [file, chapter, about, status]
  disk,      \* files written, with their chapters
  temporary  \* the temporary directory: "none", "made" or "removed"

fileVars == <<doing, point, specs, named, at, pending, chapters, chapter, results, heard, disk,
              temporary>>

FilesInit ==
  /\ doing = "declare"
  /\ point = FALSE
  /\ specs = 0 /\ named = 0
  /\ at = "none"
  /\ pending = <<>>
  /\ chapters = 0 /\ chapter = 0
  /\ results = <<>> /\ heard = <<>>
  /\ disk = {}
  /\ temporary = "none"

Outcome(f, phase, status) == [file |-> f, chapter |-> chapter, phase |-> phase, status |-> status]
Record(f, phase, status) == results' = Append(results, Outcome(f, phase, status))
Message(f, about, status) == [file |-> f, chapter |-> chapter, about |-> about, status |-> status]
Tell(f, about, status) == heard' = Append(heard, Message(f, about, status))

\* initialize(): a declaration that is missing or not as it should be names no hook.
Declare ==
  /\ doing = "declare"
  /\ point' \in BOOLEAN
  /\ doing' = "before_manifest"
  /\ UNCHANGED <<specs, named, at, pending, chapters, chapter, results, heard, disk, temporary>>

\* The next hook, file or chapter may come.
Idle == at = "none" /\ specs = 0

Hooks == {"before_manifest", "after_manifest", "after_download"}

\* Where the operation goes on after a hook.  Between the last two the images
\* are downloaded.
AfterHook ==
  \/ doing = "before_manifest" /\ doing' = "inspect" /\ UNCHANGED chapter
  \/ chapter < chapters /\ chapter' = chapter + 1 /\ UNCHANGED doing
  \/ /\ doing # "before_manifest" /\ chapter = chapters
     /\ doing' = IF doing = "after_manifest" THEN "after_download" ELSE "ended"
     /\ chapter' = 1

\* run(): the hook fails, is not declared, or names nothing.
HookNamesNothing ==
  /\ doing \in Hooks /\ Idle
  /\ AfterHook
  /\ UNCHANGED <<point, specs, named, at, pending, chapters, results, heard, disk, temporary>>

HookNames(n) ==
  /\ doing \in Hooks /\ Idle
  /\ point /\ n > 0 /\ named + n <= MaxFiles
  /\ specs' = n
  /\ UNCHANGED <<doing, point, named, at, pending, chapters, chapter, results, heard, disk, temporary>>

\* The file at hand is done with; the hook ends with its last file.
FileEnds ==
  /\ at' = "none"
  /\ IF specs = 0 THEN AfterHook ELSE UNCHANGED <<doing, chapter>>

\* process() up to its first await.
BeginFile ==
  /\ at = "none" /\ specs > 0
  /\ specs' = specs - 1
  /\ named' = named + 1
  /\ at' = "receive"
  /\ UNCHANGED <<doing, point, pending, chapters, chapter, results, heard, disk, temporary>>

\* What is named is not a valid file.
RejectSpec ==
  /\ at = "none" /\ specs > 0
  /\ specs' = specs - 1
  /\ IF specs = 1 THEN AfterHook ELSE UNCHANGED <<doing, chapter>>
  /\ UNCHANGED <<point, named, at, pending, chapters, results, heard, disk, temporary>>

\* The request and its size.
Receive ==
  /\ at = "receive"
  /\ at' = "tell"
  /\ \E s \in {"received", "failed"} : Record(named, "receive", s)
  /\ UNCHANGED <<doing, point, specs, named, pending, chapters, chapter, heard, disk, temporary>>

Received == results[Len(results)].status = "received"

\* The callback, and what is left to be done.
TellReceived ==
  /\ at = "tell"
  /\ Tell(named, "received", results[Len(results)].status)
  /\ IF Received THEN /\ at' = IF doing = "before_manifest" THEN "keep" ELSE "save"
                      /\ UNCHANGED <<doing, chapter>>
     ELSE FileEnds
  /\ UNCHANGED <<point, specs, named, pending, chapters, results, disk, temporary>>

\* Written to the temporary directory, until there is a manifest.
Keep ==
  /\ at = "keep"
  /\ \/ /\ temporary' = "made"
        /\ pending' = Append(pending, named)
        /\ FileEnds
        /\ UNCHANGED results
     \/ /\ Record(named, "save", "failed")
        /\ temporary' \in {temporary, "made"}
        /\ at' = "report"
        /\ UNCHANGED <<doing, pending, chapter>>
  /\ UNCHANGED <<point, specs, named, chapters, heard, disk>>

\* save() up to the await that follows its outcome: the write under the lock of
\* the directory.  A lock that cannot be released fails a file that has been
\* written.
Saves(f) ==
  \E s \in {"saved", "skipped", "failed"} :
    /\ disk' \in CASE s = "saved" -> {disk \cup {<<f, chapter>>}}
                   [] s = "skipped" -> {disk}
                   [] s = "failed" -> {disk, disk \cup {<<f, chapter>>}}
    /\ Record(f, "save", s)
    /\ at' = IF s = "skipped" THEN "read" ELSE "report"

SaveFile ==
  /\ at = "save"
  /\ Saves(named)
  /\ UNCHANGED <<doing, point, specs, named, pending, chapters, chapter, heard, temporary>>

\* The file that is being saved.
AtHand == IF doing = "flush" THEN Head(pending) ELSE named

\* The bytes of a file that was there already are read back.
ReadBack ==
  /\ at = "read"
  /\ at' = "report"
  /\ \E s \in {"completed", "failed"} : Record(AtHand, "read", s)
  /\ UNCHANGED <<doing, point, specs, named, pending, chapters, chapter, heard, disk, temporary>>

\* inspect() has the manifest, in which there may be no chapter.
Inspect(n) ==
  /\ doing = "inspect"
  /\ chapters' = n
  /\ chapter' = IF n = 0 THEN 0 ELSE 1
  /\ doing' = "flush"
  /\ UNCHANGED <<point, specs, named, at, pending, results, heard, disk, temporary>>

FirstChapter == IF chapters = 0 THEN 0 ELSE 1

\* Mutant: what was kept is saved in one chapter.
FlushOnce == pending' = Tail(pending) /\ chapter' = FirstChapter

\* The next chapter of the file, or the next file and its first.
FlushNext ==
  IF chapter < chapters THEN chapter' = chapter + 1 /\ UNCHANGED pending
  ELSE pending' = Tail(pending) /\ chapter' = FirstChapter

\* flush_pending() up to the await that follows an outcome, for one file and one
\* chapter; what was kept may be lost.
FlushFile ==
  /\ doing = "flush" /\ at = "none" /\ pending # <<>>
  /\ LET f == Head(pending) IN
       IF chapters = 0 THEN Record(f, "save", "no_target") /\ FlushNext /\ UNCHANGED <<at, disk>>
       ELSE /\ \/ Saves(f)
               \/ Record(f, "save", "failed") /\ at' = "report" /\ UNCHANGED disk
            /\ UNCHANGED <<pending, chapter>>
  /\ UNCHANGED <<doing, point, specs, named, chapters, heard, temporary>>

LastSave == results[Len(results) - (IF results[Len(results)].phase = "read" THEN 1 ELSE 0)]

\* The callback about the save, and what comes behind the file.
TellSaved ==
  /\ at = "report"
  /\ Tell(AtHand, "saved", LastSave.status)
  /\ IF doing = "flush" THEN FlushNext /\ at' = "none" /\ UNCHANGED doing
     ELSE FileEnds /\ UNCHANGED pending
  /\ UNCHANGED <<point, specs, named, chapters, results, disk, temporary>>

\* Without chapters the hooks that follow are not called.
FlushEnds ==
  /\ doing = "flush" /\ at = "none" /\ pending = <<>>
  /\ doing' = IF chapters = 0 THEN "ended" ELSE "after_manifest"
  /\ UNCHANGED <<point, specs, named, at, pending, chapters, chapter, results, heard, disk, temporary>>

\* A cancellation, a failure of the images or of inspect(), or a manifest that
\* may not be empty.  A file that is being saved has no outcome, though it may be
\* written; of one that has its outcome the plugin never hears.
Stop ==
  /\ doing \notin {"ended", "stopped"}
  /\ doing' = "stopped"
  /\ disk' \in {disk} \cup
       (IF at = "save" \/ (doing = "flush" /\ at = "none" /\ pending # <<>> /\ chapters > 0)
        THEN {disk \cup {<<AtHand, chapter>>}} ELSE {})
  /\ specs' = 0 /\ at' = "none"
  /\ UNCHANGED <<point, named, pending, chapters, chapter, results, heard, temporary>>

\* close(), however the operation has ended.
RemoveTemporary ==
  /\ doing \in {"ended", "stopped"}
  /\ temporary = "made"
  /\ temporary' = "removed"
  /\ UNCHANGED <<doing, point, specs, named, at, pending, chapters, chapter, results, heard, disk>>

FilesNext ==
  \/ Declare \/ HookNamesNothing \/ BeginFile \/ RejectSpec \/ Receive \/ TellReceived \/ Keep
  \/ SaveFile \/ FlushFile \/ ReadBack \/ TellSaved \/ FlushEnds \/ Stop \/ RemoveTemporary
  \/ \E n \in 0..MaxChapters : Inspect(n)
  \/ \E n \in 1..MaxFiles : HookNames(n)

FilesSpec == FilesInit /\ [][FilesNext]_fileVars
-----------------------------------------------------------------------------
\* The outcomes with which a file was settled.
Settlements(f) == {i \in DOMAIN results : results[i].phase = "save" /\ results[i].file = f}

\* File f was settled once for each chapter of a set, and for no other.
SettledIn(f, of) ==
  /\ \A i \in Settlements(f) : results[i].chapter \in of
  /\ \A c \in of : \E i \in Settlements(f) : \A j \in Settlements(f) : results[j].chapter = c <=> j = i

\* The file of a receipt is settled for its chapter or, received before the
\* manifest, for each chapter or for none; one that has failed is not settled.
IsSettled(receipt) ==
  LET f == receipt.file IN
  IF receipt.status = "failed" THEN SettledIn(f, {})
  ELSE IF receipt.chapter > 0 THEN SettledIn(f, {receipt.chapter})
  ELSE \/ SettledIn(f, {0}) /\ \A i \in Settlements(f) : results[i].status \in {"failed", "no_target"}
       \/ chapters > 0 /\ SettledIn(f, 1..chapters)

SettledOnce == \A i \in DOMAIN results : results[i].phase = "receive" => IsSettled(results[i])

\* The saves the plugin has heard of, and those that were tried.
HeardOf == {i \in DOMAIN heard : heard[i].about = "saved"}
Tried == {i \in DOMAIN results : results[i].phase = "save" /\ results[i].status # "no_target"}
Place(i, of) == Cardinality({j \in of : j <= i})

Pair(o) == <<o.file, o.chapter, o.status>>

\* The n-th save the plugin hears of is the n-th that was tried; of the last that
\* was tried it hears later, or never where the operation was stopped before.
ToldInOrder ==
  /\ \/ Cardinality(Tried) = Cardinality(HeardOf)
     \/ /\ Cardinality(Tried) = Cardinality(HeardOf) + 1
        /\ at \in {"read", "report"} \/ doing = "stopped"
  /\ \A i \in HeardOf, j \in Tried : Place(i, HeardOf) = Place(j, Tried) => Pair(heard[i]) = Pair(results[j])

\* However steps fail: an operation that ends has settled every file it
\* received in every chapter it is for, the plugin has heard of each save that
\* was tried, in order and after the file was received, and what is recorded as
\* saved is on the disk.  Only a stop between an outcome and its callback keeps
\* one save, the last, from the plugin (AdditionalFiles.process, flush_pending,
\* save, record, callback).
FilesAreSettled ==
  /\ doing = "ended" => SettledOnce
  /\ ToldInOrder
  /\ \A i \in HeardOf :
       \E j \in 1..(i - 1) : heard[j].about = "received" /\ heard[j].file = heard[i].file
                            /\ heard[j].status = "received"
  /\ \A i \in DOMAIN results : results[i].status = "saved" => <<results[i].file, results[i].chapter>> \in disk
=============================================================================
