---------------------------- MODULE UpdateState ----------------------------
(***************************************************************************)
(* updates.json: what the last check found at each source                  *)
(* (storage/state.py), as several processes use it                         *)
(* (application/update_executor.py).  A check fetches a snapshot of its    *)
(* source without a lock; recording it, a read, a comparison and an atomic *)
(* replacement under the state lock, is one step.  Snapshots may therefore *)
(* be recorded in another order than they were fetched, or never.  The     *)
(* changes are returned later, after the release of the lock, the events   *)
(* and the close of the site: a check may be cancelled, fail or die in     *)
(* between, and then what it has recorded is not told again.               *)
(*                                                                         *)
(* Documents of version 1 knew no sources.  Their records are kept aside   *)
(* and compared with the first snapshot of a source.                       *)
(***************************************************************************)
EXTENDS Integers, Sequences, Functions

CONSTANTS Checkers,  \* processes that check for updates
          Sources,   \* a plugin and a source URL each
          PluginOf,  \* PluginOf[s]: the plugin of source s
          Pages,     \* what a source may list: sequences of candidates
                     \* [url, id, rev], where id may be None
          Legacies,  \* what records of version 1 may be there
          None

IsCandidate(c) == c = [url |-> c.url, id |-> c.id, rev |-> c.rev] /\ c # None

VARIABLES
  legacy,   \* legacy_records: <<plugin, id or URL>> -> candidate
  sources,  \* sources[s]: its records, or None before its first check
  fetched,  \* fetched[p]: the source and page that process p is to record, or None
  answers,  \* process -> the changes it has recorded and is to return
  told,     \* history: told[s]: what the changes returned so far amount to
  owed      \* history: owed[s]: identity -> the process whose answer is to tell the
            \* last change there, or Lost

vars == <<legacy, sources, fetched, answers, told, owed>>

Nothing == [k \in {} |-> None]

\* No process will tell.
Lost == "lost"

Init ==
  /\ legacy \in Legacies
  /\ sources = [s \in Sources |-> None]
  /\ fetched = [p \in Checkers |-> None]
  /\ answers = Nothing
  /\ told = [s \in Sources |-> Nothing]
  /\ owed = [s \in Sources |-> Nothing]

\* _identity
Identity(c) == IF c.id # None THEN <<"id", c.id>> ELSE <<"url", c.url>>

\* The records of a set of candidates.
Records(C) == [k \in {Identity(c) : c \in C} |-> CHOOSE c \in C : Identity(c) = k]

UpdateAssumption ==
  /\ Lost \notin Checkers
  /\ \A page \in Pages : /\ \A i \in DOMAIN page : IsCandidate(page[i])
                         /\ Records({page[i] : i \in DOMAIN page}) # None
  /\ \A old \in Legacies : \A k \in DOMAIN old : IsCandidate(old[k])

Repeats(page) == \E i, j \in DOMAIN page : i # j /\ Identity(page[i]) = Identity(page[j])

\* _legacy_match
LegacyMatch(s, c) ==
  LET key == <<PluginOf[s], IF c.id # None THEN c.id ELSE c.url>> IN
  IF key \in DOMAIN legacy /\ legacy[key].url = c.url /\ legacy[key].id = c.id
    THEN legacy[key] ELSE None

\* Mutant: what has no record is looked for among the legacy records.
OldOfLegacy(s, c) ==
  IF sources[s] # None /\ Identity(c) \in DOMAIN sources[s] THEN sources[s][Identity(c)]
  ELSE LegacyMatch(s, c)

\* The record candidate c of source s is compared with.
OldOf(s, c) ==
  IF sources[s] = None THEN LegacyMatch(s, c)
  ELSE IF Identity(c) \in DOMAIN sources[s] THEN sources[s][Identity(c)] ELSE None

\* The changes apply_snapshot returns.
Added(s, page) == {c \in Range(page) : OldOf(s, c) = None}
Changed(s, page) ==
  {c \in Range(page) \ Added(s, page) : OldOf(s, c).url # c.url \/ OldOf(s, c).rev # c.rev}
Removed(s, page) ==
  IF sources[s] = None THEN {}
  ELSE {sources[s][k] : k \in DOMAIN sources[s] \ DOMAIN Records(Range(page))}

\* fetch_snapshot: the plugin's check_updates returns.
Fetch(p) ==
  /\ fetched[p] = None /\ p \notin DOMAIN answers
  /\ \E s \in Sources, page \in Pages :
       fetched' = [fetched EXCEPT ![p] = [source |-> s, page |-> page]]
  /\ UNCHANGED <<legacy, sources, answers, told, owed>>

\* The changes, by identity.
Answer(s, page) ==
  [source |-> s,
   news |-> Records(Added(s, page) \cup Changed(s, page)),
   gone |-> {Identity(c) : c \in Removed(s, page)}]

\* apply_snapshot up to its write.  Before the first of a source its reader
\* knows the legacy records it was compared with.
Persist(p) ==
  LET s == fetched[p].source
      page == fetched[p].page
      answer == Answer(s, page)
      touched == DOMAIN answer.news \cup answer.gone IN
  /\ fetched[p] # None /\ ~Repeats(page)
  /\ sources' = [sources EXCEPT ![s] = Records(Range(page))]
  /\ fetched' = [fetched EXCEPT ![p] = None]
  /\ answers' = [q \in DOMAIN answers \cup {p} |-> IF q = p THEN answer ELSE answers[q]]
  /\ told' = IF sources[s] # None THEN told
             ELSE [told EXCEPT ![s] = Records({OldOf(s, c) : c \in Range(page)} \ {None})]
  /\ owed' = [owed EXCEPT ![s] = [k \in DOMAIN owed[s] \cup touched |-> IF k \in touched THEN p ELSE owed[s][k]]]
  /\ UNCHANGED legacy

\* The identities of which the answer of p tells the last change.
Tells(p) == LET s == answers[p].source IN {k \in DOMAIN owed[s] : owed[s][k] = p}

\* The check returns its changes.
Return(p) ==
  LET s == answers[p].source
      news == answers[p].news IN
  /\ p \in DOMAIN answers
  /\ told' = [told EXCEPT ![s] =
       [k \in (DOMAIN told[s] \ (answers[p].gone \cap Tells(p))) \cup (DOMAIN news \cap Tells(p)) |->
          IF k \in DOMAIN news \cap Tells(p) THEN news[k] ELSE told[s][k]]]
  /\ owed' = [owed EXCEPT ![s] = [k \in DOMAIN owed[s] \ Tells(p) |-> owed[s][k]]]
  /\ answers' = [q \in DOMAIN answers \ {p} |-> answers[q]]
  /\ UNCHANGED <<legacy, sources, fetched>>

\* The check was cancelled while it recorded the snapshot, which
\* finish_transaction raises when that is done; or the release of the lock, an
\* event or the close of the site fails or is cancelled; or the process dies.
AnswerIsLost(p) ==
  LET s == answers[p].source IN
  /\ p \in DOMAIN answers
  /\ owed' = [owed EXCEPT ![s] = [k \in DOMAIN owed[s] |-> IF k \in Tells(p) THEN Lost ELSE owed[s][k]]]
  /\ answers' = [q \in DOMAIN answers \ {p} |-> answers[q]]
  /\ UNCHANGED <<legacy, sources, fetched, told>>

\* The page lists an identity twice, or the lock, the read or the write fails,
\* or the check is cancelled or dies before: nothing is written.
PersistFails(p) ==
  /\ fetched[p] # None
  /\ fetched' = [fetched EXCEPT ![p] = None]
  /\ UNCHANGED <<legacy, sources, answers, told, owed>>

\* save(): the library's older interface replaces the legacy records.
SaveLegacy ==
  /\ legacy' \in Legacies
  /\ UNCHANGED <<sources, fetched, answers, told, owed>>

Next ==
  \/ SaveLegacy
  \/ \E p \in Checkers : Fetch(p) \/ Persist(p) \/ PersistFails(p) \/ Return(p) \/ AnswerIsLost(p)

Spec == Init /\ [][Next]_vars

----------------------------------------------------------------------------

Recorded(s) == IF sources[s] = None THEN Nothing ELSE sources[s]

\* Two functions agree at k, where both may be undefined.
AgreeAt(f, g, k) == (k \in DOMAIN f <=> k \in DOMAIN g) /\ (k \in DOMAIN f => f[k] = g[k])

\* The changes returned for a source, added up in the order in which they were
\* recorded, amount to what is recorded of it, whatever checks of other sources
\* came between, in whichever order processes record and return what they
\* fetched, and whatever was known from version 1.  Only the last changes of
\* checks that have not returned are missing: of one that still runs its answer
\* tells them, and those of one that was cancelled, failed or died after its
\* write stay untold until the same candidate changes again.
ChangesAddUp ==
  \A s \in Sources :
    /\ \A k \in (DOMAIN told[s] \cup DOMAIN Recorded(s)) \ DOMAIN owed[s] : AgreeAt(told[s], Recorded(s), k)
    /\ \A k \in DOMAIN owed[s] : owed[s][k] # Lost =>
         LET answer == answers[owed[s][k]] IN
         /\ owed[s][k] \in DOMAIN answers /\ answer.source = s
         /\ k \in answer.gone \/ k \in DOMAIN answer.news
         /\ IF k \in answer.gone THEN k \notin DOMAIN Recorded(s) ELSE AgreeAt(answer.news, Recorded(s), k)
=============================================================================
