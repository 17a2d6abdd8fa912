--------------------------- MODULE MCStoresAndLogs ---------------------------
(* The stores of a data root: the plugins, the credential vault, the         *)
(* cookies, the workflow history and the update state of a profile; what a   *)
(* workflow remembers of its images; what a chapter reports, and its log;    *)
(* and the settings, whose files are resolved, edited and cleaned.           *)
(* They share no state, so that a behaviour of several shows nothing that is *)
(* not shown by each alone: one of them moves in a behaviour, the others     *)
(* stay as they were created.                                                *)
EXTENDS PluginInstall, TLC

CONSTANTS f1, f2, e1, e2,                                   \* vault
          Files, VaultEntries, Keys, VaultBackup, VaultCommands,
          Services, Names, Values, Session, Horizon,        \* cookies
          Runs, RunSizes, MaxSize, MaxAge, Until,           \* history
          a1, u1, u2, s1, s2,                               \* updates
          Checkers, Feeds, FeedPlugins, Pages, Legacies,
          Manifests, Plugins, Attempts, MaxFiles,           \* ledger
          Images, Limit, Indexes, FailureKinds,             \* report
          Sessions,                                         \* log
          Loaders, Rewriting, Layers, Documents, Defaults,
          Obsolete, Invalid, MaxEdits                       \* settings

VARIABLES
  mover,  \* the one that moves in this behaviour
  meta, journal, files, keyring, used, stored, littered,
  vaultHolder, vaultStep, vaultCommand, edit, loaded, todo, outcome,
  now, cookies, baseline, current, touched,
  clock, stage, record, runs, incoming,
  legacy, sources, fetched, answers, told, owed,
  attempt, phase, manifest, plugin, outcomes, retained, attempted, additional, saves, finished,
  jobStage, jobOutcome, owner, raised, index, items, next, lines, log, groups, finishing,
  parsed, tail, buffer, cut, torn, logPhase, wrote,
  yaml, edits, position, data, origins, seen, cleanups, state

Vault == INSTANCE Vault WITH
  Entries <- VaultEntries, BackedUp <- VaultBackup, Commands <- VaultCommands,
  holder <- vaultHolder, step <- vaultStep, command <- vaultCommand
Cookies == INSTANCE CookieJar WITH stored <- cookies
History == INSTANCE WorkflowHistory
Updates == INSTANCE UpdateState WITH Sources <- Feeds, PluginOf <- FeedPlugins
Ledger == INSTANCE ImageLedger
Report == INSTANCE ChapterReport WITH
  N <- Images, Kinds <- FailureKinds, stage <- jobStage, outcome <- jobOutcome
Log == INSTANCE ChapterLog WITH phase <- logPhase
Config == INSTANCE Configuration WITH files <- yaml

ASSUME StoresAssumption ==
  /\ Vault!VaultAssumption
  /\ Cookies!CookieAssumption
  /\ History!HistoryAssumption
  /\ Updates!UpdateAssumption
  /\ Ledger!LedgerAssumption
  /\ Report!JobsAssumption
  /\ Report!ReportAssumption

vaultVars == <<meta, journal, files, keyring, used, stored, littered,
               vaultHolder, vaultStep, vaultCommand, edit, loaded, todo, outcome>>
cookieVars == <<now, cookies, baseline, current, touched>>
historyVars == <<clock, stage, record, runs, incoming>>
updateVars == <<legacy, sources, fetched, answers, told, owed>>
ledgerVars == <<attempt, phase, manifest, plugin, outcomes, retained, attempted, additional,
                saves, finished>>
reportVars == <<jobStage, jobOutcome, owner, raised, index, items, next, lines, log, groups,
                finishing>>
logVars == <<parsed, tail, buffer, cut, torn, logPhase, wrote>>
settingVars == <<yaml, edits, position, data, origins, seen, cleanups, state>>
storeVars == <<mover, vars, vaultVars, cookieVars, historyVars, updateVars, ledgerVars,
               reportVars, logVars, settingVars>>

Movers == {"plugins", "vault", "cookies", "history", "updates", "ledger", "report", "log",
           "settings"}

StoresInit ==
  /\ mover \in Movers
  /\ Init /\ Vault!Init /\ Cookies!Init /\ History!Init /\ Updates!Init /\ Ledger!Init
  /\ Report!ReportInit /\ Log!LogInit /\ Config!ConfigInit
  /\ mover # "updates" => legacy = Updates!Nothing
  /\ mover # "report" => index = <<1, 2, 3>>
  /\ mover # "settings" => \A f \in Config!FileNames : yaml[f] = <<>>

\* Nothing but x moves.
Moves(x) ==
  /\ mover = x
  /\ UNCHANGED mover
  /\ x # "plugins" => UNCHANGED vars
  /\ x # "vault" => UNCHANGED vaultVars
  /\ x # "cookies" => UNCHANGED cookieVars
  /\ x # "history" => UNCHANGED historyVars
  /\ x # "updates" => UNCHANGED updateVars
  /\ x # "ledger" => UNCHANGED ledgerVars
  /\ x # "report" => UNCHANGED reportVars
  /\ x # "log" => UNCHANGED logVars
  /\ x # "settings" => UNCHANGED settingVars

\* A URL whose attempts are over.
LedgerEnds == attempt = Attempts /\ phase = "between" /\ UNCHANGED ledgerVars

StoresNext ==
  \/ Moves("plugins") /\ Next
  \/ Moves("vault") /\ Vault!Next
  \/ Moves("cookies") /\ Cookies!Next
  \/ Moves("history") /\ History!Next
  \/ Moves("updates") /\ Updates!Next
  \/ Moves("ledger") /\ (Ledger!Next \/ LedgerEnds)
  \/ Moves("report") /\ Report!ReportNext
  \/ Moves("log") /\ Log!LogNext
  \/ Moves("settings") /\ Config!ConfigNext

StoresSpec == StoresInit /\ [][StoresNext]_storeVars

\* See Vault, CookieJar, WorkflowHistory, UpdateState, ImageLedger, ChapterReport,
\* ChapterLog and Configuration.  What stays as it was created is not looked at
\* in every state again.
SecretsStayReadable ==
  /\ [](mover = "vault" => Vault!NothingLost /\ Vault!KeysAccountedFor)
  /\ Vault!NeverDamaged
JarIsMerged == Cookies!OnlyOwnChanges /\ Cookies!NeverShortened
RunsMakeRoomInOrder == History!RunsMakeRoomInOrder
ChangesAddUp == mover = "updates" => Updates!ChangesAddUp
AttemptsAddUp == [](mover = "ledger" => Ledger!ReportsAreTrue) /\ Ledger!NotDoneTwice
RenderedInOrder == mover = "report" => Report!RenderedInOrder
PassedMeansDone == mover = "log" => Log!PassedMeansDone
OriginsAreTrue == mover = "settings" => Config!OriginsAreTrue

MCSources == {[version |-> 1, content |-> 1], [version |-> 1, content |-> 2], [version |-> 2, content |-> 1]}
MCBackup == [x \in {f1} |-> {e1}]
MCSymmetry == Permutations(Procs)

\* Listings in which a candidate moves, comes and goes, with and without an ID
\* of its own, or is listed twice.
Candidate(u, i, r) == [url |-> u, id |-> i, rev |-> r]
MCPages == {
  <<Candidate(u1, a1, 1)>>,
  <<Candidate(u1, None, 2), Candidate(u2, a1, 1)>>,
  <<Candidate(u1, a1, 1), Candidate(u2, a1, 1)>>}
MCLegacies == {<<>>,
  (<<"P", a1>> :> Candidate(u1, a1, 1)) @@ (<<"P", u1>> :> Candidate(u1, None, 2))
    @@ (<<"Q", a1>> :> Candidate(u2, a1, 1))}
MCFeedPlugins == [s \in {s1, s2} |-> "P"]

\* A chapter whose images change, repeat themselves, and move to other positions,
\* or which is repeated itself.
Image(k, c) == [key |-> k, content |-> c]
Chapter(k, images) == [key |-> k, images |-> images]
MCManifests == {
  <<Chapter(1, <<Image("a", 1), Image("b", 1)>>)>>,
  <<Chapter(1, <<Image("a", 2), Image("b", 1)>>)>>,
  <<Chapter(1, <<Image("a", 1), Image("a", 1)>>)>>,
  <<Chapter(1, <<Image("a", 1)>>), Chapter(1, <<Image("a", 1)>>)>>,
  <<Chapter(2, <<Image("b", 1)>>), Chapter(1, <<Image("a", 1)>>)>>}

\* The site lists its images in order, out of order, or all with one index.
MCIndexes == {<<1, 2, 3>>, <<2, 3, 1>>, <<1, 1, 1>>}

\* A section of two settings, which once had a third, and one of one setting.  A
\* file may be empty, set what another sets, or set what no longer exists.
MCDefaults == [network |-> [attempts |-> 0, timeout |-> 0], output |-> [format |-> 0]]
MCLayers == [l \in {"first", "second"} |-> IF l = "first" THEN <<"app", "profile">> ELSE <<"app">>]
MCDocuments == {
  <<>>,
  [network |-> [attempts |-> 1]],
  [network |-> [attempts |-> 2, retries |-> 2]],
  [network |-> [retries |-> 1]],
  [network |-> [timeout |-> 1], output |-> [format |-> 1]],
  [output |-> [format |-> 9]]}
=============================================================================
