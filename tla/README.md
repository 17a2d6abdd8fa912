# Formal models of image_downloader

TLA+ modules about the part of `src/src/image_downloader` (about 24,500 lines of Python) that is
concurrent, durable or shared between processes, the TLC configurations that check them on small
instances, and TLAPS proofs that hold for every value of the constants.

Run everything from this directory:

    tlc -workers 2 -config MCRequests.cfg MCRequests     # PROJECT.json names the module of each cfg
    tlapm OutputSave_proofs.tla                          # any *_proofs.tla

`PROJECT.json` lists the components, the runs, a mutant of the code for every property, the lines
each definition stands for, the hazards of the code with the properties that cover them, the findings
and the theorems.

## The system

A command-line tool and library that fetches the images of a gallery through site plugins,
transforms them and saves them under names its configuration forms; a workflow checks a feed for
new or changed entries, downloads them and remembers what is complete. One process runs one
asyncio event loop; several processes may share the data and output directories.

| Component (files) | State it keeps | Operations | Interacts with | What is hard | Module |
|---|---|---|---|---|---|
| Bounded jobs (`application/concurrency.py`, `storage/transactions.py`) | factories not yet started, tasks in flight, failures | launch, collect, drain, abort | every chapter and image runs under it | failures that come together, cancellation while draining | BoundedJobs |
| Inter-process lock (`storage/interprocess_lock.py`) | lock file, the operating system's lock, deadline | open or publish the file, poll, initialize, release | output, workflow, history, vault, cookies, plugin catalog | two platforms, races for the file's creation, death with the lock | InterProcessLock, Mutex |
| Output and image save (`output/*`, `application/image_executor.py`) | directory listing in memory, reservations, ledger | lock, refresh, allocate, write, commit or abort, report | lock, jobs, plugins' formats | names chosen from stale listings, errors after the file is there | OutputSave, AllocationRules |
| Files (`storage/filesystem.py`, `storage/reading.py`) | temporary files, names, inodes | replace, create new, append, read in three ways | everything durable | death or failure between write, link and unlink; inodes that return | FileWrites |
| Additional files (`application/additional_files.py`) | files that wait for their chapter, outcomes | declare, receive, tell, keep, save | plugin hooks, output | every step may fail or be cancelled | AdditionalFiles |
| Workflow (`application/workflow*.py`, `storage/workflow.py`) | `workflow.json`, `updates.json`, progress | check, prepare, round, complete, retry | feed lock, downloads, notifications | interruption or death between two documents, shared URLs, retries | WorkflowRun |
| Retries of one URL (`application/workflow_retry.py`) | outcomes by position and identity | begin, inspect, process, end an attempt | downloads | the page changes between attempts | ImageLedger |
| Update state (`storage/state.py`) | `updates.json` of all sources | fetch, apply a snapshot | several processes | order of application, records of version 1 | UpdateState |
| History and records (`application/workflow_finalizer.py`, `storage/workflow_history.py`) | entries, progress log, exit code | save, amend, log, revise, retain | close of the service | a cancellation at each step; runs saved out of order | WorkflowFinish, WorkflowHistory |
| Requests and authentication (`transport/operation.py`, `plugins/plugin_invoker.py`) | session generation, refresh lock, request slots | apply, send, refresh, recover | plugin hooks (callbacks that send requests themselves), server | concurrent refreshes, slots held across callbacks | OperationRequests |
| Request gateway (`transport/gateway.py`) | three kinds of slots, send interval | acquire, pace, send, redirect, retry | every request | cancellation in each wait, redirects across origins | RequestGateway |
| Credential vault (`credentials/*`) | `vault.json`, rotation journal, encrypted files, keys in the OS key store | init, edit, rotate, resume, restore | two stores without a common transaction | death between any two durable steps | Vault |
| Cookies (`storage/cookies.py`) | encrypted jar, a session's baseline and touched names | load, change, expire, persist the difference, import | vault, services that run together | merging of two sessions | CookieJar |
| Service (`application/service.py`, `shutdown.py`) | operation lock, close task | operations, close once | owns every resource | cancellation of close, precedence of failures | DownloadService |
| Operations (`application/site_operation.py`, `media/processor_chain.py`) | plugin instances and their owners | select, claim, construct, close, clean up | hooks | every await may fail or be cancelled | SiteOperation |
| Transforms (`media/transform_executor.py`) | worker threads, slots | run, close | plugins' synchronous code | a cancelled caller whose thread works on | TransformPool |
| Images (`media/artifact_pipeline.py`, `image_processor.py`) | artifact at hand | transform, check, encode, process | plugins | what may be left out when nothing changed | ArtifactPipeline |
| Plugin store (`plugins/management.py`, `plugin_catalog.py`) | plugin directories, trust catalog | install, trust, revoke, uninstall | catalog lock | rollback of a failed or interrupted installation | PluginInstall |
| Plugin loading (`plugins/plugin_verification.py`, `source_loader.py`, `runtime.py`) | accepted records, classes, modules | discover, verify, import, close | files that change meanwhile | what was verified is not what is imported | PluginLoading |
| Chapter reports and logs (`observability/chapter_reporter.py`, `log_sinks.py`, `application/log_verification.py`) | held-back images, log files | record, finish, append, verify | images in any order, several sessions | gaps, torn writes, overlapping sessions | ChapterReport, ChapterLog |
| Notifications (`observability/notifications.py`) | collected and deferred failures | collect, send, report | workflow retries | telling too early, twice or what another URL left | Notifications |
| Configuration (`configuration/*`) | layers, origins | read, sanitize, merge, explain, rewrite | the user's editor | explaining what is effective | Configuration |
| Developer tools (`devtools/*`) | generated project, worker process | extend, call, session, reload | author's edits, a child process | rollback beside edits, replies, timeouts, interrupts | ProjectExtension, DevSession |
| Command line, privacy, public values | none that is shared | parse, render, redact | - | sequential | - |

What makes each correct is the list of its properties below. The hazards of `PROJECT.json` name
the line of each thing that can go wrong and the properties that would catch it.

## Modules

`X.tla` models a component. A module `MC...` brings several together for TLC, and `X_proofs.tla`
proves. Everything between two awaits of the event loop, one critical section, one system call or one
durable replacement is an action; `PROJECT.json` maps every definition that models code to its lines.
Definitions marked *Mutant* are the plausible bugs of the mutation runs and occur in no specification.

**Concurrency of one process**

* **BoundedJobs** - `bounded()`. `stage[j]` is where a job is, `owner` what the caller does. One
  action per place where the owner can resume: `CollectAndStart` is the loop body (collect all that
  is done, then launch as many), `DrainEnds` the `gather` after a failure, `AbortEnds` the one after
  a cancellation. Jobs end with a value or one of three classes of failure, as
  `_parallel_failure_priority` tells them apart.
* **TransformPool** - transforms in threads, with a slot kept until the thread ends.
* **WorkflowFinish** - how a run is recorded: `Save`, `Amend`, `Log`, `ReviseHistory`,
  `LogCorrection`, each with the cancellation or failure that may arrive in it, and `Correct` after a
  close that failed.
* **DownloadService** composes these three (`Batch`, `Pool`, `Records`, by INSTANCE) under the
  operation lock: tasks run a workflow and close the service; the close is one shielded task that
  closes the resources in their order. Images of the batch that are running may be in the pool.
* **SiteOperation** - the operations that use plugins: who holds an instance (`selection`, `site`,
  `chain`) from `Select` to `ReleaseFeed`. Every await ends in one of `Results`.
* **ArtifactPipeline** - one image from its transform to its save. Bytes are objects, so that "nothing
  changed" can be what the code tests (identity) rather than equality.
* **AdditionalFiles** - the files a hook names, from declaration to the callback about their outcome.
  `record()` appends an outcome and awaits a diagnostic before anything follows, so the outcome
  (`Receive`, `Keep`, `SaveFile`, `FlushFile`, `ReadBack`) and the callback (`TellReceived`,
  `TellSaved`) are actions of their own, and `Stop` may come between them.
* **Notifications** - failures over the attempts and URLs of one command after another.
* **ChapterReport** (extends BoundedJobs) - the lines of images that end in any order.

**Requests**

* **OperationRequests** - image requests of one operation: `Apply`, `ObserveGeneration`, `Send`,
  `Answered`, then success, failure, refresh (`BeginRefresh` .. `RefreshEnds`, or `UseRefreshed` when
  another request was first) or recovery. `HookAsks`: a hook, at each of its awaits, may make requests,
  several at once, authenticated or not; each goes the whole way of `_execute` but for the recovery,
  needs a slot of the same limit and, when it is refused, the same refresh lock, and its own hooks may
  ask again. `callers` says whose hooks wait for its answer. The plugin and the server are external.
* **RequestGateway** - one transport: slots of the service, of an origin and of a site, the send
  interval, redirects and what they may carry, attempts.

**Files and stores shared by processes**

* **Mutex** - what a lock promises. **InterProcessLock** - how the file lock keeps it: one action per
  system call (`OpenPosix`, `StatWindows`, `StageTemporary`, `RenameTemporary`, `OpenWindows`, ...),
  polling with a deadline that `Tick` approaches, cancellation and death between any two of them.
  `AbstractLock == INSTANCE Mutex WITH ...` is its refinement mapping.
* **FileWrites** - replacing, creating, appending to and reading one file, with inodes that are used
  again, deaths and failures at each system call.
* **AllocationRules** - the names a policy (unique, skip, overwrite, error) may choose, as operators on
  a listing; collisions are by key (`FileSystem.collision_key`). **OutputSave** extends it: image jobs
  of several processes save into one directory (`Acquire`, `RefreshDirectory`, `Allocate`, `Write`,
  `CommitAllocation`, `RememberAndRelease`, `ReportSaved`), with a failure at every step that may fail,
  cancellation, death and restart. It takes the lock as the mutex that InterProcessLock implements.
* **WorkflowRun** - runs of one feed by several processes: `AcquireFeed`, `Validate`, `Check`
  (updates.json), `Prepare` (workflow.json), downloads and `Complete`, `RoundEnds`, `NextRound`, with
  failures, interruptions and death. `Merged` is `select_candidates`: which recorded completions a new
  snapshot keeps. Documents change in short transactions that a cancellation waits for
  (`finish_transaction`), so each is one action.
* **ImageLedger** - what the attempts of one URL remember of its images while the page changes.
* **UpdateState** - snapshots of several sources, fetched without and recorded with the state lock
  (`Persist`). Their changes leave the check later (`Return`), after the awaits that follow; a
  cancellation that `finish_transaction` raises after the completed write, a failure or a death keeps
  them from being told (`AnswerIsLost`). `owed` (history) says which check is to tell what.
* **WorkflowHistory** - entries saved, revised and retained under limits of age and size.
* **Vault** - one action per durable step: replacing vault.json, rotation.enc or an encrypted file, or
  creating or deleting a key in the key store. `Ready` is `_ready()`, the check before any use.
  `BreakOff` ends a command after any step, for a death as for an error. A sealed file is the identity
  of the key it needs and the entries in it; `stored` is what edits and restores have put into it.
* **CookieJar** - a session's copy of the cookies and what its close makes of the stored ones.
* **PluginInstall** - one plugin's directory and catalog entry; one action per rename or replacement of
  catalog.json. `Fails` is an Exception, which leads to the rollback (`UndoTarget`, `UndoBackup`),
  `BreaksOff` an exit without one (an interrupt, or an error in the rollback), `Dies` a death. `staged`
  and `moved` are what a command's temporary directory holds; `owned` and `litter` are history.
* **PluginLoading** - what is verified and what is imported while the disk and the catalog change.
* **ChapterLog** - sessions that append to one log, and the parser that verifies it.
* **Configuration** - layers, their sanitizing and merging, the origin of each setting, and the rewrite
  of the user's files.
* **ProjectExtension**, **DevSession** - the developer tools: `extend --apply` beside its author and
  another extension; a command and its worker with the channel between them. Of what the author wrote a
  file has the numbers of its edits (history) and, in the two YAML documents, whether it is a setting, a
  secret reference or what a dump drops (`Dumped`: comments and, in plugin-dev.yaml, the names of the
  secrets that the selected features have). A rollback puts a file back in place, so it is empty in
  between (`Undo`, `PutBack`), and an extension that dies there leaves it so.

**Composition.** What is composed because it interacts is DownloadService; it also shows which
interface each part has (an image in the pool is a running job of the batch; a run is recorded before
its result is exposed and corrected after the close). Across processes the composition is by
promise: OutputSave, WorkflowRun, Vault and PluginInstall take a lock in one step because
InterProcessLock is proved to implement Mutex; WorkflowRun's downloads stand for OutputSave under
BoundedJobs; OperationRequests' send stands for a request of RequestGateway.

The modules **MCDownloadService**, **MCRequests**, **MCLocksAndSaves**, **MCSavesAndFiles**,
**MCWorkflowsAndTools** and **MCStoresAndLogs** are sums, not products: components that share no state
stand side by side, and `mover`, chosen at the start, says which of them moves in a behaviour. Their
states add up, and each invariant is about the one that moves. `MCVault`, `MCPluginInstall`,
`MCConfiguration` and `MCChapterReport` instantiate one module for a violation.

## Runs

| Run (cfg) | Shows |
|---|---|
| download_service (MCDownloadService) | nothing is closed under an operation and no thread outlives its image (`ResourcesOutliveUse`); one failure of several is raised whatever their timing (`PrimaryIsRaised`); history and log agree with the result (`RecordsAgree`); batches are full but bounded and start nothing after a failure (`BatchIsOrderly`); every call of the service ends (`EveryCallEnds`); every plugin instance is cleaned up once (`OneOwner`); code that runs was accepted (`LoadedAsAccepted`); what is saved was checked (`SavedIsChecked`); every additional file is settled once, and the plugin hears of each save in order, but for the last where the operation is stopped before the callback (`FilesAreSettled`); a failure is told once and only when final (`ToldOnce`) |
| requests (MCRequests) | slots are held by hops under way only and within their limits (`SlotsAreInUse`); headers, body and authentication reach their origins only (`CallerDataStaysHome`); refused credentials are not sent again (`NeverSentWithRefused`); sends are spaced (`SendsAreSpaced`); nobody waits for ever, but for images behind a refresh() that waits for its own request (`AllRequestsEnd`) |
| locks_and_saves (MCLocksAndSaves) | the file lock implements the mutex (`ImplementsMutex`); whoever waits for the lock or the directory gets through, gives up or dies (`EveryWaitEnds`) |
| saves_and_files (MCSavesAndFiles) | ledgers say what is on the disk (`OutcomeMatchesDisk`); no file of the operation is replaced (`NeverReplacesOwn`); new names collide with nothing (`NewNamesAreFree`); a name stands for whole content, and reads return what was there at one moment (`FilesAreWhole`) |
| workflows_and_tools (MCWorkflowsAndTools) | completions are earned (`CompletedWasEarned`), shared by candidates of one URL (`SharedUrlAgrees`), kept over retries (`RetriesKeepCompletions`), and nothing is skipped (`NothingSkipped`); what an author wrote is in its file after an extension, or in the backup of one killed in its rollback, except where the code can lose it (`EditsSurvive`, see Developer tools below); an extension of a generated plugin can be run again to its end (`RerunCompletes`); answers and exit codes of the tools are true (`AnswersAreTrue`); feeds are released and commands end (`CommandsEnd`) |
| stores_and_logs (MCStoresAndLogs) | plugin commands are transactions (`AllOrNothing`), versions pin content (`SameVersionSameContent`), no plugin is lost (`InstalledIsKept`); no secret is lost, no key orphaned, no vault found damaged (`SecretsStayReadable`); changes that are returned add up, and those of checks that ended without returning are accounted for (`ChangesAddUp`); no close changes or brings back what its session did not touch (`JarIsMerged`); outcomes follow their images over attempts (`AttemptsAddUp`); runs make room for later ones only (`RunsMakeRoomInOrder`); logs are in order (`RenderedInOrder`) and pass only what is done (`PassedMeansDone`); settings come from where they are said to (`OriginsAreTrue`) |
| vault_restore, operation_requests_data, plugin_interrupt, download_timeout, chapter_report, config_origins | one *violation* each, see below |

States and times (two to four workers): download_service 240,000 in about a minute, requests 540,000,
locks_and_saves 176,000 in two minutes, saves_and_files 1,460,000, workflows_and_tools 275,000 in two
minutes, stores_and_logs 882,000. Every action of every component fires in a passing run.

**Bounds.** Two processes or jobs suffice for each race of a pair; the lock has three clients so that
one can wait while two hand over, and the output three jobs so that two jobs of one process (sharing
a cache) meet one of another. Per component:

* *Service*: four images, two at a time, leave two running and one queued when the first ends; one
  thread makes images wait for a slot; one transform per image. One task calls, another closes; three
  of the resources may fail to close, one at the beginning, in the middle and at the end of the order.
  With both tasks calling, the safety properties hold over 3.0 million states (tried by hand).
* *Operations*: two processors, two candidates, one retry: a chain that is half constructed, a second
  URL after the first and a second round.
* *Loading*: two plugins of which the second starts in order, two versions, one change of the disk or
  the catalog. Both plugins free (182,000 states) and two changes (175,000) hold too.
* *Images*: one processor; three contents, of either format or none. Two processors and empty data hold
  too (168,000). *Files*: two files, two chapters, so that a file waits for a chapter that is not the
  first. *Notifications*: two URLs, one image, two attempts, commands and methods; two images hold
  (2.66 million).
* *Saves*: six names cover a base name, its collision by case, a base name that is a rename of another
  and two suffixes, so the supply of suffixes runs out. *Files*: each cast of operations on one path,
  two pieces, four inodes, one deletion.
* *Lock*: timeout 1, which is before, at and after the deadline.
* *Workflow*: two candidates that may share a URL, in two revisions, are what `select_candidates`
  distinguishes; two retries.
* *Extension*: two extenders one after the other or one killed in between (`Overlap = FALSE`), one edit,
  of a method, of the rest of a file, of a setting, of a comment or of a secret's name; a partly written
  file stands for every part of it that may be there. EditsSurvive holds for overlapping extensions too
  (by the theorem). *Session*: two requests, so that a late answer
  meets the next request.
* *Vault*: two files, two entries, four keys: an initialization and three rotations or restores, hence
  a rotation of a rotated vault. *Cookies*: two services, one name, two values, expiry before and after
  the horizon. *History*: three runs of one to three units, a limit of two. *Updates*: two
  processes, two sources, listings with moved, changed, removed and repeated candidates. *Ledger*:
  three attempts. *Logs*: two sessions, at most one write that is cut in the middle (`torn`).
  *Configuration*: two resolutions of two layers, one edit.
* *Requests*: two images with one slot, where a slot held across a hook would deadlock, and hooks of one
  of them make one request, at any of their awaits (`Asking`, `HookRequests`); the theorems hold for any
  number. A plugin whose hooks ask without end is left out. One refresh attempt, the default. *Gateway*: three requests, limits of two, one and one, one redirect (two
  by hand), two attempts, interval 1.

stores_and_logs uses symmetry over processes, which share no identity with what is recorded and are in
no liveness property; no other run uses symmetry.

**Deadlock** is checked except where everything really is over (all images fetched or failed, all
requests ended); elsewhere the end is a stuttering action of its own (`Rests`, `Done`).

**Fairness.** Liveness assumes weak fairness of the steps of each actor, never of failures,
cancellations, user actions or deaths: the event loop resumes every task that can go on, the operating
system schedules every process, time passes (`Tick`), and jobs, hooks and servers answer (requests
have timeouts), and threads of transforms end. The developer's worker is not fair at all: its plugin may
never return. Weak fairness is enough for waiting on locks and semaphores because each actor takes
them finitely often; no result relies on strong fairness.

**Where code and documents differ** (each a run that expects a violation, and a finding)

1. *Restore cannot always be repeated* (vault_restore). `restore` demands an empty root when there is
   no `vault.json`; a death while the first `vault.json` is staged leaves the temporary file
   `security/.id-*`, and the rerun that `docs/v3/reference/credential-vault.md` promises is refused.
2. *plugin_data of another request* (operation_requests_data). After a recovery, a refusal that another
   image's refresh has already settled sends the image's first request again
   (`current = spec`, `transport/operation.py:138`), while the transform gets the recovery's
   `plugin_data`.
3. *An interrupt destroys a plugin* (plugin_interrupt). The rollback of an installation is
   `except Exception`, which a KeyboardInterrupt passes by, while `finally` deletes the temporary
   directory with the backup (`plugins/management.py:211-216, 267-268`). The documents promise an atomic
   installation and a restored directory.
4. *A cancelled run that does not exit with 130* (download_timeout). A workflow that timed out and is
   cancelled while its history is saved is recorded with 130 and exits with its own code
   (`application/workflow_finalizer.py:58`).
5. *Saved images in no log* (chapter_report). After a fatal failure, images behind one that was never
   started stay held back; `finish()` does not write them (`observability/chapter_reporter.py:101`).
6. *Settings without an origin* (config_origins). A section whose keys are all obsolete takes the
   origins of its settings away (`configuration/provenance.py:28`).

**Observations** made while modelling, that no document contradicts clearly enough for a finding, or
that need more than a model to weigh:

* `storage/cookies.py:147`: a changed cookie that expired before the close is persisted as a deletion.
* `application/composer.py:68-77`: a composition that fails does not close the transform executor, and
  `library-api.md:151` does not list it in the close order.
* The history may drop the incoming run under the size limit while `history_saved` is true.
* A check that is cancelled, fails or dies after its snapshot was written (`storage/state.py:117`,
  `storage/transactions.py:63-64`) returns its changes to nobody, and the next check of the feed does not
  find them again; UPDATED_URL_FOUND is lost with them. WorkflowRun does not depend on them: it takes
  its candidates from the snapshot and the completions.
* An additional file whose operation is cancelled between the recorded outcome and the callback
  (`application/additional_files.py:128`) is saved, and the plugin is never told.
* A request of `AuthFlow.refresh()` with `auth_required`, the default (`models.py:65`), that is refused
  waits at `transport/operation.py:126` for the lock its own caller holds, until the image is cancelled;
  with it wait all images that are refused. `docs/v3/how-to/faq.md:436` asks plugins to use
  `auth_required=False` there, so it is the one case AllRequestsEnd leaves out
  (`RefreshWaitsForItself`): without that exception TLC finds it.
* `site_operation.py:251-269` and the chain's close swallow a cancellation in a cleanup hook after a
  failure; a selected instance whose `validate_config` fails in `resolve`, and matched instances that
  are not selected, get no cleanup.
* An additional file whose lock release fails after the write is reported as failed. A summary of
  categories with different routes goes whole to the union of their methods. A workflow item leaves out an
  operation's error whose code equals that of an image failure.
* The Pillow worker is never replaced after its death.
* `write_bytes_atomic_new`: an unlink that fails after the link reports a failure though the file is
  published, and a death between the two leaves a file with two links, which is refused from then on.
* Developer tools: `--record` omits redirect responses; the exit code is 0 although a worker whose
  cleanup hangs was killed; a second interrupt during the close leaves the worker; an edit of
  `plugin-dev.yaml` between its read and the snapshots, or of a file between its comparison and its
  replacement, is overwritten (`exposed` in ProjectExtension); `create_project` has no rollback.
* `docs/v3/how-to/plugin-devtools.md:256-257` says that an extension keeps settings. It does, by value:
  `plugin.yaml` and `plugin-dev.yaml` are dumped anew (`devtools/generation.py:506-510`), which drops
  comments and keys beside `config`, and the names of the secrets that selected features have are put
  back to their defaults (`:234-236`) without a conflict. And the rollback writes in place (`:434`), so
  that a kill or a full disk in it leaves an empty or partial file, of which only the backup has the
  text; the next extension may fail on it until it is put back.
* The first user configuration is opened with "x" and then written, so a death leaves it partial.

## Proofs

All proofs follow one pattern: an inductive invariant (`Init => Inv`, `Inv /\ [Next]_vars => Inv'`, one
lemma or step per action), from which the invariants follow, and, with a lemma that says which action
can make the step in question, the action properties. Each strengthening was checked by TLC as an
invariant before it was proved. The assumptions are the named ASSUMEs of the modules (and of the sums,
for the modules they instantiate), which TLC evaluates in the runs. They say that bounds are numbers,
that None is no member of a set of values, that sets which are counted are finite, and what tables
that stand for external facts look like (`ProcOf`, `KeyOf`, `FormatOf`, ...): they hold in the code.

* **InterProcessLock_proofs** - type correctness, mutual exclusion, one lock file, giving up only at the
  deadline, and the refinement of Mutex. The invariant needs to know which inode a client can have
  opened at each step: a file once published is never replaced, so all open the same one.
* **OutputSave_proofs** - one saver, reservations under the lock, fresh listings, no file replaced, no
  collision. Not inductive by themselves: what a job has chosen (`TargetFits`) stays right only because
  no other process writes while it holds the lock, and its own process's reservations are
  excluded from the choice. `OutcomesAreTrue` adds `Accounted`: the file is there from the write to the
  moment the job remembers it, and its key is known to the operation from the commit on. Of the file
  operations, whole files: `FileInv` says that an inode being written is its writer's alone (`Private`)
  and complete before it gets its name, which happens once (`NamedOnce`). So whatever gets the name begins with pieces
  that never had it (`Effects`), and what a reader has compared with either still is the file or has
  gone for good (`Moved`), though inode numbers are used again.
* **WorkflowRun_proofs** - earned completions, shared URLs, nothing skipped, retries keep completions.
  The strengthening relates memory and disk: from preparation to the next check workflow.json records
  exactly the run's snapshot (`Recorded`), successes are recorded or about to be (`ItemsSettled`), and
  each candidate is completed, to do, failed or being completed (`Accounted`). Of the developer tools,
  true answers: `SessionInv` says that until the worker fails its n-th request's reply is the n-th after the
  first (`Served`), and that what was sent is what was received followed by what is in the channel
  (`Delivered`), so that the two counts of requests agree; a failure sent twice shifts them, but after
  it the worker sends no success. Of extensions, that edits stay, in the file or in the
  backup that an extension emptied it from: a file that is about to be replaced or
  may be put back had every lasting edit when it was read (`AppliedKeep`), and what is written has those
  its snapshot had (`ChangesKeep`); so that nothing read earlier can be taken for having a later edit,
  edits are numbered and no copy holds one not made yet (`EditsNumbered`). And that reruns complete, with the file that a rollback emptied last put back: each
  file is that of the old or the new project, and the state is new only when all are
  (`BetweenProjects`), because a plan reaches the new project from any such mix (`PlanReaches`) and is
  applied and undone in the order that has the state last (`PartlyApplied`); and a feature displaced by
  its family leaves hooks the new choice has too (`HooksGrow`), so no old block is without a successor.
* **OperationRequests_proofs** - of one operation, the request limit, bounded sends, refused credentials
  are not resent. `Freshness` says that credentials are never newer than the generation observed before
  sending and that the generation has moved on since a refusal whenever a new request is made;
  `SendsCounted` that each send was paid for by an attempt or the recovery. Both are about requests of
  images and of hooks alike. Of the gateway, that no
  slot leaks, that sends are spaced and that the caller's data stays home: `SlotsHeld` ties membership
  in each semaphore to the step of a request and to where it goes, so that the limits are kept by
  whoever enters; `Paced` says that who sleeps has the interval's lock and for how long still, so that the
  age of the last send is known when it wakes; `AtHome` that what a request carries belongs to the
  origin it is at, which is needed before the redirect it is checked at.
* **DownloadService_proofs** - type correctness, nothing is closed in use, the primary failure, records
  that agree, orderly batches. `Exclusive` ties the operation lock to the steps of tasks and of the
  close, `BatchOfOperation` the existence of a batch to them, `PoolOfBatch` the slots of the pool to
  running images: together they carry "no task is in the service" to "no image, no thread". `Recorded`
  and `Reported` say for each step of `finish()` which of result, history and log are already right
  and which are about to be corrected. Full but bounded batches need `BatchInv` with cardinalities of
  the sets the loop starts and collects.
* **MCDownloadService_proofs** - of the components beside the service. *Operations*: every instance has
  one owner, since an instance is held by the selection, the operation or its chain, each at known steps
  (`HeldWhile`), none by two (`Holders`), and has been cleaned up exactly when none holds it. *Images*:
  what is saved was checked (`PipelineInv`: until a processor changes something the chain runs on what
  was encoded, or on an original that passed its check). *Plugins*: code is what was accepted
  (`LoadingInv`: the accepted record and all code that has run are one content, which the mode in force
  allows). *Notifications*: a failure is told once (`NotesInv`: collected failures are of this command
  and URL, and once a method was told of something no attempt follows, `Final`). *Files*: what a plugin
  asks for is settled. A file that was kept waits for the chapters that are left (`FlushedTo`), the one at
  hand is not settled yet, and every other one is (`ReceiptFits`); that saves are told in the order in
  which they were tried needs places instead of filtered lists: the n-th that was told is the n-th that
  was tried (`InOrder`, `NextPlace`).
* **MCStoresAndLogs_proofs** - of the stores. *Plugins*: transactions, the version rule, survival.
  `PluginAt` says where the plugin found under the lock is at each step, `Decided` that the entry is
  still the one the command was checked against, `Kept` that what was installed last is what the holder
  found or was abandoned by a dead process. *Vault*: no secret is lost, no key orphaned, no ready vault
  found damaged. A process may die at every step, so the invariant is one about what is durable
  (`Durable`: `MetaFits` and `RotationFits` say which key vault.json, the journal and each file name in
  each phase of an initialization, restore or rotation, `EntriesFit` that files hold what was
  stored), to which `Knows` adds what the holder of the lock has read. *Cookies*: what no server touched is
  as it was loaded, unless it expired, so it is no difference and the close leaves what is stored
  (`PersistKeeps`). *Updates*: what is told and not owed is what is recorded, and what a running check
  owes its answer has (`AnswerIsDifference`: applying the difference of two listings to the first gives the
  second). *Ledger*: outcomes at a position are of the image there, none done more often than it was saved
  (an injection of the done positions of an image into the next attempt's), and what is finished is done
  at an identified position. *Settings*: in `SettingsInv` the merged data and origins are those of
  the strongest of the layers read so far (`Explained`), whatever the files say meanwhile. *History*:
  the sums of `_retain` are the library's folds; they are unfolded into recursive functions on the
  subsets of a set, and two sums compared on a smallest set on which they differ (`LeastFailing`). What a
  transaction keeps and drops (`RetainedInOrder`) needs that whatever is read is a history with records
  of known sizes (`HistoryInv`). *Log*: `LogInv` says of every file the sessions can have left that the
  parser is doomed on it, or it ends between two sessions, or within one whose remaining lines its
  stream still holds (`Within`), or in the first line of one that was cut there within another
  (`Crossed`). `ReadTo` says what the parser has made of the first n lines of a stream; the fold over
  its lines is unfolded one by one (`NextLine`).
* **ChapterReport_proofs** - the log of a chapter lists its images in the order of the site. A place in
  that order, and among the images the cursor passes at once, is the size of a set. Sets of which one
  is always within the other number what they belong to, without a gap (`Numbered`); so the cursor is
  behind exactly what is recorded without one (`CursorStops`), and what it passes comes in order, each
  image once (`ReadyIsOrdered`). The invariant relates the log to what is still to be written: the one
  child that has lines continues the log in order (`PendingFit`), what the cursor has passed is in the log
  or in these lines unless the owner left (`NothingHeldBack`), and the group of each kind is the whole of
  its failures, which cannot change any more (`FailuresFit`).

The theorems about a component of a sum are about the sum's specification: a lemma shows that each of
its steps is one of the component or leaves it alone, and the constants stay symbols. Nothing in them
depends on the instance of the `.cfg`. The initial states of a sum restrict a component only while it
does not move, with one exception, a bound of the run: in MCDownloadService the plugin `p2` is in
order at first.

**Only model-checked.** Every invariant and every action property of the passing runs, and the
refinement, has a theorem. What is left to TLC:

* Liveness: `EveryCallEnds`, `EveryWaitEnds`, `AllRequestsEnd`, `CommandsEnd`. The prover has no rule for
  fairness over these and none for ENABLED.

## Not modelled, and why

Formatting, parsing, rendering, argument rules, wizards, fixtures and privacy filters are sequential
functions that keep no shared state; name formats appear as constants (`Renamed`, `KeyOf`).
Cryptography is which key opens what. Pixel work, module loading inside Python, delivery of mail and the
servers are external. Path confinement, origin checks of plugin input and size budgets are tests of one
value against a constant. Composition of a service is sequential before anything is shared. In the
components that are modelled these are left out: settings that are mappings themselves (an empty one
counts as set by its layer), a developer's worker that leaves by `os._exit`, a child of a chapter that
leaves by SystemExit before its image is recorded, and an interruption while the last failed item of a
round is logged. Verification
projections and plans read recorded facts only. The vendored parsers (about 11,000 lines), scripts under
`tools/` and the probes under `docs/` are no part of the running program; they are most of what the map,
6,761 of the repository's 35,690 lines, does not cover, next to models, protocols, exceptions and
command-line code.

## Plan

1. A product of ImageLedger and WorkflowRun: the outcome of a URL as the end of its attempts.
2. The hooks of images for additional files, beside BoundedJobs.
