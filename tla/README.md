# A verification development of LuoWang's server

LuoWang runs model-driven scenario tests of several projects on one server. Requests to test
a project come from Git polling, cron and the console; a persistent queue orders them; one
dispatcher executes one Run at a time; inside a Run isolated Agent Sessions plan, execute,
audit and report; an archiver publishes what the Run found. This directory holds TLA+ modules
of that machinery, the TLC runs that check them and theorems that TLAPS proves. All paths below
are relative to the repository; `server/` stands for `src/server/`.

To repeat a check: `tlc -config MCRestarts.cfg MCDispatcher`; a proof: `tlapm DispatcherProofs.tla`.

## 1. The system

| component | state it keeps | operations | talks to |
|---|---|---|---|
| Test request queue, `server/automation/queue.ts` | table `test_request_queue` | enqueue (coalescing automatic requests), claimNext, markPrepared, markResolved, markStarted, requeue, markWaitingArchive, complete, recordArchiveRetry, fail | called by dispatcher, routes, poller |
| Queue coordinator, `server/automation/project-queue-coordinator.ts` | `last_scheduled_project_id` | claimNext over all projects | queue |
| Project administration, `server/projects/configuration.ts`, `readiness.ts`, `cutover-activation.ts` | project status, configuration and its revision, Secrets, readiness results, cutover marker | create, update, check, pause, resume | guards what the queue accepts; asks Git, GitHub, the provider, storage, Docker |
| Project dispatcher, `server/automation/project-dispatcher.ts` | drain, recovery and retry promises, deferred archives (all in memory) | drain, recover, retryArchives | queue, orchestrator, repository, archiver |
| Background scheduler, `server/projects/background-scheduler.ts` | the active tick, last poll / cron / index times | tick: index, poll, retry archives, drain | poller, dispatcher, indexer |
| Run routes, `server/projects/run-routes.ts` | none | POST runs, POST merge | enqueue, then drain unawaited |
| Merge requests, `server/repository/git-repository.ts`, `service.ts` | internal refs and remote refs of the clone, scenario branch | prepare, publish, recheck, delete ref | GitHub, others who push |
| Run orchestrator and workspace, `server/runs/orchestrator.ts`, `workspace.ts` | Run directories, Runs in memory, the checked-out tree | start, the pipeline of `execute`, wait, recover | Sessions, tools, recovery store |
| Test data, `server/runs/test-data.ts`, `http-test-data-cleanup.ts` | the register of a Run's accounts | register, verify the scope of clean-up, clean up | the application under test |
| Evidence, `server/runs/evidence.ts`, `storage/oss.ts` | files, hashes and references of evidence | capture, upload, read, delete | browser, object storage |
| Source reads, `server/runs/source-reads.ts`, `change-evidence.ts` | receipts, cursors, the plan's references | read a page, list, write the plan | Main and Runner Sessions |
| Scenario rules, `server/runs/execution-plan.ts`, `scenario-progress.ts`, `review-order.ts` | the list of a plan, progress through it, what the Reviewer has read | validate, begin, start, finish, read, write the review, accept the report | Sessions |
| Archiver and Run store, `server/runs/archiver.ts`, `store.ts` | Run records, Issues, progress pointer (the tested baseline) | archive, retry; importCompleted, markScenario, markReport, markIssueAttempt, completeArchive | Git, GitHub, indexer |
| Publication, `server/repository/git-repository.ts`, `service.ts`, `github.ts` | the project's clone: HEAD, index, worktree | validateScenarioPatch, publishScenarioPatch, publishRunReports, pull requests, Issues | called by the archiver |
| Repository indexer, `server/repository/indexer.ts` | rows for scenarios and reports, the commit they are of | sync | timer, route, archiver; each with an indexer of its own |
| Git poller, `server/automation/poller.ts` | last seen HEAD, place and branch keys | poll | queue |
| Execution images and containers, `server/projects/image-*.ts`, `run-image.ts`, `docker-recovery.ts` | status and image per (commit, definition); the image of each Run | ensure, begin, build, ready, fail; command session; reclaim at start | Docker |
| Legacy automation, `server/automation/service.ts` | the v0.6 queue, `activeQueueId`, `dispatching`, `recovering` | dispatch, monitor, scan, recover, retention | orchestrator, archiver |
| Legacy cutover, `server/projects/legacy-*.ts`, `upgrade-cli.ts`, `db/migrate.ts` | database schema and marker, backups, reviewed fingerprint | inspect, backup, cutover, index upgrade | operator |
| Web console, `src/web/` | a tab's history, page instances, drafts, dialogs, requests in flight | follow a link, go back, load, reload, write | HTTP API |
| Read models, Security, configuration import | see section 6 and `PROJECT.json` | | |

What is hard about it:

* **Interleaving.** Everything is asynchronous JavaScript: the drain loop, the archives it
  starts, the scheduler's tick with its own archive retries, the recovery and the API handlers
  interleave at every `await`, and share the queue, one clone per project and a few promises
  that later callers join instead of starting their own. Agents' tool calls overlap too.
* **Crashes.** One request passes through SQLite, Git refs, a remote push, a Run directory,
  Docker and GitHub, none of which share a transaction. After a restart the dispatcher must
  tell from the durable traces how far it got.
* **Order and fairness.** One slot for the deployment, strict order within a project, turns
  between projects, and projects that are paused, waiting for an archive or for their first
  resume after an upgrade.
* **Staleness.** Requests freeze the configuration they were submitted under; configuration,
  branch, readiness, images and the pages of the console may move while something waits.
* **Untrusted answers.** Sessions write anything; a clean-up endpoint may be wrong; files and
  objects change behind the server; answers of pushes, creations and uploads are lost or late.

What makes each component correct: the *queue* keeps one running request, the order of a
project and the facts it recorded; the *coordinator* starves no project; the *administration*
never changes what a pending request depends on and activates what was checked; the
*dispatcher* loses neither the slot, nor a request, nor an archive, starts a Run once, makes
and publishes a merge once; the *orchestrator* calls a Run passed only for the patch that was
executed (as far as the downgrade of its report takes effect), cleans up before it tells, and
leaves its slot unless a Session hangs; the *archiver* publishes each report
and Issue once and never moves progress back; *merges* take nothing away from others; the
*poller* misses no commit; the *images* a Run records are those it ran in; the *index* is that
of one commit; an *upgrade* is whole or absent; the *console* shows a page no
answer about another project, and sends a request to the project on whose page it was asked for.

## 2. The modules

### Queue and dispatcher

`TestRequestQueue` has one action per queue operation, each of which is one SQLite transaction
in the code, and the administration's transactions. Any caller may invoke any operation whose
guard holds. `RoundRobin` extends it with a history variable.

`Dispatcher` extends `TestRequestQueue` and invokes its actions in the order of the one
program that uses them. Each asynchronous function is a program counter, and a step ends where
the code awaits or has made something durable:

| variable | code |
|---|---|
| `rows`, `lastId` | `test_request_queue`, its AUTOINCREMENT counter |
| `projectStatus`, `revision`, `semantics` | `projects.status`, `config_revision`, the value of the fields in `TASK_SEMANTIC_FIELDS` (as a version) |
| `cursor` | `system_metadata.last_scheduled_project_id` |
| `runDir` | the Run's directory under `running/` or `completed/` |
| `internalRef`, `published` | `refs/luowang/merge-requests/<id>`, the merge on the scenario branch |
| `awaiting` | `awaitsCutoverActivation` |
| `drain` | `drainPromise`: where `drainInner`, `processClaimed` and `resolveTarget` are |
| `workers` | unsettled `archive()` calls and `archiver.retry` calls, by caller |
| `recovery`, `deferred` | `recoverInner`, `deferredArchives` |
| `tick` | `activeTick` and the loop of `retryArchivesInner` |

| steps | code |
|---|---|
| `DrainClaim`, `DrainWait`, `DrainExit` | `drainInner` |
| `ServicesFail` ... `RecordFailed`, `DrainCleanup` | `processClaimed`, `resolveTarget`, `prepareMergeRequest`, `publishPreparedMerge`, `runs.start`, `execute` |
| `ArchiveEnds`, `WorkerCleanup`, `RetryEnds` | `archive`, `retryArchivesInner` |
| `Defer` ... `SecondDrain` | `recoverInner` |
| `TickStart`, `Poll`, `TickRetries` ... `TickDrain` | `tick`, `processProject`, `retryArchivesInner` |
| `SubmitRun`, `PauseProject`, `ResumeProject` | `run-routes.ts`, `readiness.ts` |
| `Crash` | the process ends and starts again; the variables of `processVars` are lost |

Abstractions of these modules: a Run identifier is computed from the request, so a
row only says whether it is linked to its Run; commits are interchangeable values; the test
semantic configuration is a version number; what an archive does is its result; the minute
between archive retries is a choice to retry or not; the identity of Git objects beyond the
prepared commit, timestamps, messages and `progressed` are left out. `MC*` modules only add
the symmetry of the commits.

`RunArchive` opens the archive that `Dispatcher` sees as one step with a result. It models the
finished Runs of one project, numbered in the order of `finished_at`:

| variable | code |
|---|---|
| `facts` | a Run's artifacts: result, scenario patch, confirmed bugs, special scenario review |
| `row`, `filed`, `progress` | `run_store_runs`, the succeeded rows of `run_store_issues`, `run_store_progress.run_id` |
| `outcome` | `archive_status` of the Run's request in the queue |
| `branch`, `proposed`, `pulls`, `issues` | GitHub: the scenario branch, the branches `luowang/scenario/<run>`, their pull requests, the Issues with both markers |
| `clone`, `staged` | HEAD and index of the project's clone |
| `at` | where `archiveInternal` of each Run stands, with the `originalHead` it read |

| steps | code |
|---|---|
| `EndRun`, `StartArchive` | `persistCompletedRun`; `archive` / `retry` up to the import |
| `Validate` ... `Confirm` | `validateScenarioPatch`, `publishScenarioPatch`, `publishRunReports`; one step for each Git command that reads or changes something shared |
| `FindPull`, `CreatePull`, `PullRefused` | `publishScenarioChanges` |
| `NextIssue` ... `IssuesDone` | the Issue loop and `processIssue` |
| `CompleteArchive`, `Settle` | `completeArchive`; the caller records the result in the queue |
| `PublicationFails`, `IssueFails`, half of `Push`, `CreatePull`, `CreateIssue` | a call fails, or takes effect and its answer is lost |
| `MergePull`, `ClosePull`, `OthersPush`, `RunChecksOut`, `Crash` | the environment |

A commit is the set of what it contains (reports and patches of Runs, pushes of others); the
scenario branch only moves forward, so a descendant is a superset, and a fast-forward push is
one that keeps what is there. The direct and the pull-request mode come from the Run's mode and
its patch, so a patch is one of three values. That a patch is invalid for its target is a
failing call. `conflict` is treated as `failed`, as the code does. The search for Issues by
markers is taken to see every Issue created before. `CloneUsers` says how many archives may use the clone at once:
the queue's order allows one, the scheduler's retries make it two. `ReviewersWait` says whether
a pull request may be merged or closed before the store has recorded it. What the dispatcher
may do to a pending archive is `Dispatcher`'s subject: here an unfinished archive is started
again until it completes.

`ArchiveContract` is the abstract specification of all this: reports, patches and Issues are
published at most once, the baseline moves only forward and only to a Run whose findings are
all published, an archive is closed only when nothing is left. `RunArchive` implements it under
the mapping `Contract`, in which a patch counts as published when it is on the branch or a pull
request has been created for it.

### Around a Run

Each of these modules stands alone; its header says what it leaves out, and every variable has
a comment that names the state of the code it is.

| module | variables and the code they are | actions and the code they are |
|---|---|---|
| `GitPoller` | `head`, `commits`: the remote; `place`, `onCommit`, `active`: configuration and status; `seenPlace`, `seen`, `lastPoll`, `lastCron`: the `LAST_*` keys; `tick`, `poll`: where `processProject` and `pollInternal` are | `TickStarts` ... `CronCheck`, `Drained`: `tick`, `indexProject`, `processProject`; `MovedPlace` ... `RecordSubmitted`: `pollInternal`; `Push`, `Configure`, `Toggle`, `GitFails`, `PollerCrash`, the clock: the environment |
| `ProjectImages` | `imageRow`, `runImage`: `project_execution_images`, `project_run_images`; `image`, `container`: Docker; `actor`: where an administrator's preparation and the Run's are; `phase`: reclaim at start or serving | `ReadRow`, `Inspect`, `Begin`, the build, `ready` and `fail`: `ensureProjectImage`, `image-state.ts`; copy, bind, open, close: `run-image.ts`, `command-session.ts`; `Recover`: `docker-recovery.ts` |
| `ProjectReadiness` | `config`, `secret`, `deployment`, `depSecret`, `image`: the inputs, as version numbers; `row`: the stored results and the inputs they are `of`; `call`: the requests in flight with what they have read | `BeginCheck` ... `Inspected`, `Resume`: `check`, `resume` with their five awaits; `PutConfiguration`, `PutSecret`, `PutDeployment`, `PutDeploymentSecret`, `ImageChanges`, `Pause`, `BeginCreate`: the routes |
| `MergeRequest` | `history`: commits with their ancestors; `head`: the remote; `tracking`, `ref`: the clone's refs; `row`: what the queue keeps; `op`: the command sequence in progress | one action per Git command of `prepareMergeRequest` and `publishPreparedMerge`, both preparation modes; `RecheckResolved`, `CleanupRef`; `OthersPush`, `OthersDelete`, `OthersCreate`, `CommandFails`, `MergeCrash` |
| `RepositoryIndex` | `commits`, `head`: the scenario branch; `sync`: where each caller's synchronisation is; `rows`, `reports`, `errors`, `indexed`: the tables | `SyncBegins`, `SyncChecks`, `SyncApplies`, `SyncFails`: `sync`, `assertHistory`, `applySnapshot`; `PatchPublished`: `materializeScenarioPatch` |
| `LegacyAutomation` | `status`, `linked`, `rowArchive`: the v0.6 queue; `active`, `dispatch`, `recovery`: the three variables of exclusion; `monitor`: where `monitorRun` of each request is, with the result it was given; `archiving`: the archiver's `active` map; `scan`: of each caller of `scanArchives` (`Scanners`: the scheduler, the route), the archives it waits for and the results it has | `Enters` ... `StartRefused`: `dispatchNext`; `MonitorSees`, `MonitorCompletes`: `monitorRun`; `ArchiveEnds`: the archive, for all who asked; `ScanBegins`, `ScanEnds`, `ScanArchivesLate`, `LateScanEnds`: `scanArchives`; `RecoveryBegins` (with `reconcileMergeRequestRefs`) ... `RecoveryEnds`; `DirectoryRemoved`: retention |
| `Upgrade` | `db`: migrations recorded, marker, version, rows by group; `backups`, `reviewed`; `server`, `cli`, `tx`: the command under way and its transaction | `Inspect`, `BackupBegins` ... `BackupEnds`, `CutoverBegins`, `TransactionBegins`, `Migrates`, `Commits`, `IndexUpgrade*`: `upgrade-cli.ts` and what it calls; `OldStarts`, `OldWrites`, `NewStarts`, `BackupDamaged`, `CommandFails`: the operator's world |
| `WebConsole` | `history`, `signedIn`, `returnTo`: the router; `shown`, `loads`: a page's resource and its requests; `draft`, `dialog`: component state, `dialog` being the project on whose page the confirmation was opened; `writes`: requests sent, with what the confirmation `named` | `Follow`, `GoBack`, `SessionEnds`, `LogIn`, `LogOut`; `LoadReplies`, `Reload`; `EditConfiguration`, `Save`, `OpenDialog`, `Confirm`, `CreateProject`, `WriteSucceeds`, `WriteFails` |

Abstractions. A commit is its sequence of ancestors (`GitPoller`), its set of ancestors
(`MergeRequest`) or its parent and files (`RepositoryIndex`), whichever the properties tell
apart. A written value is a version number. A Cron expression is whether the minute matches. A
Markdown file is absent, unparsable or a scenario. In `WebConsole` a page that another project
reuses keeps every piece of state no effect resets, because that is what React does with a
component instance that has no key; what a page displays is the project its data came from, and
that is what the confirmation of a test request names (`Named`), while the request is sent to the
project of the address. In `Upgrade` a backup may be damaged at any time; one damaged after the
command under way had verified it is `spoiled`, because the code does not look at it again.

### Inside a Run

| module | variables and the code they are | actions and the code they are |
|---|---|---|
| `RunOrchestrator` | `starting`, `active`, `status`, `context`: the fields of the orchestrator and the Run's context; `stage`: where `execute` is; `tree`, `place`, `files`: the work tree and the Run directory; `interrupted`, `stored`: tables; `answered`, `cleanups`, `tested`, `doubts`: history of what was told, cleaned, executed, doubted | `StartRequested` ... `StartFails`: `start`; `Prompt`: a Session is prompted and awaited; one action per stage, from `PrepareRun` to `PersistCompletedRun`; `ForceBlocked`: the downgrade of the report; `ExecutionFails`, `Leave`: the catch and finally of `execute`; `Recover` |
| `TestData` | `accounts`, `controls`, `late`: the application; `entries`: the register; `verdict`, `told`: what the code says; `op`: the call in progress | `RegisterTestData`, `ScopeBegins` and its steps: `verify_run_cleanup_scope`; `CleanupBegins`, `CleanupDeletes`, `CleanupQueries`, `CleanupEnds`: the Harness's clean-up; `CreateAccount`: the Runner's HTTP requests |
| `Evidence` | `disk`, `object`, `late`: files and objects; `kept`, `distrusted`, `reference`: what the Harness vouches for; `seen`: what the Reviewer read | `Capture*`, `UploadReads`, `UploadSucceeds`, `UploadFails`, `UploadKnown`, `UploadAll*`, `ReviewerReads`, `DeletesObject` |
| `SourceReads` | `text`, `cursors`, `pending`, `receipts`, `stored`, `shown`, `plan` | `ReadPage`, `ReadList`, `WritePlan` join the chain; `ReceiptWritten`, `ReceiptFails`, `PlanWritten`, `PlanFails` are their turns |
| `ScenarioRules` | `tree`, `changed`, `plan`; `declared`, `active`, `completed`, `ran`: the Runner's progress; `calls`, `read`, `attempted`, `seen`: the Reviewer's; `report` | `RunnerStarts`, `Begin`, `Start`, `Finish`, `RunnerEnds`; `ReadArtifact` ... `ImageAnswered`, `WriteReview`, `ReviewerGivesUp`; `ReportWritten`, with `Downgraded` |

An Agent Session is a free choice of everything it may write, call or leave out, and it may never
answer: the properties hold whatever a language model does. What the downgrade of a report with
blocking reasons does depends on the report: it rewrites the first line of the form
`result: passed` wherever that line stands, which is the frontmatter's own line, one of the text
below it, or none (the disjuncts of `ForceBlocked`, and `report.line`). A frontmatter such as
`result: passed # x` is passed for the YAML parser and not of that form; with a line of the form in
the text the downgrade then misses the result (`files[r].missed`). For the pipeline a
result is passed or it is not (`Results`); `ScenarioRules` tells failed from blocked too. The
properties of a passed Run except such a report, and finding 15 is about it. The application under test, its clean-up endpoint
and the object storage do what they like within what HTTP allows.

### How the small modules are composed

`Installation` extends the eight modules around a Run and `RunWork` the five inside one. The
variable `part` is the component whose steps a behaviour takes; all others rest in an initial
state. In the model these components share no state, so this composes no interaction: it makes
one specification that a run can check and a theorem can speak about, and its state graph is the
disjoint union of the parts' graphs. `InstallationIsItsComponents` and `RunWorkIsItsComponents`
prove that a behaviour of the whole is a behaviour of each part. `MCInstallation` and
`MCRunWork` add only the values of two constants; the properties are those of the components.
`MCLive` does the same with `INSTANCE ... WITH` for the three specifications that have fairness.

What does interact is composed: the queue with the dispatcher, scheduler, routes and recovery
(`Dispatcher`), the archives with each other, the clone and an executing Run (`RunArchive`), the
poller with the scheduler's tick, the images of the administrator with those of a Run, the v0.6
monitor with its scan.

A module's mutants are the operators marked *Mutant* before the definition they stand in for
(for example `PushTakenUnleased`, `EntersWhileDriven`, `DeleteTrusted`).

## 3. The runs

| run | instance | what it shows |
|---|---|---|
| `queue` | `MCQueue`: 2 projects, 2 manual requests of either kind, 2 commits, 1 configuration change each | the queue's invariants under every order of calls; a project is passed over fewer than `NumProjects` times |
| `restarts` | `MCDispatcher`: 1 project, 2 requests, 2 commits, 3 crashes | no running row and no pending archive without an actor that will end it; the process uses the queue by its rules (refinement of `QueueNext`); Runs start once, merges are made and published once, however often recovery is cut short |
| `progress` | 1 project, 2 requests, 1 crash, fairness | the slot is freed, requests are taken up, archives end |
| `turns` | 2 projects, 2 manual requests, fairness | no wake-up is lost when a request meets a sleeping loop |
| `archive` | `MCArchive`: 2 Runs, 2 bugs (one links to an Issue), 3 histories, 1 failure, 1 push of others, 1 crash, one archive at a time, fairness | the archives implement `ArchiveContract`; a report marked published is on the branch; one pull request; every archive completes in the end |
| `archive_shared` | 2 Runs, 2 histories with reviews, 1 failure, 1 crash, two archives at once, impatient reviewers | one Issue per bug, the baseline moves forward and covers every closed conclusive Run, even when the clone is shared |
| `installation` | `MCInstallation`; poller: 2 places, 3 commits, 1 failure, change and crash; images: 2 keys, 1 Run, 3 images, 2 starts, 1 loss; readiness: 2 calls, 2 checks, 1 write; merge: 1 request, 4 commits, 1 deletion, failure and crash; index: 2 paths, 2 identifiers, 2 callers, 2 commits, 1 rewrite; v0.6: 2 requests, 2 scanners, 1 crash and failure; upgrade: 1 backup directory, 2 versions, 1 damage; console: 2 projects, 3 entries of history, 1 write | no watched commit is skipped and no Cron minute polled twice; a Run's commands run in the image it recorded, one actor prepares a key, no old container is left; a project is activated with what was checked and an instance upgraded as it was backed up and reviewed; a merge keeps others' work and is resolved to what was published; the index is that of one commit and a patch loses no scenario; one v0.6 request is driven and a directory removed only when the queue is done with its Run; no half upgrade; a late answer does not change a page, a request goes to the project on whose page it was asked for |
| `run_work` | `MCRunWork`; orchestrator: 2 Runs, 1 patch, 1 crash; data: 2 accounts, 1 scope call, 2 losses; evidence: 2 versions, 2 losses; sources: 2 texts of 2 pages, 2 receipts, 2 calls waiting, 1 failed write; rules: 2 scenarios, 2 images, plans up to 2 | passed means executed with the patch in the directory and without doubt (unless the downgrade missed the result), cleaned up once before anyone was told; clean means absent; evidence is redacted, vouched for and complete; a page has its receipt and a full file was read in full; the Reviewer sees originals first |
| `live` | `MCLive`; poller, orchestrator with 1 Run, v0.6 service with 2 requests, under their fairness | pushes are requested, a Run leaves its slot or hangs in one unanswered prompt, v0.6 requests end if their Runs do |
| `archive_clone` | as `archive_shared` | *violated*, finding 2 |
| `dropped` | 1 project, 1 request, 1 crash | *violated*, finding 3 |
| `console_draft` | `WebConsole`: 2 projects | *violated*, finding 5 |

Bounds. `MaxRequests` caps rows ever inserted, `MaxRevision` configuration changes,
`MaxCrashes` crashes. Two requests are the least for order, coalescing, the slot and the
coordination between an archive and the next Run; two projects the least for turns (what holds
of turns for any number of projects is proved). Two commits let a target or merge be replaced
by another. Automatic requests, with their coalescing, are in `restarts` and `progress`. One
crash reaches every recovery branch, three reach a crash during the recovery of a recovery. In
`RunArchive` two Runs are the least for two archives and for a baseline that could go back; one
failure, one lost answer or one crash each lead to a retry, and a retry that fails again is a
retry; the histories hold each result, each way to publish a patch, Runs with and without a
report, and bugs with new and with linked Issues. In `GitPoller` three commits are a first one,
one that is polled and one that arrives during the poll, on two places because the
configuration may move between them. In `ProjectImages` three images allow both keys to be
built and one to be built again; two starts allow one reclaim. In `ProjectReadiness` two
overlapping checks and one write between any two of their awaits are the least that mix. In
`MergeRequest` four commits are the branch, the source, the merge and one of others. In
`RepositoryIndex` two callers and two commits let an older snapshot overwrite a newer one. In
`LegacyAutomation` two requests put one in the monitor and one in the queue, or one in a scan and
one in the other, and two scanners are the scheduler and the route.
In `TestData` two losses allow a creation and its deletion to go unanswered. The orchestrator
needs one patch to have it changed after its execution, and a second Run only to compete for
the slot. `CHECK_DEADLOCK FALSE` because with these bounds the system may have nothing left to
do. The initial states are a fresh deployment and, for the dispatcher, the state an offline
upgrade leaves (one paused project with one pending archive).

Fairness. `LoopFairness` and `ArchiveFairness` say that a promise whose awaited call has
settled is resumed and that the awaited calls settle: commands of Git and Docker and the calls of
GitHub, storage and clean-up have time limits in the code, and the scheduler's interval timer
starts ticks. A Session has none (`agent-session.ts:137` awaits its prompt without a limit), nor
have some local commands (`run-source.ts:58`). That a Run ends is therefore an assumption about the environment, without a reason in the code, of the
liveness properties of `Dispatcher` and `LegacyAutomation`; without it a Session that hangs holds
the one slot for ever. Fairness is
weak and per loop; inside a loop its next step is determined except for outcomes. Nothing
makes an operator act, the poller find commits, or the process crash. `SlowArchiveSpec` drops
the fairness of the archives the drain loop started. In `RunArchive` each archive is weakly
fair, for the same reasons, and its start is strongly fair: the tick's loop visits every failed
or partial archive again, while the clone it needs is free only between other archives. In
`live` the poller's tick goes on and the poll interval passes; the orchestrator's pipeline
goes on or fails unless it awaits a prompt (`OrchestratorFairness`), so `SlotFreeUnlessHung` says
that a Run that never leaves its slot hangs in one prompt for ever; the v0.6 service, each
monitor and each archive go on. Nobody pushes, toggles, submits or crashes by fairness.

### What disagrees with the repository's documents

Three findings are runs; the others have a `.cfg` of their own, and TLC finds each of them
violated with the command shown.

1. `ArchiveHoldsOnlyItsProject` (`tlc -config FindingArchiveHolds.cfg MCDispatcher`): `drainInner`
   sleeps on its archives and everyone joins the sleeping loop, so a request of another project
   waits for an archive (`docs/changes/luowang-multi-project/spec.md:108` says it does not).
2. `BaselinePublished` (run `archive_clone`): an archive that is retried and the Run, or the
   archive, that uses the clone of the same project meanwhile move its HEAD. A push of `HEAD`
   may then push another commit, or nothing, and succeed: the report is recorded as published,
   the baseline moves to the Run, and no report of it is on the branch.
3. `PendingArchiveNotDropped` (run `dropped`): recovery fails a pending archive when its services
   cannot be built, instead of leaving it to be retried.
4. `FinishedMergeRefDeleted` (`FindingMergeRefs.cfg`, `MCDispatcher`): no one deletes the internal
   ref of a request that ended just before a crash; the reconciliation at startup that the
   production closure plans, and the legacy service has, is missing.
5. `SavedFromOwnProject` (run `console_draft`): a draft of the onboarding page survives the change
   to another project and is saved there.
6. `ConfirmedWhereOpened`, `ConfirmedAsNamed` (`tlc -continue -config FindingConsoleConfirm.cfg
   WebConsole`), `WriteKeepsPage` (`FindingConsoleMoves.cfg`): an open confirmation is carried out
   on the next project; the confirmation of a test request names the project still shown, which
   after the back button may be another than the one it is sent to; links and the back button
   change the project while a write is in flight.
7. `PreparingIsOwned` (`FindingImagesLeft.cfg`, `MCInstallation`): nothing marks as interrupted an
   image whose build a crash ended; its key stays `preparing` and is refused from then on.
8. `ShownOkIsCurrent` (`FindingReadinessStale.cfg`, `ProjectReadiness`): a check in flight stores
   results about inputs that changed meanwhile.
9. `ReviewedExecutionIsFormal` (`tlc -continue -config FindingOrchestrator.cfg RunOrchestrator`,
   also for 10 and 15): the Reviewer may audit the execution record of the reconnaissance.
10. `FailedIsNotInterrupted`: a restart records failed Runs as interrupted.
11. `IndexOnlyForward` (`FindingIndexBack.cfg`, `RepositoryIndex`): of two overlapping
    synchronisations the slower one puts the index back.
12. `ArchivedMayGo`, `RemovedIsUnused` (`tlc -continue -config FindingLegacyKept.cfg
    LegacyAutomation`): the archive status of a request may stay `failed` although its archive
    succeeded, and its directory is kept for ever; and a scan may complete a request from its own
    result while the monitor has the Run archived once more, so that the directory is removed
    during that archive, which then records the archived Run as failed.
13. `UpgradedStarts` (`FindingUpgradedStarts.cfg`, `Upgrade`): an instance with some legacy
    migrations missing is upgraded, and then no server starts on it.
14. `ActivatedWithChecked` (`FindingActivation.cfg`, `ProjectReadiness`): the fingerprint of
    `resume` is compared before and after its check, not during it; a Secret that was absent,
    is written while the check reads it and is deleted again goes unseen, and the project becomes
    active on a result about it. What does hold, and is checked and proved, is
    `ActivatedAsChecked`: every input that is present is the one the check was about.
15. `DoubtedIsNotPassed` (`FindingOrchestrator.cfg`, `RunOrchestrator`): the downgrade of a report
    with blocking reasons rewrites the first line of the form of a result, also when that is a
    line of the text; the Run then completes as passed with its reasons left.

`PROJECT.json` quotes the document each one contradicts.

## 4. What is proved

`TestRequestQueueProofs`, for any number of projects, requests, commits and configuration
changes, from `QueueAssumption` alone (the constants are numbers and sets of the right kind):
`TypeCorrect`, `OneRunningCorrect`, `OldestFirstCorrect`, `PendingSnapshotCorrect`,
`ResolvedIsPreparedCorrect`, `LinkedRunNotQueuedCorrect` and the action property
`RecordedFactsStayCorrect`.

The argument. `RowOperationEffect` says once what an operation may do to its row (`RowEffect`:
other rows stay, recorded facts stay, nothing pending, linked or resolved out of nowhere) and
that only a claim makes a row running or claimed (`NotClaimed`); `EnqueueEffect` that an
enqueue either joins a queued row or adds a blank one behind all others. The inductive
invariant `IndInv` is the conjunction of the properties and of `UnallocatedBlank`, which says
that an identifier not yet allocated carries nothing. The conjunction is needed: `OldestFirst`
is kept by a claim only because the slot is empty (so no older request runs), the project has
no pending archive (so none waits) and the claimed request is the oldest queued one;
`ResolvedIsPrepared` is kept by `MarkPrepared` because a target is never fixed before a merge
is prepared.

Its last theorem is about `RoundRobin`, for any number of projects: `BoundedBypassCorrect`. The claims that passed
over a project plus its distance from the cursor stay below one round (`BypassInv`), because a
claim of another project brings the cursor closer by at least one (`ScanAdvances`).

`DispatcherProofs`, for any number of crashes as well, from `QueueAssumption` and
`DispatcherAssumption` (there is room for the one request an upgrade may leave, and the console
may submit requests):

- `DispatcherFollowsQueue`: every step of the process is a step of `TestRequestQueue`. The
  recovery, the archives and the tick call the queue's operations only where their guards hold,
  so `QueueInvariantsHold` carries the queue's theorems over to the process, also from the
  state after an upgrade, which is no initial state of the queue.
- `DispatcherTypeCorrect`, `SlotOwnedCorrect`, `PendingArchiveDrivenCorrect` and
  `OneArchiverCorrect`.

The argument. `DispatcherInv` is the queue's invariant, the types and `Control`, which says
where each actor stands towards the rows: the loop's request is the running one (`DrainRow`)
and what it is about to record is a commit (`DrainData`); nothing drains before the recovery
has seen every row in flight, nothing ticks before it has ended (`Phases`); a worker's row is
where the worker expects it and nobody else's (`WorkerRows`); a deferred row waits for its
archive and what the tick listed is deferred or completed (`DeferredRows`, `TickRows`). All of
it is needed for `OneArchiver` alone: a retry may start only because a row the tick has listed
and that is not deferred is completed, so no other archive can be running on it, and no other
retry is. `RowStatus` and `EnqueueStatus` say what the queue's operations do to a row's status;
then there is one lemma for each actor, with a step for each of its actions.

Its second part, from the same assumptions: `RunStartsOnceCorrect`,
`ArchivedRunFinishedCorrect`, `PreparedMergeKeptCorrect`, `TargetPublishedCorrect` and
`MergeMadeOnceCorrect`. On top of `DispatcherInv`, `RunInv` says of each request what its status
tells of the world (`RowOK`: a queued request has no directory and an archived one a completed
one; the ref holds the prepared merge of a pending request; the branch has that merge or none,
and the target of a resolved one), of the loop how far it is with the directory (`DrainDir`),
and that the recovery removes the ref only of a request that has ended (`RecoveryRow`). A claim
keeps it because a queued request has no Run, the recovery because it looks at the directory
before it puts a request back or archives it.

`RunArchiveProofs`, for any number of Runs, bugs, failed calls, foreign pushes and crashes, from
`ArchiveAssumption` (the bug keys are finite and none is named like a job, the histories hold
what `assertArchivableReport` lets through):

- `ArchiveTypeCorrect`, `IssueFiledOnceCorrect`, `BaselineForwardCorrect` and
  `BaselineCoversCorrect` hold for any `CloneUsers`: they rest on the Run store and on GitHub,
  not on the clone.
- `OnePullRequestCorrect` holds for any `CloneUsers` too, assuming `ReviewersWait`.
- `MarkedReportPublishedCorrect` and `KeepsContractCorrect` (the archives implement
  `ArchiveContract`) assume `CloneUsers <= 1`. The run `archive_clone` shows that the
  assumption is needed.

The argument. `ArchiveInv` is the types and, for each Run, `RunInv`: what the record has of the
artifacts (`RecordInv`), where the archive may stand (`PlaceInv`), what a completed archive has
done and the baseline covers (`CompletedInv`), and how the Issues on GitHub relate to those
recorded and to the archive that is about to create one (`IssueInv`). `PlaceInv` is what makes
`IssueFiledOnce` inductive: an archive stands at the creation of an Issue only after its search
found none, and only one archive of a Run is under way. A step of one Run leaves what is known
of the others alone (`Frame`, `OthersKeep`), because the branch and the baseline only grow
(`Grows`). `PullInv` adds that a created pull request is open or recorded. `ExclusiveInv` adds,
for one archive in the clone, what the clone holds between two steps of a publication
(`CloneInv`: after the commit, HEAD is the head that was read and this one item), so that a push
that is accepted has put the item on the branch, and that what is marked as published is
(`PublishedInv`). `ContractStep` maps every step to a step of the contract or to a stutter.

`MergeRequestProofs`, with no assumption on the constants except for the types (`MergeAssumption`):
`ResolvedIsPublishedMergeCorrect` and `OthersWorkKeptCorrect`, and both as `MergesPublishedCorrect`.
The inductive invariant `MergeInv` says that histories are closed under ancestors (`Commits`), which
commit each ref and each step of the command sequence may hold (`Places`, `OpInv`) and what the row
has recorded (`RowInv`). `Grows` says that no action, those of others included, changes the
ancestors of a commit that exists.

`ProjectImagesProofs`, with no assumption on the constants except for the types
(`ImagesAssumption`): `SessionImageRecordedCorrect`, `OnePreparationCorrect` and
`NoOldContainerCorrect`, which are the three parts of `OneImagePerRun` (`OneImagePerRunCorrect`). An
actor that has an image has one of its key (`ActorOK`); a container is of a Run that has begun and
of an image that is there, and the Run in execution has none before it creates one (`ContainerOK`);
nobody acts while resources are reclaimed (`Quiet`). The last is why a start leaves no old
container; the second is why an image that was prepared again in between is never mistaken for the
one the container was made from.

`RunOrchestratorProofs`, with no assumption on the constants except for the types
(`OrchestratorAssumption`): `PassedAsExecutedCorrect`, `CleanedBeforeToldCorrect` and
`CompletedStaysCorrect`, and the three as `CompletedIsAsTold`, whatever the Sessions write. A
report whose result the downgrade missed is excepted from what is said of passed Runs.
`PatchOK` follows the patch through the pipeline: the tree is clean while Main plans, holds the
patch of the directory when the formal Runner starts, and from then on each stage knows that what
was executed is what the directory holds, until the downgrade, which makes the report blocked, is
marked as missed or fails the Run, if it is not. A
Run that is doubted has a reason that stays, because the only reasons ever dropped are those about
the browser (`ReasonsFound`). `SlotOK` says where the directory is and how far the clean-up at each
stage, `RunOK` what stays true of a Run that left the slot; a start takes only Runs without a
directory, so nothing of an earlier attempt is met.

`RunWorkProofs`, about the other components inside a Run and their composition. Each component
has an inductive invariant that joins its types to what is checked and to what is known at the
places a call may stand:

- `DataIsCleanedAsTold` (no assumption). `LateIsUnanswered`: a creation that may still be done
  was never confirmed, so it is no account the clean-up has verified. `ControlsOK`: a control
  account that is there, was harmed or may still be created belongs to a call that failed or
  will; this is what lets a lost answer count against the call that lost it.
- `EvidenceIsKept` (no assumption). `RedactedOK` follows a content on its way, also in a PUT that
  was given up and arrives later; `KeptOK` says that while everything is uploaded what is vouched
  for is still to be taken, has its reference, or blocks the Run.
- `ReadsAreRecorded` (`SourcesAssumption`: there is a first text and a text has a length).
  `FullTextIsCovered` is its lemma about ranges: ranges of one text that start at its first
  unit and leave no gap cover it. The receipts that `Accepted` looked at are never changed, so a
  plan that was accepted stays covered.
- `PassedIsAsReviewed` (`RulesAssumption`: names do not clash), for a report whose result the
  downgrade did not miss. `Progress` says that after k
  steps the Runner has started and finished the first scenarios of a valid list and nothing else;
  `AccountComesLast` that the Runner's account is not even being read before every original was
  answered, which is what overlapping calls could break.

`RunWorkIsCorrect` carries the five safety invariants over to `RunWork`. `RunWorkTypesCorrect`
is about bounds: the invariants above use the naturals, and each component has beside its own a
small invariant that its versions, patches, receipts, attempts and reports stay within what the
model allows. For these the bounds must be numbers (`DataAssumption`, `EvidenceAssumption`,
`OrchestratorAssumption`, the rest of `SourcesAssumption`).

`InstallationProofs`, about what surrounds a Run:

- `ActivationIsCheckedCorrect` (`ProjectReadiness`). Every number in the inputs is older than the
  next one to be written (`NumbersOK`), so an input that is present and equal to what it was when
  `resume` began has been there all along, and every result in between was about it (`Seen`).
  Without "present" it is false, which is finding 14. `ResultsOK` says that stored rows are of
  one check.
- `PollsMissNothingCorrect` (`GitPoller`). `SeenOK` and `PollOK`: below what counts as seen, and
  below the base a poll compares with, nothing watched is missing, whatever was pushed or
  configured during its awaits; `BranchesOK` is what makes a change of place harmless.
- `IndexIsFaithfulCorrect` (`RepositoryIndex`). A caller between two awaits holds a commit of the
  branch (`SyncsOK`), and the transaction replaces every row by that commit's.
- `LegacyDrivenCorrect` (`LegacyAutomation`). `FlightOK`: at most one request is in flight, and a
  process that serves has it in `activeQueueId`, one that recovers has it before it; `MonitorsOK`
  says where each promise stands towards its row and its Run. A directory goes only when the
  request is completed with a completed archive, and no later result takes that back, because
  `queue.complete` refuses a request that has ended. That nothing reads the directory any more is
  not claimed: it is false (finding 12).
- `UpgradesAreWhole` (`Upgrade`). `CutoverOK`: the database the transaction works on is the one
  whose fingerprint was taken and whose backup was verified; `TransactionOK` follows the
  migrations one by one, so that what is committed is all of them. A backup damaged after its
  verification (`spoiled`) goes unnoticed and is not excluded, and a restored backup does take
  the database back.
- `PageKeepsProjectCorrect` (`WebConsole`). A read that was not superseded is for the project of
  the page, and an open confirmation of the test page was opened on it. What that confirmation
  names may be another project, until the page has been read again (finding 6).

`InstallationIsItsComponents`, `InstallationIsCorrect` and `InstallationTypesCorrect` carry all of
it, and the properties of merges and images, over to `Installation`. The assumptions
(`PollerAssumption`, `IndexAssumption`, `LegacyAssumption`, `UpgradeAssumption`,
`ConsoleAssumption`, and for the types `ReadinessAssumption`, `ImagesAssumption`,
`MergeAssumption`) say that bounds are numbers, that a repository has a commit and a tab a page,
and that no path or identifier is one of the marks the model uses beside them.

Two findings about the model came from these proofs. In `RepositoryIndex` and `ScenarioRules` a
CASE had overlapping arms, whose value TLA+ leaves open and TLC takes from the first; they are
IF now. And activation had been stated with the inputs simply equal, which holds on a small
instance with few writes and is false in general: finding 14.

Each of these theorems is checked by TLC too, except that `OneRunning`, `OneArchiver`,
`LinkedRunNotQueued`, `RecordedFactsStay`, `ArchivedRunFinished` and the type invariants of the
queue, the dispatcher and the archives, which hold for every instance, are not repeated by a run.

Only model-checked: all liveness (`SlotFreed`, `RequestTakenUp`, `PendingArchiveEnds`,
`ArchiveConverges`, `PushRequested`, `SlotFreeUnlessHung`, `LegacyRequestEnds`), because fairness
and ENABLED are out of the prover's reach. Every safety invariant and every action property that
a passing run checks is stated by a theorem.

## 5. What is next

* `RequestLifecycle`: what a submitter is promised (accepted, executed at most once, ended
  once), with `Dispatcher` shown to implement it.
* The console of v0.6 (`src/web/App.tsx`, `src/web/settings/`), which keeps everything in one
  component and shares the API with the new one.

## 6. What is not modelled

* *Read models* (`runs/run-history.ts`, `projects/console-service.ts`,
  `operations/service.ts`): they change no state, and each request reads in one turn.
* *Security* (`server/security/`): each operation is one transaction or pure computation. That a
  Secret changes while something waits is in `ProjectReadiness` and `SourceReads`.
* *Configuration import and settings* (`config-transfer.ts`, `configuration.ts`, `config.ts`,
  `connectivity.ts`): parsing and validation of single values.

Partly modelled, and what is missing of them: the *task runtime* (that building services may
fail is modelled, the wiring of objects is not state); the *GitHub client* (limits of pages and
time); *Agent Sessions* (what a language model writes is a free choice); *test execution tools*
(limits and output formats of single calls); *containers* (resource limits, the copy of the
source tree, the inventory view); the *recovery store* (its presentation); the *database*
(tables appear as variables of their owners); the *web console* (the v0.6 console and
everything visual). `PROJECT.json` lists every component with its status, and under `hazards`
those no property covers, with the reason.
